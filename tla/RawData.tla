------------------------------- MODULE RawData -------------------------------
(***************************************************************************)
(* Packets as lists of numbers in a patch (rcp.server-help.pd:262): the     *)
(* data output of one object with -raw, through slipencoder, sizeprefix or  *)
(* ws.server, over a line that keeps the order but not the boundaries of    *)
(* lists (a websocket keeps both), through slipdecoder, sppp or ws.client   *)
(* into the raw input of the other object.                                  *)
(*                                                                         *)
(* A byte is a number below Base.  Whether char is signed depends on the    *)
(* machine: it is on x86, and it is not on ARM.  The framing itself is done *)
(* by rcp-c, of which RFC 1055 and sppp-help.pd:19 say what it does; the    *)
(* buffers are taken to be large enough.                                    *)
(***************************************************************************)
EXTENDS Integers, SequencesExt

CONSTANTS
    Base,           \* 256
    CharIsSigned,
    END, ESC, ESC_END, ESC_ESC,
    Symbol,         \* an atom that is not a number
    Packets,        \* packets that rcp-c sends
    Lists,          \* lists a user sends to slipencoder
    MaxSent,        \* bound: packets sent and not lost
    MaxLine         \* bound: numbers on the line when a user sends a list

Byte == 0 .. Base - 1

ASSUME BaseAssumption == Base \in Nat /\ Base > 1 /\ CharIsSigned \in BOOLEAN
ASSUME SlipAssumption ==
    /\ {END, ESC, ESC_END, ESC_ESC} \subseteq Byte /\ END # ESC /\ ESC_END # ESC_ESC
    /\ {END, ESC} \cap {ESC_END, ESC_ESC} = {}
\* A packet has at least a command, and its size fits in four bytes.
ASSUME PacketAssumption ==
    \A p \in Packets : p \in Seq(Byte) /\ p # <<>> /\ Len(p) < Base * Base * Base * Base
ASSUME AtomAssumption == Symbol \notin Int /\ \A list \in Lists : list \in Seq(Int \cup {Symbol})

VARIABLES
    framing,        \* the objects in the patch: "slip", "size" or "ws"
    sent, received, \* packets that left rcp-c and that reached it
    stream,         \* the numbers on the line
    frame, escaped  \* the decoder's state

vars == <<framing, sent, received, stream, frame, escaped>>

TypeOK ==
    /\ framing \in {"slip", "size", "ws"}
    /\ sent \in Seq(Seq(Byte)) /\ received \in Seq(Seq(Byte))
    /\ stream \in Seq(-Base .. Base - 1)
    /\ frame \in Seq(Byte) /\ escaped \in BOOLEAN

Init ==
    /\ framing \in {"slip", "size", "ws"}
    /\ sent = <<>> /\ received = <<>>
    /\ stream = <<>>
    /\ frame = <<>> /\ escaped = FALSE

-----------------------------------------------------------------------------
(* Lists.                                                                  *)

IsByte(a) == a \in Byte

\* The atoms of a list that are in S, in their order.
Only(list, S) ==
    LET taken[i \in 0 .. Len(list)] ==
            IF i = 0 THEN <<>>
            ELSE IF list[i] \in S THEN Append(taken[i - 1], list[i]) ELSE taken[i - 1]
    IN  taken[Len(list)]

\* SetInt of a char, without a cast to unsigned char.
Number(d) == IF CharIsSigned /\ d >= Base \div 2 THEN d - Base ELSE d
Numbers(data) == [i \in DOMAIN data |-> Number(data[i])]

\* m_list without its test of the range.
AllNumbers(list) == Only(list, Int)

\* What m_list of slipencoder, slipdecoder and sppp take from a list.
Bytes(list) == Only(list, Byte)

Escape(d) == CASE d = END -> <<ESC, ESC_END>> [] d = ESC -> <<ESC, ESC_ESC>> [] OTHER -> <<d>>

\* m_list: what goes to the line, as unsigned char.
slipencoder(list) == FlattenSeq([i \in DOMAIN Bytes(list) |-> Escape(Bytes(list)[i])]) \o <<END>>

\* The size of a packet in network order, and what sppp reads from it.
SizeBytes(n) ==
    <<(n \div (Base * Base * Base)) % Base, (n \div (Base * Base)) % Base, (n \div Base) % Base, n % Base>>
Size(prefix) == prefix[1] * (Base * Base * Base) + prefix[2] * (Base * Base) + prefix[3] * Base + prefix[4]

\* sizeprefix for a size in host order (little-endian).
sizeprefixHost(list) == Numbers(Reverse(SizeBytes(Len(list)))) \o list

\* m_list: the right outlet, and then the left one with the list as it came.
sizeprefix(list) == Numbers(SizeBytes(Len(list))) \o list

\* The decoders take one byte; packets are the ones that are complete.
Decoder(f, e, p) == [frame |-> f, escaped |-> e, packets |-> p]

rcp_slip_append(s, d) ==
    IF d = END THEN Decoder(<<>>, FALSE, IF s.frame = <<>> THEN s.packets ELSE Append(s.packets, s.frame))
    ELSE IF d = ESC THEN Decoder(s.frame, TRUE, s.packets)
    ELSE LET c == IF ~s.escaped THEN d ELSE IF d = ESC_END THEN END ELSE IF d = ESC_ESC THEN ESC ELSE d IN
         Decoder(Append(s.frame, c), FALSE, s.packets)

rcp_sppp_data(s, d) ==
    LET bytes == Append(s.frame, d) IN
    IF Len(bytes) > 4 /\ Len(bytes) = 4 + Size(bytes)
    THEN Decoder(<<>>, s.escaped, Append(s.packets, SubSeq(bytes, 5, Len(bytes))))
    ELSE Decoder(bytes, s.escaped, s.packets)

\* What the decoder has after some bytes.
After(coding, start, bytes) ==
    LET after[i \in 0 .. Len(bytes)] ==
            IF i = 0 THEN start
            ELSE IF coding = "slip" THEN rcp_slip_append(after[i - 1], bytes[i])
            ELSE rcp_sppp_data(after[i - 1], bytes[i])
    IN  after[Len(bytes)]

\* slipdecoder sends unsigned char; sppp sends char.
Decoded(list) ==
    LET end == After(framing, Decoder(frame, escaped, <<>>), Bytes(list)) IN
    IF framing = "slip" THEN end
    ELSE [end EXCEPT !.packets = [i \in DOMAIN end.packets |-> Numbers(end.packets[i])]]

\* m_list of ws.client and ws.server: all or nothing.
WebsocketSends(list) == IF \A i \in DOMAIN list : IsByte(list[i]) THEN <<list>> ELSE <<>>

\* raw_data_list: a number that is no byte spoils the list, other atoms are
\* left out.  pushData passes on what is not empty.
raw_data_list(list) ==
    LET numbers == Only(list, Int) IN
    IF numbers # <<>> /\ \A i \in DOMAIN numbers : IsByte(numbers[i]) THEN <<numbers>> ELSE <<>>

RawInput(lists) == FlattenSeq([i \in DOMAIN lists |-> raw_data_list(lists[i])])

-----------------------------------------------------------------------------
\* dataOut of rcp.server or rcp.client, and the encoder connected to it.
dataOut(p) ==
    /\ Len(sent) < MaxSent
    /\ sent' = Append(sent, p)
    /\ \/ /\ framing = "slip"
          /\ stream' = stream \o slipencoder(Numbers(p))
          /\ UNCHANGED received
       \/ /\ framing = "size"
          /\ stream' = stream \o sizeprefix(Numbers(p))
          /\ UNCHANGED received
       \/ /\ framing = "ws"
          /\ LET messages == WebsocketSends(Numbers(p)) IN
             received' = received \o RawInput([i \in DOMAIN messages |-> Numbers(messages[i])])
          /\ UNCHANGED stream
    /\ UNCHANGED <<framing, frame, escaped>>

\* A list from a message box, with atoms that are no bytes; without any byte it
\* is no packet.
UserList(list) ==
    /\ framing = "slip" /\ Len(sent) < MaxSent /\ Len(stream) < MaxLine
    /\ sent' = IF Only(list, Byte) = <<>> THEN sent ELSE Append(sent, Only(list, Byte))
    /\ stream' = stream \o slipencoder(list)
    /\ UNCHANGED <<framing, received, frame, escaped>>

\* The line delivers the next n numbers in a list, or one as a float.
Deliver(n) ==
    /\ n <= Len(stream)
    /\ LET s == Decoded(SubSeq(stream, 1, n)) IN
       /\ received' = received \o RawInput(s.packets)
       /\ frame' = s.frame
       /\ escaped' = s.escaped
    /\ stream' = SubSeq(stream, n + 1, Len(stream))
    /\ UNCHANGED <<framing, sent>>

\* The connection is lost with what is on the line, and sppp is not reset.
ReconnectOnly ==
    /\ framing = "size"
    /\ stream' = <<>>
    /\ sent' = received
    /\ UNCHANGED <<framing, received, frame, escaped>>

\* The patch loses the connection with what is on the line and resets sppp.
m_reset ==
    /\ framing = "size"
    /\ stream' = <<>>
    /\ frame' = <<>>
    /\ sent' = received
    /\ UNCHANGED <<framing, received, escaped>>

Next ==
    \/ \E p \in Packets : dataOut(p)
    \/ \E list \in Lists : UserList(list)
    \/ \E n \in 1 .. Len(stream) : Deliver(n)
    \/ m_reset

Spec == Init /\ [][Next]_vars

-----------------------------------------------------------------------------
(* Properties.                                                             *)

\* However the line cuts the stream into lists, what reaches rcp-c is what was
\* sent, whole and in order (SlipDecoder.cpp:99-124, SPPParser.cpp:93-130).
Intact == IsPrefix(received, sent)

\* Once the line is empty every packet has arrived: what the data output provides
\* can be sent (rcp.server-help.pd:262), and nothing remains in a decoder
\* (sppp-help.pd:20).
Arrives == stream = <<>> => received = sent

\* What the decoder will have after the rest of the line is all that was sent: an
\* inductive invariant where char is unsigned, that has the two before as consequences.
LineInv ==
    /\ After(framing, Decoder(frame, escaped, received), stream) = Decoder(<<>>, FALSE, sent)
    /\ framing = "ws" => stream = <<>>
    /\ framing = "size" => ~escaped

\* Encoder, line and decoder are a line of packets, those sent and not yet received
\* being under way: no list makes a packet arrive twice, or lose another one, and a
\* break loses what is under way and nothing after it.
Line == INSTANCE PacketLine WITH
            Packet <- Packets \cup {Only(list, Byte) : list \in Lists},
            inflight <- SubSeq(sent, Len(received) + 1, Len(sent))
LineSpec == Line!Spec
=============================================================================
