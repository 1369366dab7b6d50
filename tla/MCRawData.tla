------------------------------ MODULE MCRawData ------------------------------
(* RawData and Packets for TLC.  Bytes below 8, of which a signed char can   *)
(* hold 0 to 3 (256 and 127 in the code); every packet of one byte, those of *)
(* two with END or ESC in them, and one whose size has the high bit.         *)
(* The numbers of the protocol are scaled down with the bytes: those that    *)
(* may stand in one place differ.                                            *)
EXTENDS Packets

MCPackets ==
    {<<a>> : a \in Byte} \cup {p \in {3, 4, 5, 6, 7} \X {3, 4, 5, 6, 7} : {p[1], p[2]} \cap {END, ESC} # {}}
    \cup {<<1, 7, 4, 5, 0>>}
MCLists == {<<Symbol, 4, -1, 1>>, <<5, Base, 7, Symbol>>, <<2, Symbol>>, <<Symbol, -1>>}

MCCommand == [INFO |-> 1, INITIALIZE |-> 2, DISCOVER |-> 3, UPDATE |-> 4, REMOVE |-> 5, UPDATEVALUE |-> 6]
MCOption == [DATA |-> 2, VALUE |-> 4, LABEL |-> 5, APPLICATION |-> 6]
MCTypeId == [b |-> 1, t |-> 2, i |-> 5, f |-> 6, s |-> 4]
MCAny == <<1, 4, 5>>

\* Halves as text: two characters.
MCto_string(halves) == <<(halves % 16) \div 2, halves % 2>>

MCIdArgs == {0, -32, 32, -33}
\* The last is longer than its option can say.
MCLabel == {<<>>, <<4, 5>>, <<1, 1, 1, 1, 1, 1, 1, 1>>}
MCInt == {-5, 700}
MCFloat == {1, -3}
MCString == {<<>>, <<5, 7>>}

Says(name, id, atoms) == Output(id, name, atoms)

\* The lists of rcp.parse-help.pd (6, 9, 12, 23, 3, 28), two packets at once, and
\* lists with something that is no byte, or no packet, in them.
MCGiven == {
    [list |-> <<1, 0>>, says |-> <<Says("info", <<>>, <<>>)>>],
    [list |-> <<1, 2, 2, 3, 1, 6, 1, 7, 0, 0>>, says |-> <<Says("info", <<>>, <<<<"s", <<3, 1>>>>, <<"s", <<7>>>>>>)>>],
    [list |-> <<1, 2, 1, 3, 0, 0>>, says |-> <<Says("info", <<>>, <<<<"s", <<3>>>>>>)>>],
    [list |-> <<2, 0>>, says |-> <<Says("initialize", <<0>>, <<>>)>>],
    [list |-> <<2, 2, 0, 1, 0>>, says |-> <<Says("initialize", <<1>>, <<>>)>>],
    [list |-> <<3, 2, 0, 1, 0, 5, 2, 7, 7, 0>>,
     says |-> <<Says("discover", <<1>>, <<>>), Says("remove", <<-1>>, <<>>)>>],
    [list |-> <<6, 0, 2, 2, 1>>, says |-> <<Says("update", <<2>>, <<<<"t", 1>>>>)>>],
    [list |-> <<4, 2, 0, 3, 2, 0, 0, 0>>, says |-> <<Says("update", <<3>>, <<<<"t", 0>>>>)>>],
    [list |-> <<6, 0, 2, 1, 0, 2, 0>>, says |-> <<Says("update", <<2>>, <<>>)>>],
    [list |-> <<6, 0, 2, 5, 1, 2>>, says |-> <<>>],
    [list |-> <<2, 0, 2, 0, Symbol>>, says |-> <<>>],
    [list |-> <<2, 0, 3, 0, Base>>, says |-> <<>>],
    [list |-> <<3, 0, -1>>, says |-> <<>>]}
=============================================================================
