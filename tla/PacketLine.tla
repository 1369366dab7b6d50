------------------------------ MODULE PacketLine ------------------------------
(***************************************************************************)
(* What a line of framing objects promises the objects at its ends: packets *)
(* arrive whole, once and in order, whatever the line does to lists of      *)
(* numbers; a break loses all that was under way and nothing else.  RawData *)
(* implements this specification.                                           *)
(***************************************************************************)
EXTENDS Sequences, Naturals

CONSTANT Packet

VARIABLES
    inflight,   \* packets under way, the oldest first
    received    \* packets that arrived

lineVars == <<inflight, received>>

Init == inflight = <<>> /\ received = <<>>

Send(p) == inflight' = Append(inflight, p) /\ UNCHANGED received

\* A line without delay.
SendThrough(p) == inflight = <<>> /\ received' = Append(received, p) /\ UNCHANGED inflight

\* The next k packets, which may be completed by one list.
Receive(k) ==
    /\ k <= Len(inflight)
    /\ received' = received \o SubSeq(inflight, 1, k)
    /\ inflight' = SubSeq(inflight, k + 1, Len(inflight))

Break == inflight' = <<>> /\ UNCHANGED received

Next ==
    \/ \E p \in Packet : Send(p) \/ SendThrough(p)
    \/ \E k \in 1 .. Len(inflight) : Receive(k)
    \/ Break

Spec == Init /\ [][Next]_lineVars
=============================================================================
