---------------------------- MODULE Packets_proofs ----------------------------
(* Packets arrive whole and in order, for bytes of any size, any packets and *)
(* any number of them, where char is unsigned; rcp.format fills its lists     *)
(* exactly, for any id, label and value; and rcp.parse says of them what was  *)
(* sent to rcp.format.                                                        *)
EXTENDS Packets, Recursion

\* The atoms that are taken from a list.
LEMMA OnlyFollows ==
    ASSUME NEW T, NEW list \in Seq(T), NEW S
    PROVE  \E f \in [0 .. Len(list) -> Seq(S)] :
              /\ f[0] = <<>>
              /\ \A k \in 1 .. Len(list) :
                    f[k] = IF list[k] \in S THEN Append(f[k - 1], list[k]) ELSE f[k - 1]
              /\ Only(list, S) = f[Len(list)]
<1> DEFINE n == Len(list)
           Y == Seq(S)
           step == [k \in 1 .. n |-> [s \in Y |-> IF list[k] \in S THEN Append(s, list[k]) ELSE s]]
           taken(f) == f = [i \in 0 .. n |-> IF i = 0 THEN <<>>
                                             ELSE IF list[i] \in S THEN Append(f[i - 1], list[i])
                                             ELSE f[i - 1]]
<1>1. n \in Nat /\ <<>> \in Y /\ step \in [1 .. n -> [Y -> Y]]
  OBVIOUS
<1>2. PICK f \in [0 .. n -> Y] : Follows(f, n, <<>>, step)
  <2> HIDE DEF n, Y, step
  <2> QED BY <1>1, RecursionExists
<1>3. ASSUME NEW k \in 1 .. n
      PROVE  f[k] = IF list[k] \in S THEN Append(f[k - 1], list[k]) ELSE f[k - 1]
  <2>1. k - 1 \in 0 .. n /\ f[k] = step[k][f[k - 1]]
    <3> HIDE DEF step, Y
    <3> QED BY <1>2 DEF Follows
  <2>2. f[k - 1] \in Y
    BY <2>1
  <2> QED BY <2>1, <2>2
<1>4. taken(f)
  <2>1. f[0] = <<>>
    BY <1>2 DEF Follows
  <2> HIDE DEF n, Y, step
  <2>2. \A i \in 0 .. n : i = 0 \/ i \in 1 .. n
    OBVIOUS
  <2>3. f = [i \in 0 .. n |-> f[i]]
    OBVIOUS
  <2> QED BY <1>3, <2>1, <2>2, <2>3, Zenon
<1> DEFINE h == CHOOSE f1 : taken(f1)
<1>5. taken(h)
  <2> HIDE DEF taken
  <2> QED BY <1>4
<1>6. Only(list, S) = h[n]
  BY DEF Only
<1> HIDE DEF h, step, n
<1>7. h[0] = <<>>
  BY <1>1, <1>5
<1>8. ASSUME NEW k \in 1 .. n
      PROVE  h[k] = IF list[k] \in S THEN Append(h[k - 1], list[k]) ELSE h[k - 1]
  <2>1. k \in 0 .. n /\ k # 0
    BY <1>1
  <2> QED BY <1>5, <2>1, Zenon
<1> HIDE DEF taken
<1>9. h \in [0 .. n -> Y]
  <2> DEFINE R == {k \in 0 .. n : h[k] = f[k]}
  <2>1. 0 \in R
    BY <1>1, <1>2, <1>7 DEF Follows
  <2>2. ASSUME NEW k \in 0 .. n - 1, k \in R
        PROVE  k + 1 \in R
    <3>1. k + 1 \in 0 .. n /\ k + 1 \in 1 .. n /\ (k + 1) - 1 = k
      BY <1>1
    <3> QED BY <1>3, <1>8, <2>2, <3>1, Zenon
  <2> HIDE DEF R
  <2>3. 0 .. n \subseteq R
    BY <1>1, <2>1, <2>2, UpTo
  <2>4. \A k \in 0 .. n : h[k] = f[k]
    BY <2>3 DEF R
  <2>5. h = [i \in 0 .. n |-> h[i]]
    BY <1>5 DEF taken
  <2> QED BY <2>4, <2>5
<1> QED BY <1>6, <1>7, <1>8, <1>9 DEF n, Y

LEMMA OnlyAll ==
    ASSUME NEW T, NEW list \in Seq(T), NEW S
    PROVE  /\ Only(list, S) \in Seq(S)
           /\ T \subseteq S => Only(list, S) = list
<1> DEFINE n == Len(list)
<1>1. PICK f \in [0 .. n -> Seq(S)] :
         /\ f[0] = <<>>
         /\ \A k \in 1 .. n : f[k] = IF list[k] \in S THEN Append(f[k - 1], list[k]) ELSE f[k - 1]
         /\ Only(list, S) = f[n]
  BY OnlyFollows
<1>2. ASSUME T \subseteq S
      PROVE  Only(list, S) = list
  <2> DEFINE R == {k \in 0 .. n : f[k] = SubSeq(list, 1, k)}
  <2>0. n \in Nat
    OBVIOUS
  <2>1. 0 \in R
    <3>1. SubSeq(list, 1, 0) = <<>>
      OBVIOUS
    <3> QED BY <1>1, <3>1
  <2>2. ASSUME NEW k \in 0 .. n - 1, k \in R
        PROVE  k + 1 \in R
    <3>1. k + 1 \in 0 .. n /\ k + 1 \in 1 .. n /\ (k + 1) - 1 = k
      OBVIOUS
    <3>2. list[k + 1] \in S
      BY <1>2, <3>1
    <3>3. f[k + 1] = Append(f[k], list[k + 1])
      BY <1>1, <3>1, <3>2, Zenon
    <3>4. SubSeq(list, 1, k + 1) = Append(SubSeq(list, 1, k), list[k + 1])
      BY <3>1
    <3> QED BY <2>2, <3>1, <3>3, <3>4, Zenon
  <2> HIDE DEF R
  <2>3. 0 .. n \subseteq R
    BY <2>0, <2>1, <2>2, UpTo
  <2>4. f[n] = SubSeq(list, 1, n)
    BY <2>0, <2>3 DEF R
  <2>5. SubSeq(list, 1, n) = list
    OBVIOUS
  <2> QED BY <1>1, <2>4, <2>5
<1>3. Only(list, S) \in Seq(S)
  BY <1>1
<1> QED BY <1>2, <1>3

-----------------------------------------------------------------------------
(* The decoders.                                                           *)

Payload == Seq(Byte) \ {<<>>}
State == [frame : Seq(Byte), escaped : BOOLEAN, packets : Seq(Payload)]

Step(coding, s, d) == IF coding = "slip" THEN rcp_slip_append(s, d) ELSE rcp_sppp_data(s, d)

LEMMA PayloadType ==
    ASSUME NEW bytes \in Seq(Byte), Len(bytes) > 4
    PROVE  SubSeq(bytes, 5, Len(bytes)) \in Payload
<1> DEFINE payload == SubSeq(bytes, 5, Len(bytes))
<1>1. payload \in Seq(Byte) /\ Len(payload) > 0
  OBVIOUS
<1> HIDE DEF payload
<1>2. payload # <<>>
  BY <1>1
<1> QED BY <1>1, <1>2 DEF Payload, payload

LEMMA StepType ==
    ASSUME NEW coding, NEW s \in State, NEW d \in Byte
    PROVE  Step(coding, s, d) \in State
<1>1. s.frame \in Seq(Byte) /\ s.escaped \in BOOLEAN /\ s.packets \in Seq(Payload)
  BY DEF State
<1>2. ASSUME NEW f \in Seq(Byte), NEW e \in BOOLEAN, NEW p \in Seq(Payload)
      PROVE  Decoder(f, e, p) \in State
  BY DEF Decoder, State
<1>3. rcp_slip_append(s, d) \in State
  <2>1. CASE d = END
    <3>1. s.frame # <<>> => Append(s.packets, s.frame) \in Seq(Payload)
      BY <1>1 DEF Payload
    <3>2. (IF s.frame = <<>> THEN s.packets ELSE Append(s.packets, s.frame)) \in Seq(Payload)
      BY <1>1, <3>1
    <3>3. <<>> \in Seq(Byte)
      OBVIOUS
    <3> QED BY <1>2, <2>1, <3>2, <3>3 DEF rcp_slip_append
  <2>2. CASE d # END /\ d = ESC
    BY <1>1, <1>2, <2>2 DEF rcp_slip_append
  <2>3. CASE d # END /\ d # ESC
    <3> DEFINE c == IF ~s.escaped THEN d ELSE IF d = ESC_END THEN END ELSE IF d = ESC_ESC THEN ESC ELSE d
    <3>1. c \in Byte
      BY SlipAssumption
    <3>2. rcp_slip_append(s, d) = Decoder(Append(s.frame, c), FALSE, s.packets)
      BY <2>3 DEF rcp_slip_append
    <3> HIDE DEF c
    <3>3. Append(s.frame, c) \in Seq(Byte)
      BY <1>1, <3>1
    <3> QED BY <1>1, <1>2, <3>2, <3>3
  <2> QED BY <2>1, <2>2, <2>3
<1>4. rcp_sppp_data(s, d) \in State
  <2> DEFINE bytes == Append(s.frame, d)
             payload == SubSeq(bytes, 5, Len(bytes))
  <2>1. bytes \in Seq(Byte)
    BY <1>1
  <2>2. CASE Len(bytes) > 4 /\ Len(bytes) = 4 + Size(bytes)
    <3>1. rcp_sppp_data(s, d) = Decoder(<<>>, s.escaped, Append(s.packets, payload))
      BY <2>2 DEF rcp_sppp_data
    <3>2. payload \in Payload
      BY <2>1, <2>2, PayloadType
    <3> HIDE DEF payload
    <3>3. Append(s.packets, payload) \in Seq(Payload) /\ <<>> \in Seq(Byte)
      BY <1>1, <3>2
    <3> QED BY <1>1, <1>2, <3>1, <3>3
  <2>3. CASE ~(Len(bytes) > 4 /\ Len(bytes) = 4 + Size(bytes))
    <3>1. rcp_sppp_data(s, d) = Decoder(bytes, s.escaped, s.packets)
      BY <2>3 DEF rcp_sppp_data
    <3> QED BY <1>1, <1>2, <2>1, <3>1
  <2> QED BY <2>2, <2>3
<1> QED BY <1>3, <1>4 DEF Step

\* A decoder's states, byte by byte.
Traces(coding, start, bytes, f) ==
    f[0] = start /\ \A k \in 1 .. Len(bytes) : f[k] = Step(coding, f[k - 1], bytes[k])
Runs(coding, start, bytes, f) == f \in [0 .. Len(bytes) -> State] /\ Traces(coding, start, bytes, f)

LEMMA TracesUnique ==
    ASSUME NEW coding, NEW start \in State, NEW bytes \in Seq(Byte), NEW f, NEW g,
           Traces(coding, start, bytes, f), Traces(coding, start, bytes, g)
    PROVE  \A k \in 0 .. Len(bytes) : f[k] = g[k]
<1> DEFINE n == Len(bytes)
           R == {k \in 0 .. n : f[k] = g[k]}
<1>0. n \in Nat
  OBVIOUS
<1>1. 0 \in R
  BY <1>0 DEF Traces
<1>2. ASSUME NEW k \in 0 .. n - 1, k \in R
      PROVE  k + 1 \in R
  <2>1. k + 1 \in 0 .. n /\ k + 1 \in 1 .. n /\ (k + 1) - 1 = k
    BY <1>0
  <2> QED BY <1>2, <2>1, Zenon DEF Traces
<1> HIDE DEF R
<1>3. 0 .. n \subseteq R
  BY <1>0, <1>1, <1>2, UpTo
<1> QED BY <1>3 DEF R

LEMMA AfterRuns ==
    ASSUME NEW coding, NEW start \in State, NEW bytes \in Seq(Byte)
    PROVE  \E f : Runs(coding, start, bytes, f) /\ After(coding, start, bytes) = f[Len(bytes)]
<1> DEFINE n == Len(bytes)
           step == [k \in 1 .. n |-> [s \in State |-> Step(coding, s, bytes[k])]]
           after(f) == f = [i \in 0 .. n |-> IF i = 0 THEN start
                                             ELSE IF coding = "slip" THEN rcp_slip_append(f[i - 1], bytes[i])
                                             ELSE rcp_sppp_data(f[i - 1], bytes[i])]
<1>1. n \in Nat /\ step \in [1 .. n -> [State -> State]]
  BY StepType
<1>2. PICK f \in [0 .. n -> State] : Follows(f, n, start, step)
  <2> HIDE DEF n, step
  <2> QED BY <1>1, RecursionExists
<1>3. ASSUME NEW k \in 1 .. n
      PROVE  f[k] = Step(coding, f[k - 1], bytes[k])
  <2>1. k - 1 \in 0 .. n /\ f[k] = step[k][f[k - 1]]
    <3> HIDE DEF step
    <3> QED BY <1>2 DEF Follows
  <2>2. f[k - 1] \in State
    BY <2>1
  <2> QED BY <2>1, <2>2
<1>4. f[0] = start
  BY <1>2 DEF Follows
<1>5. after(f)
  <2> HIDE DEF n, step
  <2>1. \A i \in 0 .. n : i = 0 \/ i \in 1 .. n
    OBVIOUS
  <2>2. f = [i \in 0 .. n |-> f[i]]
    OBVIOUS
  <2> QED BY <1>3, <1>4, <2>1, <2>2, Zenon DEF Step
<1>6. PICK h : after(h) /\ After(coding, start, bytes) = h[n]
  <2>1. After(coding, start, bytes) = (CHOOSE f1 : after(f1))[n]
    BY DEF After
  <2> HIDE DEF after, n
  <2> QED BY <1>5, <2>1
<1> HIDE DEF step, n
<1>8. h[0] = start
  BY <1>1, <1>6
<1>9. ASSUME NEW k \in 1 .. n
      PROVE  h[k] = Step(coding, h[k - 1], bytes[k])
  <2>1. k \in 0 .. n /\ k # 0
    BY <1>1
  <2> QED BY <1>6, <2>1, Zenon DEF Step
<1>10. n \in 0 .. n /\ h[n] = f[n]
  <2>1. Traces(coding, start, bytes, f)
    BY <1>3, <1>4, Zenon DEF n, Traces
  <2>2. Traces(coding, start, bytes, h)
    BY <1>8, <1>9, Zenon DEF n, Traces
  <2>3. \A f1, f2 : Traces(coding, start, bytes, f1) /\ Traces(coding, start, bytes, f2)
                     => \A k \in 0 .. Len(bytes) : f1[k] = f2[k]
    BY TracesUnique
  <2>4. \A f2 : Traces(coding, start, bytes, f2) => \A k \in 0 .. Len(bytes) : f[k] = f2[k]
    BY <2>1, <2>3, Zenon
  <2>5. \A k \in 0 .. Len(bytes) : f[k] = h[k]
    BY <2>2, <2>4
  <2>6. n \in 0 .. n
    BY <1>1
  <2> QED BY <2>5, <2>6 DEF n
<1> QED BY <1>3, <1>4, <1>6, <1>10 DEF n, Runs, Traces

\* Whatever runs like the decoder ends where it does.
LEMMA AfterIs ==
    ASSUME NEW coding, NEW start \in State, NEW bytes \in Seq(Byte), NEW g,
           Traces(coding, start, bytes, g)
    PROVE  After(coding, start, bytes) = g[Len(bytes)]
<1>1. PICK f : Runs(coding, start, bytes, f) /\ After(coding, start, bytes) = f[Len(bytes)]
  BY AfterRuns
<1>2. \A k \in 0 .. Len(bytes) : f[k] = g[k]
  <2>1. Traces(coding, start, bytes, f)
    BY <1>1 DEF Runs
  <2> QED BY <2>1, TracesUnique
<1>3. Len(bytes) \in 0 .. Len(bytes)
  OBVIOUS
<1> QED BY <1>1, <1>2, <1>3

LEMMA AfterType ==
    ASSUME NEW coding, NEW start \in State, NEW bytes \in Seq(Byte)
    PROVE  /\ After(coding, start, bytes) \in State
           /\ After(coding, start, <<>>) = start
<1>1. PICK f : Runs(coding, start, bytes, f) /\ After(coding, start, bytes) = f[Len(bytes)]
  BY AfterRuns
<1>2. Len(bytes) \in 0 .. Len(bytes)
  OBVIOUS
<1>3. After(coding, start, <<>>) = start
  <2>1. <<>> \in Seq(Byte) /\ Len(<<>>) = 0
    OBVIOUS
  <2>2. PICK g : Runs(coding, start, <<>>, g) /\ After(coding, start, <<>>) = g[Len(<<>>)]
    BY <2>1, AfterRuns
  <2> QED BY <2>1, <2>2 DEF Runs, Traces
<1> QED BY <1>1, <1>2, <1>3 DEF Runs, Traces

\* A list may be cut anywhere.
LEMMA AfterBoth ==
    ASSUME NEW coding, NEW start \in State, NEW a \in Seq(Byte), NEW b \in Seq(Byte)
    PROVE  After(coding, start, a \o b) = After(coding, After(coding, start, a), b)
<1> DEFINE m == Len(a)
           n == Len(b)
<1>1. PICK f : Runs(coding, start, a, f) /\ After(coding, start, a) = f[m]
  BY AfterRuns
<1>2. f[m] \in State
  BY <1>1, AfterType
<1>3. PICK g : Runs(coding, f[m], b, g) /\ After(coding, f[m], b) = g[n]
  BY <1>2, AfterRuns
<1> DEFINE h == [k \in 0 .. m + n |-> IF k <= m THEN f[k] ELSE g[k - m]]
<1>4. /\ a \o b \in Seq(Byte) /\ Len(a \o b) = m + n /\ m \in Nat /\ n \in Nat
      /\ \A k \in 1 .. m : (a \o b)[k] = a[k]
      /\ \A k \in m + 1 .. m + n : (a \o b)[k] = b[k - m]
  OBVIOUS
<1> HIDE DEF m, n
<1>5. h[0] = start /\ h[m + n] = g[n]
  <2>1. f[0] = start /\ g[0] = f[m]
    BY <1>1, <1>3 DEF Runs, Traces
  <2>2. h[0] = f[0] /\ (n = 0 => h[m + n] = f[m]) /\ (n # 0 => h[m + n] = g[(m + n) - m])
    BY <1>4
  <2>3. (m + n) - m = n
    BY <1>4
  <2> QED BY <2>1, <2>2, <2>3
<1>6. ASSUME NEW k \in 1 .. m + n
      PROVE  h[k] = Step(coding, h[k - 1], (a \o b)[k])
  <2>1. CASE k <= m
    <3>1. k \in 1 .. m /\ h[k] = f[k] /\ h[k - 1] = f[k - 1] /\ (a \o b)[k] = a[k]
      BY <1>4, <2>1
    <3>2. f[k] = Step(coding, f[k - 1], a[k])
      BY <1>1, <3>1 DEF Runs, Traces, m
    <3> QED BY <3>1, <3>2
  <2>2. CASE k > m
    <3>1. k - m \in 1 .. n /\ h[k] = g[k - m] /\ (a \o b)[k] = b[k - m]
      <4>1. k \in m + 1 .. m + n /\ k - m \in 1 .. n
        BY <1>4, <2>2
      <4>2. (a \o b)[k] = b[k - m]
        BY <1>4, <4>1, Zenon
      <4> QED BY <1>4, <2>2, <4>1, <4>2
    <3>2. h[k - 1] = g[(k - m) - 1]
      <4>1. CASE k - 1 = m
        BY <1>3, <1>4, <4>1 DEF Runs, Traces
      <4>2. CASE k - 1 > m
        BY <1>4, <4>2
      <4> QED BY <1>4, <2>2, <4>1, <4>2
    <3>3. g[k - m] = Step(coding, g[(k - m) - 1], b[k - m])
      BY <1>3, <3>1 DEF Runs, Traces, n
    <3> QED BY <3>1, <3>2, <3>3
  <2> QED BY <1>4, <2>1, <2>2
<1> HIDE DEF h
<1>7. After(coding, start, a \o b) = h[m + n]
  <2>1. Traces(coding, start, a \o b, h)
    BY <1>4, <1>5, <1>6, Zenon DEF Traces
  <2>2. After(coding, start, a \o b) = h[Len(a \o b)]
    BY <1>4, <2>1, AfterIs
  <2> QED BY <1>4, <2>2
<1> QED BY <1>1, <1>3, <1>5, <1>7

LEMMA AfterOne ==
    ASSUME NEW coding, NEW start \in State, NEW d \in Byte
    PROVE  After(coding, start, <<d>>) = Step(coding, start, d)
<1>1. <<d>> \in Seq(Byte) /\ Len(<<d>>) = 1 /\ <<d>>[1] = d
  OBVIOUS
<1>2. PICK f : Runs(coding, start, <<d>>, f) /\ After(coding, start, <<d>>) = f[Len(<<d>>)]
  BY <1>1, AfterRuns
<1>3. f[1] = Step(coding, f[1 - 1], <<d>>[1]) /\ f[1 - 1] = start
  BY <1>1, <1>2 DEF Runs, Traces
<1> QED BY <1>1, <1>2, <1>3

\* Packets that are complete do not matter to what follows.
Shift(done, s) == Decoder(s.frame, s.escaped, done \o s.packets)

LEMMA AfterShift ==
    ASSUME NEW coding, NEW start \in State, NEW done \in Seq(Payload), NEW bytes \in Seq(Byte)
    PROVE  After(coding, Shift(done, start), bytes) = Shift(done, After(coding, start, bytes))
<1>1. ASSUME NEW s \in State
      PROVE  Shift(done, s) \in State
  <2>1. done \o s.packets \in Seq(Payload)
    BY DEF State
  <2> QED BY <2>1 DEF Shift, Decoder, State
<1>2. ASSUME NEW s \in State, NEW d \in Byte
      PROVE  Step(coding, Shift(done, s), d) = Shift(done, Step(coding, s, d))
  <2> DEFINE all == done \o s.packets
             t == Shift(done, s)
  <2>1. ASSUME NEW x \in Payload
        PROVE  done \o Append(s.packets, x) = Append(all, x)
    BY DEF State
  <2>2. t \in State /\ t.frame = s.frame /\ t.escaped = s.escaped /\ t.packets = all
    BY <1>1 DEF Shift, Decoder
  <2>3. s.frame \in Seq(Byte)
    BY DEF State
  <2> HIDE DEF all, t
  <2>4. rcp_slip_append(t, d) = Shift(done, rcp_slip_append(s, d))
    <3>1. s.frame = <<>> \/ s.frame \in Payload
      BY <2>3 DEF Payload
    <3>2. CASE d = END /\ s.frame = <<>>
      BY <2>2, <3>2 DEF rcp_slip_append, Decoder, Shift, all
    <3>3. CASE d = END /\ s.frame # <<>>
      <4>1. rcp_slip_append(t, d) = Decoder(<<>>, FALSE, Append(all, s.frame))
        BY <2>2, <3>3 DEF rcp_slip_append
      <4>2. rcp_slip_append(s, d) = Decoder(<<>>, FALSE, Append(s.packets, s.frame))
        BY <3>3 DEF rcp_slip_append
      <4>3. Append(all, s.frame) = done \o Append(s.packets, s.frame)
        BY <2>1, <3>1, <3>3
      <4> QED BY <4>1, <4>2, <4>3 DEF Decoder, Shift
    <3>4. CASE d # END
      BY <2>2, <3>4 DEF rcp_slip_append, Decoder, Shift, all
    <3> QED BY <3>2, <3>3, <3>4
  <2>5. rcp_sppp_data(t, d) = Shift(done, rcp_sppp_data(s, d))
    <3> DEFINE bytes1 == Append(s.frame, d)
               payload == SubSeq(bytes1, 5, Len(bytes1))
    <3>1. CASE Len(bytes1) > 4 /\ Len(bytes1) = 4 + Size(bytes1)
      <4>1. payload \in Payload
        <5>1. bytes1 \in Seq(Byte)
          BY <2>3
        <5> QED BY <3>1, <5>1, PayloadType
      <4>2. done \o Append(s.packets, payload) = Append(all, payload)
        BY <2>1, <4>1
      <4>3. /\ rcp_sppp_data(t, d) = Decoder(<<>>, s.escaped, Append(all, payload))
            /\ rcp_sppp_data(s, d) = Decoder(<<>>, s.escaped, Append(s.packets, payload))
        BY <2>2, <3>1 DEF rcp_sppp_data
      <4> DEFINE p == Append(s.packets, payload)
      <4>4. Shift(done, Decoder(<<>>, s.escaped, p)) = Decoder(<<>>, s.escaped, done \o p)
        BY Zenon DEF Shift, Decoder
      <4> HIDE DEF payload
      <4> QED BY <4>2, <4>3, <4>4, Zenon
    <3>2. CASE ~(Len(bytes1) > 4 /\ Len(bytes1) = 4 + Size(bytes1))
      <4>1. /\ rcp_sppp_data(t, d) = Decoder(bytes1, s.escaped, all)
            /\ rcp_sppp_data(s, d) = Decoder(bytes1, s.escaped, s.packets)
        BY <2>2, <3>2 DEF rcp_sppp_data
      <4> HIDE DEF bytes1
      <4> QED BY <4>1 DEF Shift, Decoder, all
    <3> QED BY <3>1, <3>2
  <2> QED BY <2>4, <2>5 DEF Step, t
<1>3. PICK f : Runs(coding, start, bytes, f) /\ After(coding, start, bytes) = f[Len(bytes)]
  BY AfterRuns
<1> DEFINE n == Len(bytes)
           g == [k \in 0 .. n |-> Shift(done, f[k])]
<1>4. n \in Nat
  OBVIOUS
<1>5. Traces(coding, Shift(done, start), bytes, g)
  <2>1. g[0] = Shift(done, start)
    BY <1>3, <1>4 DEF Runs, Traces
  <2>2. ASSUME NEW k \in 1 .. n
        PROVE  g[k] = Step(coding, g[k - 1], bytes[k])
    <3>1. k \in 0 .. n /\ k - 1 \in 0 .. n
      OBVIOUS
    <3>2. f[k] = Step(coding, f[k - 1], bytes[k]) /\ f[k - 1] \in State /\ bytes[k] \in Byte
      BY <1>3, <3>1 DEF Runs, Traces
    <3> QED BY <1>2, <3>1, <3>2
  <2> QED BY <2>1, <2>2 DEF Traces
<1> HIDE DEF g
<1>6. After(coding, Shift(done, start), bytes) = g[n]
  BY <1>1, <1>5, AfterIs
<1> QED BY <1>3, <1>4, <1>6 DEF g
-----------------------------------------------------------------------------
(* The codings.                                                            *)

\* AfterBoth and AfterOne of slipdecoder.
LEMMA SlipBoth ==
    \A s \in State, a, b \in Seq(Byte) : After("slip", s, a \o b) = After("slip", After("slip", s, a), b)
<1> QED BY AfterBoth

LEMMA SlipOne == \A s \in State, d \in Byte : After("slip", s, <<d>>) = Step("slip", s, d)
<1> QED BY AfterOne

LEMMA EscapeDecodes ==
    ASSUME NEW d \in Byte, NEW f \in Seq(Byte), NEW p \in Seq(Payload)
    PROVE  /\ Escape(d) \in Seq(Byte)
           /\ After("slip", Decoder(f, FALSE, p), Escape(d)) = Decoder(Append(f, d), FALSE, p)
<1> USE SlipAssumption
<1> DEFINE s == Decoder(f, FALSE, p)
           t == Decoder(f, TRUE, p)
<1>1. s \in State /\ t \in State
  BY DEF Decoder, State
<1>2. /\ s.frame = f /\ ~s.escaped /\ s.packets = p
      /\ t.frame = f /\ t.escaped /\ t.packets = p
  BY DEF Decoder
<1>3. Step("slip", s, ESC) = t
  BY <1>2 DEF Step, rcp_slip_append
<1> HIDE DEF s, t
<1>4. ASSUME NEW e \in Byte, e \notin {END, ESC}
      PROVE  After("slip", s, <<ESC, e>>) = Step("slip", t, e)
  <2>1. <<ESC>> \in Seq(Byte) /\ <<e>> \in Seq(Byte) /\ <<ESC, e>> = <<ESC>> \o <<e>>
    OBVIOUS
  <2>2. After("slip", s, <<ESC>>) = t
    BY <1>1, <1>3, SlipOne
  <2>3. After("slip", t, <<e>>) = Step("slip", t, e)
    BY <1>1, SlipOne
  <2>4. After("slip", s, <<ESC>> \o <<e>>) = After("slip", After("slip", s, <<ESC>>), <<e>>)
    BY <1>1, <2>1, SlipBoth, Zenon
  <2> QED BY <2>1, <2>2, <2>3, <2>4, Zenon
<1>5. CASE d = END
  <2>1. Step("slip", t, ESC_END) = Decoder(Append(f, END), FALSE, p)
    BY <1>2 DEF Step, rcp_slip_append
  <2>2. Escape(d) = <<ESC, ESC_END>>
    BY <1>5 DEF Escape
  <2>3. ESC_END \in Byte /\ ESC_END \notin {END, ESC} /\ <<ESC, ESC_END>> \in Seq(Byte)
    <3>1. {ESC, ESC_END} \subseteq Byte /\ ESC_END \notin {END, ESC}
      BY Zenon
    <3> HIDE DEF Byte
    <3> QED BY <3>1
  <2>4. After("slip", s, <<ESC, ESC_END>>) = Step("slip", t, ESC_END)
    BY <1>4, <2>3
  <2> QED BY <1>5, <2>1, <2>2, <2>3, <2>4, Zenon DEF s
<1>6. CASE d = ESC
  <2>1. Step("slip", t, ESC_ESC) = Decoder(Append(f, ESC), FALSE, p)
    BY <1>2 DEF Step, rcp_slip_append
  <2>2. Escape(d) = <<ESC, ESC_ESC>>
    BY <1>6 DEF Escape
  <2>3. ESC_ESC \in Byte /\ ESC_ESC \notin {END, ESC} /\ <<ESC, ESC_ESC>> \in Seq(Byte)
    <3>1. {ESC, ESC_ESC} \subseteq Byte /\ ESC_ESC \notin {END, ESC}
      BY Zenon
    <3> HIDE DEF Byte
    <3> QED BY <3>1
  <2>4. After("slip", s, <<ESC, ESC_ESC>>) = Step("slip", t, ESC_ESC)
    BY <1>4, <2>3
  <2> QED BY <1>6, <2>1, <2>2, <2>3, <2>4, Zenon DEF s
<1>7. CASE d \notin {END, ESC}
  <2>1. Step("slip", s, d) = Decoder(Append(f, d), FALSE, p)
    BY <1>2, <1>7 DEF Step, rcp_slip_append
  <2>2. Escape(d) = <<d>>
    BY <1>7 DEF Escape
  <2>3. After("slip", s, <<d>>) = Step("slip", s, d) /\ <<d>> \in Seq(Byte)
    BY <1>1, SlipOne
  <2> QED BY <2>1, <2>2, <2>3, Zenon DEF s
<1> QED BY <1>5, <1>6, <1>7

\* What slipencoder makes of some bytes is decoded to them.
LEMMA SlipDecodes ==
    ASSUME NEW data \in Seq(Byte), NEW p \in Seq(Payload)
    PROVE  LET coded == FlattenSeq([i \in DOMAIN data |-> Escape(data[i])]) IN
           /\ coded \in Seq(Byte)
           /\ After("slip", Decoder(<<>>, FALSE, p), coded) = Decoder(data, FALSE, p)
<1> DEFINE n == Len(data)
           parts(k) == [i \in 1 .. k |-> Escape(data[i])]
           start == Decoder(<<>>, FALSE, p)
           R == {k \in 0 .. n : /\ FlattenSeq(parts(k)) \in Seq(Byte)
                                /\ After("slip", start, FlattenSeq(parts(k))) = Decoder(SubSeq(data, 1, k), FALSE, p)}
<1>0. n \in Nat /\ DOMAIN data = 1 .. n
  OBVIOUS
<1>1. start \in State
  BY DEF Decoder, State
<1>2. \A k \in 0 .. n : parts(k) \in Seq(Seq(Byte))
  <2> SUFFICES ASSUME NEW k \in 0 .. n PROVE parts(k) \in Seq(Seq(Byte))
    OBVIOUS
  <2>1. ASSUME NEW i \in 1 .. k
        PROVE  Escape(data[i]) \in Seq(Byte)
    <3>1. data[i] \in Byte /\ <<>> \in Seq(Byte) /\ <<>> \in Seq(Payload)
      OBVIOUS
    <3> QED BY <3>1, EscapeDecodes, Zenon
  <2> QED BY <2>1
<1>3. 0 \in R
  <2>1. parts(0) = <<>> /\ SubSeq(data, 1, 0) = <<>> /\ <<>> \in Seq(Byte)
    OBVIOUS
  <2>2. FlattenSeq(<<>>) = <<>>
    <3>1. <<>> \in Seq(Seq(Byte)) /\ <<>> \in Seq(Byte)
      OBVIOUS
    <3> QED BY <3>1, FlattenAppend, Zenon
  <2>3. After("slip", start, <<>>) = start
    BY <1>1, <2>1, AfterType
  <2> HIDE DEF parts, start
  <2>4. 0 \in 0 .. n
    BY <1>0
  <2> QED BY <2>1, <2>2, <2>3, <2>4, Zenon DEF start
<1>4. ASSUME NEW k \in 0 .. n - 1, k \in R
      PROVE  k + 1 \in R
  <2> DEFINE d == data[k + 1]
             coded == FlattenSeq(parts(k))
             f == SubSeq(data, 1, k)
  <2>1. k + 1 \in 0 .. n /\ k \in 0 .. n /\ d \in Byte /\ f \in Seq(Byte) /\ SubSeq(data, 1, k + 1) = Append(f, d)
    OBVIOUS
  <2>2. Escape(d) \in Seq(Byte)
    BY <2>1, EscapeDecodes
  <2>3. parts(k + 1) = Append(parts(k), Escape(d))
    OBVIOUS
  <2>4. parts(k) \in Seq(Seq(Byte))
    BY <1>2, <2>1
  <2>5. coded \in Seq(Byte) /\ After("slip", start, coded) = Decoder(f, FALSE, p)
    BY <1>4
  <2> HIDE DEF parts, start, d, f
  <2>6. FlattenSeq(parts(k + 1)) = coded \o Escape(d)
    BY <2>2, <2>3, <2>4, FlattenAppend
  <2> HIDE DEF coded
  <2>7. After("slip", start, coded \o Escape(d)) = After("slip", Decoder(f, FALSE, p), Escape(d))
    <3>1. After("slip", start, coded \o Escape(d)) = After("slip", After("slip", start, coded), Escape(d))
      BY <1>1, <2>2, <2>5, SlipBoth, Zenon
    <3> QED BY <2>5, <3>1
  <2>8. After("slip", Decoder(f, FALSE, p), Escape(d)) = Decoder(Append(f, d), FALSE, p)
    BY <2>1, EscapeDecodes
  <2>9. coded \o Escape(d) \in Seq(Byte)
    BY <2>2, <2>5
  <2> QED BY <2>1, <2>6, <2>7, <2>8, <2>9
<1> HIDE DEF R, parts, start
<1>5. 0 .. n \subseteq R
  BY <1>0, <1>3, <1>4, UpTo
<1>6. n \in R
  BY <1>0, <1>5
<1>7. SubSeq(data, 1, n) = data
  OBVIOUS
<1> QED BY <1>0, <1>6, <1>7 DEF R, parts, start

LEMMA SlipArrives ==
    ASSUME NEW list, NEW p \in Seq(Payload), Bytes(list) \in Seq(Byte)
    PROVE  /\ slipencoder(list) \in Seq(Byte)
           /\ After("slip", Decoder(<<>>, FALSE, p), slipencoder(list)) =
                Decoder(<<>>, FALSE, IF Bytes(list) = <<>> THEN p ELSE Append(p, Bytes(list)))
<1> DEFINE data == Bytes(list)
           coded == FlattenSeq([i \in DOMAIN data |-> Escape(data[i])])
           start == Decoder(<<>>, FALSE, p)
<1>1. coded \in Seq(Byte) /\ After("slip", start, coded) = Decoder(data, FALSE, p)
  BY SlipDecodes
<1>2. slipencoder(list) = coded \o <<END>>
  BY DEF slipencoder
<1> HIDE DEF coded
<1>3. start \in State /\ Decoder(data, FALSE, p) \in State /\ <<END>> \in Seq(Byte) /\ END \in Byte
  BY SlipAssumption DEF Decoder, State
<1>4. Step("slip", Decoder(data, FALSE, p), END) =
        Decoder(<<>>, FALSE, IF data = <<>> THEN p ELSE Append(p, data))
  BY DEF Step, rcp_slip_append, Decoder
<1> HIDE DEF start
<1>5. After("slip", start, coded \o <<END>>) = After("slip", Decoder(data, FALSE, p), <<END>>)
  <2>1. After("slip", start, coded \o <<END>>) = After("slip", After("slip", start, coded), <<END>>)
    BY <1>1, <1>3, SlipBoth, Zenon
  <2> QED BY <1>1, <2>1
<1>6. After("slip", Decoder(data, FALSE, p), <<END>>) = Step("slip", Decoder(data, FALSE, p), END)
  BY <1>3, SlipOne
<1>7. coded \o <<END>> \in Seq(Byte)
  BY <1>1, <1>3
<1> QED BY <1>2, <1>4, <1>5, <1>6, <1>7 DEF start
LEMMA Division ==
    ASSUME NEW n \in Nat, NEW b \in Nat, b > 0
    PROVE  /\ n \div b \in Nat /\ n % b \in 0 .. b - 1
           /\ n = b * (n \div b) + (n % b)
<1>1. n % b \in 0 .. b - 1
  OBVIOUS
<1>2. n \div b \in Int
  OBVIOUS
<1>3. n = b * (n \div b) + (n % b)
  OBVIOUS
<1>4. n \div b >= 0
  OBVIOUS
<1> QED BY <1>1, <1>2, <1>3, <1>4

LEMMA Times ==
    ASSUME NEW b \in Nat, NEW x \in Int, NEW y \in Int, x <= y
    PROVE  b * x \in Int /\ b * y \in Int /\ b * x <= b * y
  OBVIOUS

LEMMA Quotient ==
    ASSUME NEW n \in Nat, NEW b \in Nat, b > 0, NEW q \in Nat, NEW r \in 0 .. b - 1, n = b * q + r
    PROVE  n \div b = q
<1> DEFINE p == n \div b
<1>1. p \in Nat /\ n % b \in 0 .. b - 1 /\ n = b * p + (n % b)
  BY Division
<1> HIDE DEF p
<1>2. b * (p + 1) = b * p + b /\ b * (q + 1) = b * q + b
  BY <1>1
<1>3. b * p \in Int /\ b * q \in Int
  BY <1>1
<1>4. CASE p >= q + 1
  <2>1. b * (q + 1) <= b * p
    BY <1>1, <1>4, Times
  <2> QED BY <1>1, <1>2, <1>3, <2>1
<1>5. CASE q >= p + 1
  <2>1. b * (p + 1) <= b * q
    BY <1>1, <1>5, Times
  <2> QED BY <1>1, <1>2, <1>3, <2>1
<1> QED BY <1>1, <1>4, <1>5 DEF p

\* The four bytes say how long the packet is.
LEMMA SizeIsRead ==
    ASSUME NEW n \in Nat, n < Base * Base * Base * Base
    PROVE  SizeBytes(n) \in Seq(Byte) /\ Len(SizeBytes(n)) = 4 /\ Size(SizeBytes(n)) = n
<1> DEFINE q1 == n \div Base
           q2 == q1 \div Base
           q3 == q2 \div Base
           r1 == n % Base
           r2 == q1 % Base
           r3 == q2 % Base
<1>0. Base \in Nat /\ Base > 0
  BY BaseAssumption
<1>1. q1 \in Nat /\ r1 \in 0 .. Base - 1 /\ n = Base * q1 + r1
  BY <1>0, Division
<1>2. q2 \in Nat /\ r2 \in 0 .. Base - 1 /\ q1 = Base * q2 + r2
  BY <1>0, <1>1, Division
<1>3. q3 \in Nat /\ r3 \in 0 .. Base - 1 /\ q2 = Base * q3 + r3
  BY <1>0, <1>2, Division
<1> DEFINE B2 == Base * Base
           B3 == Base * Base * Base
           low2 == Base * r2 + r1
<1>4. n \div B2 = q2 /\ low2 \in 0 .. B2 - 1 /\ n = B2 * q2 + low2
  <2>1. Base * r2 \in Nat /\ Base * r2 <= Base * (Base - 1) /\ Base * (Base - 1) = B2 - Base
    BY <1>0, <1>2, Times
  <2>2. B2 \in Nat /\ B2 > 0
    BY <1>0
  <2> HIDE DEF q1, q2, q3, r1, r2, r3
  <2>3. low2 \in 0 .. B2 - 1
    <3> HIDE DEF B2
    <3> QED BY <1>0, <1>1, <2>1, <2>2
  <2>4. n = B2 * q2 + low2
    <3>1. Base * q1 = Base * (Base * q2) + Base * r2 /\ Base * (Base * q2) = B2 * q2
      BY <1>0, <1>2
    <3> QED BY <1>0, <1>1, <1>2, <3>1
  <2> HIDE DEF B2, low2
  <2> QED BY <2>2, <2>3, <2>4, <1>2, Quotient
<1>5. n \div B3 = q3
  <2>1. B2 \in Nat /\ B2 > 0 /\ B3 = B2 * Base /\ B3 \in Nat /\ B3 > 0
    BY <1>0
  <2>2. low2 \in 0 .. B2 - 1
    BY <1>4
  <2>3. n = B2 * q2 + low2
    BY <1>4
  <2> HIDE DEF low2, B2, B3, q1, q2, q3, r1, r2, r3
  <2>4. B2 * r3 \in Nat /\ B2 * r3 <= B2 * (Base - 1) /\ B2 * (Base - 1) = B2 * Base - B2
    BY <1>0, <1>3, <2>1, Times
  <2>5. B2 * r3 + low2 \in 0 .. B3 - 1
    BY <1>0, <2>1, <2>2, <2>4
  <2>6. n = B3 * q3 + (B2 * r3 + low2)
    <3>1. B2 * q2 = B2 * (Base * q3) + B2 * r3 /\ B2 * (Base * q3) = B3 * q3
      BY <1>0, <1>3, <2>1
    <3> QED BY <1>0, <1>3, <2>1, <2>2, <2>3, <2>4, <3>1
  <2> DEFINE low3 == B2 * r3 + low2
  <2> HIDE DEF low3
  <2>7. low3 \in 0 .. B3 - 1 /\ n = B3 * q3 + low3
    BY <2>5, <2>6 DEF low3
  <2> QED BY <1>3, <2>1, <2>7, Quotient
<1>6. q3 \in 0 .. Base - 1
  <2>1. B3 \in Nat /\ B3 > 0 /\ B3 * Base = Base * Base * Base * Base
    BY <1>0
  <2>2. n = B3 * q3 + (n % B3) /\ n % B3 >= 0
    BY <1>5, <2>1, Division
  <2> HIDE DEF B3, q3
  <2>3. CASE q3 >= Base
    <3>1. B3 * Base <= B3 * q3 /\ B3 * q3 \in Int
      BY <1>0, <1>3, <2>1, <2>3, Times
    <3>2. n % B3 \in Int
      BY <2>1
    <3> DEFINE x == n % B3
               y == B3 * q3
               z == Base * Base * Base * Base
    <3>3. z <= y /\ n = y + x /\ x >= 0 /\ x \in Int /\ y \in Int /\ z \in Int /\ n < z
      <4>1. z \in Int /\ n < z
        BY <1>0
      <4> HIDE DEF x
      <4> QED BY <2>1, <2>2, <3>1, <3>2, <4>1 DEF x
    <3> HIDE DEF x, y, z
    <3> QED BY <3>3
  <2> QED BY <1>0, <1>3, <2>3
<1>7. q3 % Base = q3
  <2> HIDE DEF q3
  <2>1. q3 = Base * 0 + q3 /\ Base * 0 = 0
    BY <1>0, <1>6
  <2>2. q3 \div Base = 0
    BY <1>0, <1>3, <1>6, <2>1, Quotient
  <2>3. q3 = Base * 0 + (q3 % Base) /\ q3 % Base \in Int
    BY <1>0, <1>3, <2>2, Division
  <2> QED BY <2>1, <2>3
<1>8. SizeBytes(n) = <<q3, r3, r2, r1>>
  BY <1>4, <1>5, <1>7, Zenon DEF SizeBytes
<1> HIDE DEF q1, q2, q3, r1, r2, r3
<1>9. SizeBytes(n) \in Seq(Byte) /\ Len(SizeBytes(n)) = 4
  <2>1. q3 \in Byte /\ r3 \in Byte /\ r2 \in Byte /\ r1 \in Byte
    BY <1>1, <1>2, <1>3, <1>6 DEF Byte
  <2> HIDE DEF Byte
  <2> QED BY <1>8, <2>1
<1>10. Size(SizeBytes(n)) = q3 * B3 + r3 * B2 + r2 * Base + r1
  BY <1>8 DEF Size
<1>11. q3 * B3 + r3 * B2 + r2 * Base + r1 = n
  <2>1. n = B2 * q2 + (Base * r2 + r1) /\ q2 = Base * q3 + r3
    BY <1>3, <1>4
  <2>2. B2 * q2 = B2 * (Base * q3) + B2 * r3 /\ B2 * (Base * q3) = q3 * B3 /\ B2 * r3 = r3 * B2
    BY <1>0, <1>3, <2>1
  <2>3. q3 * B3 \in Int /\ r3 * B2 \in Int /\ Base * r2 = r2 * Base /\ r2 * Base \in Int
    BY <1>0, <1>2, <1>3
  <2> HIDE DEF B2, B3
  <2> QED BY <1>1, <2>1, <2>2, <2>3
<1> QED BY <1>9, <1>10, <1>11

\* What sizeprefix puts before a packet lets sppp find its end.
LEMMA SizeArrives ==
    ASSUME NEW data \in Payload, Len(data) < Base * Base * Base * Base, NEW p \in Seq(Payload)
    PROVE  LET coded == SizeBytes(Len(data)) \o data IN
           /\ coded \in Seq(Byte)
           /\ After("size", Decoder(<<>>, FALSE, p), coded) = Decoder(<<>>, FALSE, Append(p, data))
<1> DEFINE n == Len(data)
           head == SizeBytes(n)
           e == head \o data
           N == n + 4
           start == Decoder(<<>>, FALSE, p)
           end == Decoder(<<>>, FALSE, Append(p, data))
           part(k) == SubSeq(e, 1, k)
           g == [k \in 0 .. N |-> IF k < N THEN Decoder(part(k), FALSE, p) ELSE end]
<1>1. data \in Seq(Byte) /\ n \in Nat /\ n > 0
  BY DEF Payload
<1>2. head \in Seq(Byte) /\ Len(head) = 4 /\ Size(head) = n
  <2> HIDE DEF n
  <2> QED BY <1>1, SizeIsRead DEF n
<1> HIDE DEF head
<1>3. /\ e \in Seq(Byte) /\ Len(e) = N
      /\ \A i \in 1 .. 4 : e[i] = head[i]
      /\ SubSeq(e, 5, N) = data
  <2>0. ASSUME NEW a \in Seq(Byte), NEW b \in Seq(Byte)
        PROVE  /\ a \o b \in Seq(Byte) /\ Len(a \o b) = Len(a) + Len(b)
               /\ \A i \in 1 .. Len(a) : (a \o b)[i] = a[i]
               /\ \A i \in 1 .. Len(b) : (a \o b)[i + Len(a)] = b[i]
    OBVIOUS
  <2>4. /\ e \in Seq(Byte) /\ Len(e) = Len(head) + Len(data)
        /\ \A i \in 1 .. Len(head) : e[i] = head[i]
        /\ \A i \in 1 .. Len(data) : e[i + Len(head)] = data[i]
    BY <1>1, <1>2, <2>0, Zenon
  <2>1. e \in Seq(Byte) /\ Len(e) = N /\ \A i \in 1 .. 4 : e[i] = head[i]
    <3> HIDE DEF e
    <3> QED BY <1>1, <1>2, <2>4
  <2>2. \A i \in 1 .. n : e[i + 4] = data[i]
    <3> HIDE DEF e
    <3> QED BY <1>1, <1>2, <2>4
  <2>3. SubSeq(e, 5, N) = data
    <3> HIDE DEF e
    <3>1. Len(SubSeq(e, 5, N)) = n /\ \A i \in 1 .. n : SubSeq(e, 5, N)[i] = e[i + 4]
      BY <1>1, <2>1
    <3>2. SubSeq(e, 5, N) \in Seq(Byte)
      BY <1>1, <2>1
    <3> DEFINE d == SubSeq(e, 5, N)
    <3>3. \A i \in 1 .. n : d[i] = data[i]
      BY <2>2, <3>1
    <3> HIDE DEF d
    <3> QED BY <1>1, <3>1, <3>2, <3>3 DEF d
  <2> QED BY <2>1, <2>3
<1> HIDE DEF e
<1>4. start \in State
  BY DEF Decoder, State
<1>5. ASSUME NEW k \in 1 .. N
      PROVE  /\ Append(part(k - 1), e[k]) = part(k)
             /\ Len(part(k)) = k
             /\ k > 4 => Size(part(k)) = n
  <2>1. Append(part(k - 1), e[k]) = part(k) /\ Len(part(k)) = k
    BY <1>1, <1>3
  <2>2. k > 4 => \A i \in 1 .. 4 : part(k)[i] = head[i]
    BY <1>1, <1>3
  <2>3. 1 \in 1 .. 4 /\ 2 \in 1 .. 4 /\ 3 \in 1 .. 4 /\ 4 \in 1 .. 4
    OBVIOUS
  <2> HIDE DEF part
  <2>4. k > 4 => Size(part(k)) = Size(head)
    BY <2>2, <2>3, Zenon DEF Size
  <2> QED BY <1>2, <2>1, <2>4
<1>6. g[N] = end
  BY <1>1
<1>7. Traces("size", start, e, g)
  <2>1. g[0] = start
    <3>1. part(0) = <<>>
      BY <1>1, <1>3
    <3> QED BY <1>1, <3>1
  <2>2. ASSUME NEW k \in 1 .. N
        PROVE  g[k] = Step("size", g[k - 1], e[k])
    <3>1. g[k - 1] = Decoder(part(k - 1), FALSE, p)
      BY <1>1, SMTT(30)
    <3> DEFINE s == Decoder(part(k - 1), FALSE, p)
    <3>2. s.frame = part(k - 1) /\ s.escaped = FALSE /\ s.packets = p
      BY Zenon DEF Decoder
    <3> HIDE DEF part, s, g
    <3>3. Step("size", s, e[k]) =
            IF Len(part(k)) > 4 /\ Len(part(k)) = 4 + Size(part(k))
            THEN Decoder(<<>>, FALSE, Append(p, SubSeq(part(k), 5, Len(part(k)))))
            ELSE Decoder(part(k), FALSE, p)
      BY <1>5, <3>2 DEF Step, rcp_sppp_data
    <3>4. CASE k < N
      <4>1. ~(Len(part(k)) > 4 /\ Len(part(k)) = 4 + Size(part(k)))
        BY <1>1, <1>5, <3>4
      <4>2. g[k] = Decoder(part(k), FALSE, p)
        BY <1>1, <3>4 DEF g
      <4> QED BY <3>1, <3>3, <4>1, <4>2 DEF s
    <3>5. CASE k = N
      <4>1. Len(part(k)) > 4 /\ Len(part(k)) = 4 + Size(part(k)) /\ Len(part(k)) = N
        BY <1>1, <1>5, <3>5
      <4>2. g[k] = end
        BY <1>6, <3>5
      <4>3. part(k) = e
        BY <1>3, <3>5 DEF part
      <4> QED BY <1>3, <3>1, <3>3, <4>1, <4>2, <4>3 DEF s
    <3> QED BY <1>1, <3>4, <3>5
  <2> HIDE DEF g, N
  <2> QED BY <1>3, <2>1, <2>2 DEF Traces
<1>8. After("size", start, e) = g[Len(e)]
  <2> HIDE DEF g, start
  <2>1. \A f : Traces("size", start, e, f) => After("size", start, e) = f[Len(e)]
    BY <1>3, <1>4, AfterIs
  <2> QED BY <1>7, <2>1
<1> QED BY <1>3, <1>6, <1>8 DEF e, head

-----------------------------------------------------------------------------
(* Lists of numbers that are bytes.                                        *)

LEMMA NumbersAreBytes ==
    ASSUME ~CharIsSigned, NEW data \in Seq(Byte)
    PROVE  Numbers(data) = data
<1>1. \A i \in DOMAIN data : Number(data[i]) = data[i]
  BY DEF Number
<1> QED BY <1>1 DEF Numbers

LEMMA AllBytes == \A data \in Seq(Byte) : Bytes(data) = data
<1> QED BY OnlyAll DEF Bytes

LEMMA RawDataList ==
    ASSUME NEW data \in Payload
    PROVE  raw_data_list(data) = <<data>>
<1>1. data \in Seq(Byte) /\ data # <<>>
  BY DEF Payload
<1>2. Only(data, Int) = data
  <2>1. Byte \subseteq Int
    BY BaseAssumption DEF Byte
  <2> QED BY <1>1, <2>1, OnlyAll
<1>3. \A i \in DOMAIN data : IsByte(data[i])
  BY <1>1 DEF IsByte
<1> QED BY <1>1, <1>2, <1>3, Zenon DEF raw_data_list

LEMMA RawInputAll ==
    ASSUME NEW lists \in Seq(Payload)
    PROVE  RawInput(lists) = lists
<1> DEFINE n == Len(lists)
           parts(k) == [i \in 1 .. k |-> raw_data_list(lists[i])]
           R == {k \in 0 .. n : FlattenSeq(parts(k)) = SubSeq(lists, 1, k)}
<1>0. n \in Nat /\ DOMAIN lists = 1 .. n
  OBVIOUS
<1>1. \A i \in 1 .. n : lists[i] \in Payload /\ raw_data_list(lists[i]) = <<lists[i]>>
  <2>1. \A i \in 1 .. n : lists[i] \in Payload
    OBVIOUS
  <2> QED BY <2>1, RawDataList
<1>2. 0 \in R
  <2>1. <<>> \in Seq(Seq(Payload)) /\ <<>> \in Seq(Payload) /\ parts(0) = <<>> /\ SubSeq(lists, 1, 0) = <<>> /\ 0 \in 0 .. n
    OBVIOUS
  <2>2. FlattenSeq(<<>>) = <<>>
    BY <2>1, FlattenAppend, Zenon
  <2> HIDE DEF parts
  <2> QED BY <2>1, <2>2, Zenon
<1>3. ASSUME NEW k \in 0 .. n - 1, k \in R
      PROVE  k + 1 \in R
  <2> DEFINE x == lists[k + 1]
  <2>1. k + 1 \in 0 .. n /\ k + 1 \in 1 .. n
    OBVIOUS
  <2>2. x \in Payload /\ raw_data_list(x) = <<x>> /\ <<x>> \in Seq(Payload)
    BY <1>1, <2>1
  <2>3. SubSeq(lists, 1, k + 1) = Append(SubSeq(lists, 1, k), x) /\ SubSeq(lists, 1, k) \in Seq(Payload)
    BY <2>1
  <2>4. parts(k + 1) = Append(parts(k), raw_data_list(x))
    OBVIOUS
  <2>5. parts(k) \in Seq(Seq(Payload))
    <3>1. ASSUME NEW i \in 1 .. k
          PROVE  raw_data_list(lists[i]) \in Seq(Payload)
      <4>1. lists[i] \in Payload /\ raw_data_list(lists[i]) = <<lists[i]>>
        BY <1>1
      <4> QED BY <4>1
    <3> QED BY <3>1
  <2>6. FlattenSeq(parts(k)) = SubSeq(lists, 1, k)
    BY <1>3
  <2> HIDE DEF parts, x
  <2>7. FlattenSeq(parts(k + 1)) = FlattenSeq(parts(k)) \o <<x>>
    BY <2>2, <2>4, <2>5, FlattenAppend
  <2>8. SubSeq(lists, 1, k) \o <<x>> = Append(SubSeq(lists, 1, k), x)
    BY <2>2, <2>3
  <2> QED BY <2>1, <2>3, <2>6, <2>7, <2>8, Zenon
<1> HIDE DEF R, parts
<1>4. 0 .. n \subseteq R
  BY <1>0, <1>2, <1>3, UpTo
<1>5. n \in R
  BY <1>0, <1>4
<1>6. SubSeq(lists, 1, n) = lists
  OBVIOUS
<1> QED BY <1>0, <1>5, <1>6 DEF R, parts, RawInput

-----------------------------------------------------------------------------
(* What is sent by each of the objects arrives at the other one.           *)

LEMMA PacketsAreBytes == \A p \in Packets : p \in Payload /\ p \in Seq(Byte) /\ Len(p) < Base * Base * Base * Base
<1> QED BY PacketAssumption, Zenon DEF Payload

LEMMA SlipSent ==
    ASSUME ~CharIsSigned, NEW p \in Packets, NEW q \in Seq(Payload)
    PROVE  /\ slipencoder(Numbers(p)) \in Seq(Byte)
           /\ After("slip", Decoder(<<>>, FALSE, q), slipencoder(Numbers(p))) = Decoder(<<>>, FALSE, Append(q, p))
<1>1. p \in Seq(Byte) /\ p # <<>>
  BY PacketAssumption, Zenon
<1>2. Numbers(p) = p /\ Bytes(p) = p
  BY <1>1, NumbersAreBytes, AllBytes
<1>3. /\ slipencoder(p) \in Seq(Byte)
      /\ After("slip", Decoder(<<>>, FALSE, q), slipencoder(p)) =
           Decoder(<<>>, FALSE, IF Bytes(p) = <<>> THEN q ELSE Append(q, Bytes(p)))
  BY <1>1, <1>2, SlipArrives
<1> QED BY <1>1, <1>2, <1>3, Zenon

LEMMA SizeSent ==
    ASSUME ~CharIsSigned, NEW p \in Packets, NEW q \in Seq(Payload)
    PROVE  /\ sizeprefix(Numbers(p)) \in Seq(Byte)
           /\ After("size", Decoder(<<>>, FALSE, q), sizeprefix(Numbers(p))) = Decoder(<<>>, FALSE, Append(q, p))
<1> DEFINE head == SizeBytes(Len(p))
<1>1. p \in Payload /\ p \in Seq(Byte) /\ Len(p) < Base * Base * Base * Base
  BY PacketsAreBytes
<1>2. Numbers(p) = p
  BY <1>1, NumbersAreBytes
<1>3. head \in Seq(Byte)
  <2> DEFINE n == Len(p)
  <2>1. n \in Nat /\ n < Base * Base * Base * Base
    BY <1>1
  <2> HIDE DEF n
  <2> QED BY <2>1, SizeIsRead DEF n
<1>4. Numbers(head) = head
  BY <1>3, NumbersAreBytes
<1>5. sizeprefix(Numbers(p)) = head \o p
  BY <1>2, <1>4, Zenon DEF sizeprefix
<1>6. /\ head \o p \in Seq(Byte)
      /\ After("size", Decoder(<<>>, FALSE, q), head \o p) = Decoder(<<>>, FALSE, Append(q, p))
  BY <1>1, SizeArrives, Zenon
<1> QED BY <1>5, <1>6, Zenon

LEMMA WebsocketSent ==
    ASSUME ~CharIsSigned, NEW p \in Packets
    PROVE  LET messages == WebsocketSends(Numbers(p)) IN
           RawInput([i \in DOMAIN messages |-> Numbers(messages[i])]) = <<p>>
<1>1. p \in Seq(Byte) /\ p \in Payload
  BY PacketsAreBytes
<1>2. Numbers(p) = p
  BY <1>1, NumbersAreBytes
<1>3. \A i \in DOMAIN p : IsByte(p[i])
  BY <1>1 DEF IsByte
<1>4. WebsocketSends(p) = <<p>>
  BY <1>3, Zenon DEF WebsocketSends
<1>5. [i \in DOMAIN <<p>> |-> Numbers(<<p>>[i])] = <<p>>
  <2>1. DOMAIN <<p>> = {1} /\ <<p>>[1] = p
    OBVIOUS
  <2>2. \A i \in DOMAIN <<p>> : Numbers(<<p>>[i]) = <<p>>[i]
    BY <1>2, <2>1
  <2>3. [i \in DOMAIN <<p>> |-> <<p>>[i]] = <<p>>
    OBVIOUS
  <2> QED BY <2>2, <2>3, Zenon
<1>6. <<p>> \in Seq(Payload)
  BY <1>1
<1>7. RawInput(<<p>>) = <<p>>
  BY <1>6, RawInputAll
<1> QED BY <1>2, <1>4, <1>5, <1>7, Zenon

\* A list of a user is what slipencoder takes from it.
LEMMA ListSent ==
    ASSUME NEW list \in Lists, NEW q \in Seq(Payload)
    PROVE  LET taken == Only(list, Byte)
               all == IF taken = <<>> THEN q ELSE Append(q, taken) IN
           /\ taken # <<>> => taken \in Payload
           /\ slipencoder(list) \in Seq(Byte)
           /\ After("slip", Decoder(<<>>, FALSE, q), slipencoder(list)) = Decoder(<<>>, FALSE, all)
<1>1. list \in Seq(Int \cup {Symbol})
  BY AtomAssumption
<1>2. Only(list, Byte) \in Seq(Byte)
  BY <1>1, OnlyAll
<1>3. Bytes(list) = Only(list, Byte)
  BY DEF Bytes
<1>4. /\ slipencoder(list) \in Seq(Byte)
      /\ After("slip", Decoder(<<>>, FALSE, q), slipencoder(list)) =
           Decoder(<<>>, FALSE, IF Bytes(list) = <<>> THEN q ELSE Append(q, Bytes(list)))
  BY <1>2, <1>3, SlipArrives
<1> QED BY <1>2, <1>3, <1>4, Zenon DEF Payload

-----------------------------------------------------------------------------
(* The invariant.                                                          *)

LineTypes ==
    /\ framing \in {"slip", "size", "ws"}
    /\ sent \in Seq(Payload) /\ received \in Seq(Payload)
    /\ stream \in Seq(Byte) /\ frame \in Seq(Byte) /\ escaped \in BOOLEAN

\* What the decoder has now, with the packets that have arrived, and without them.
Now == Decoder(frame, escaped, received)
Open == Decoder(frame, escaped, <<>>)

LEMMA NowType ==
    ASSUME LineTypes
    PROVE  /\ Now \in State /\ Open \in State /\ Now = Shift(received, Open)
           /\ Decoder(<<>>, FALSE, sent) \in State
<1>1. <<>> \in Seq(Payload) /\ <<>> \in Seq(Byte)
  OBVIOUS
<1>2. Now \in State /\ Open \in State /\ Decoder(<<>>, FALSE, sent) \in State
  BY <1>1 DEF Now, Open, Decoder, State, LineTypes
<1>3. received \o <<>> = received
  BY DEF LineTypes
<1>4. Open.frame = frame /\ Open.escaped = escaped /\ Open.packets = <<>>
  BY Zenon DEF Open, Decoder
<1>5. Now = Shift(received, Open)
  BY <1>3, <1>4, Zenon DEF Now, Shift
<1> QED BY <1>2, <1>5

LEMMA LineInitial ==
    ASSUME Init
    PROVE  LineTypes /\ LineInv
<1>1. <<>> \in Seq(Payload) /\ <<>> \in Seq(Byte)
  OBVIOUS
<1>2. LineTypes
  BY <1>1 DEF Init, LineTypes
<1>3. Now = Decoder(<<>>, FALSE, sent) /\ stream = <<>>
  BY Zenon DEF Init, Now
<1>4. Now \in State
  BY <1>2, NowType
<1>5. After(framing, Now, <<>>) = Now
  BY <1>1, <1>4, AfterType
<1> QED BY <1>2, <1>3, <1>5 DEF Init, LineInv, Now

\* Some more on the line, of which the decoder makes one more packet, or none.
LEMMA MoreOnLine ==
    ASSUME LineTypes, LineInv, NEW more \in Seq(Byte), NEW q \in Seq(Payload),
           After(framing, Decoder(<<>>, FALSE, sent), more) = Decoder(<<>>, FALSE, q)
    PROVE  /\ stream \o more \in Seq(Byte)
           /\ After(framing, Now, stream \o more) = Decoder(<<>>, FALSE, q)
<1>1. stream \in Seq(Byte) /\ Now \in State
  BY NowType DEF LineTypes
<1>2. After(framing, Now, stream \o more) = After(framing, After(framing, Now, stream), more)
  BY <1>1, AfterBoth
<1>3. After(framing, Now, stream) = Decoder(<<>>, FALSE, sent)
  BY Zenon DEF LineInv, Now
<1>4. stream \o more \in Seq(Byte)
  BY <1>1
<1> QED BY <1>2, <1>3, <1>4, Zenon

\* What a list makes of the decoder.
LEMMA Delivered ==
    ASSUME ~CharIsSigned, LineTypes, NEW list \in Seq(Byte)
    PROVE  /\ Decoded(list) = After(framing, Open, list)
           /\ Decoded(list) \in State
           /\ RawInput(Decoded(list).packets) = Decoded(list).packets
           /\ After(framing, Now, list) =
                Decoder(Decoded(list).frame, Decoded(list).escaped, received \o Decoded(list).packets)
<1> DEFINE end == After(framing, Open, list)
<1>1. Open \in State /\ Now = Shift(received, Open) /\ received \in Seq(Payload)
  BY NowType DEF LineTypes
<1>2. end \in State
  BY <1>1, AfterType
<1>3. Bytes(list) = list
  BY AllBytes
<1>4. Decoded(list) = IF framing = "slip" THEN end
                      ELSE [end EXCEPT !.packets = [i \in DOMAIN end.packets |-> Numbers(end.packets[i])]]
  BY <1>3 DEF Decoded, Open
<1> HIDE DEF end
<1>5. end.packets \in Seq(Payload)
  BY <1>2 DEF State
<1>6. [i \in DOMAIN end.packets |-> Numbers(end.packets[i])] = end.packets
  <2> DEFINE p == end.packets
  <2>1. \A i \in DOMAIN p : p[i] \in Seq(Byte)
    <3>1. \A i \in DOMAIN p : p[i] \in Payload
      BY <1>5
    <3> QED BY <3>1, Zenon DEF Payload
  <2>2. \A i \in DOMAIN p : Numbers(p[i]) = p[i]
    BY <2>1, NumbersAreBytes, Zenon
  <2>3. [i \in DOMAIN p |-> p[i]] = p
    BY <1>5
  <2> HIDE DEF p
  <2>4. [i \in DOMAIN p |-> Numbers(p[i])] = p
    BY <2>2, <2>3, Zenon
  <2> QED BY <2>4 DEF p
<1>7. [end EXCEPT !.packets = end.packets] = end
  BY <1>2 DEF State
<1>8. Decoded(list) = end
  BY <1>4, <1>6, <1>7, Zenon
<1>9. RawInput(end.packets) = end.packets
  BY <1>5, RawInputAll
<1>10. After(framing, Now, list) = Shift(received, end)
  BY <1>1, AfterShift DEF end
<1> QED BY <1>2, <1>8, <1>9, <1>10, Zenon DEF Shift, end

\* sppp leaves alone what only the slip decoder uses.
LEMMA SizeNeverEscapes ==
    ASSUME NEW start \in State, start.escaped = FALSE, NEW bytes \in Seq(Byte)
    PROVE  After("size", start, bytes).escaped = FALSE
<1> DEFINE n == Len(bytes)
<1>1. PICK f : Runs("size", start, bytes, f) /\ After("size", start, bytes) = f[n]
  BY AfterRuns
<1> DEFINE R == {k \in 0 .. n : f[k].escaped = FALSE}
<1>2. n \in Nat /\ 0 \in R
  BY <1>1 DEF Runs, Traces
<1>3. ASSUME NEW k \in 0 .. n - 1, k \in R
      PROVE  k + 1 \in R
  <2>1. k + 1 \in 0 .. n /\ k + 1 \in 1 .. n /\ (k + 1) - 1 = k
    OBVIOUS
  <2>2. f[k + 1] = Step("size", f[k], bytes[k + 1])
    BY <1>1, <2>1, Zenon DEF Runs, Traces
  <2>3. Step("size", f[k], bytes[k + 1]).escaped = f[k].escaped
    <3> DEFINE s == f[k]
               d == bytes[k + 1]
    <3> HIDE DEF s, d
    <3>1. rcp_sppp_data(s, d).escaped = s.escaped
      BY DEF rcp_sppp_data, Decoder
    <3>2. Step("size", s, d) = rcp_sppp_data(s, d)
      BY DEF Step
    <3> QED BY <3>1, <3>2 DEF s, d
  <2> QED BY <1>3, <2>1, <2>2, <2>3
<1> HIDE DEF R
<1>4. 0 .. n \subseteq R
  BY <1>2, <1>3, UpTo
<1>5. n \in R
  BY <1>2, <1>4
<1> QED BY <1>1, <1>5 DEF R

Begins(done, q) == \E more \in Seq(Payload) : q = done \o more

\* A packet that is under way arrives, with those before it.
LEMMA Behind ==
    ASSUME NEW coding, NEW f \in Seq(Byte), NEW e \in BOOLEAN, NEW done \in Seq(Payload),
           NEW bytes \in Seq(Byte), NEW q, After(coding, Decoder(f, e, done), bytes) = Decoder(<<>>, FALSE, q)
    PROVE  Begins(done, q)
<1> DEFINE start == Decoder(f, e, <<>>)
           end == After(coding, start, bytes)
<1>1. <<>> \in Seq(Payload) /\ done \o <<>> = done
  OBVIOUS
<1>2. start \in State
  BY <1>1 DEF Decoder, State
<1>3. Decoder(f, e, done) = Shift(done, start)
  BY <1>1 DEF Shift, Decoder
<1>4. After(coding, Shift(done, start), bytes) = Shift(done, end)
  <2> HIDE DEF start
  <2> QED BY <1>2, AfterShift
<1>5. end \in State
  <2> HIDE DEF start
  <2> QED BY <1>2, AfterType
<1> HIDE DEF end, start
<1>6. Decoder(<<>>, FALSE, q) = Shift(done, end)
  BY <1>3, <1>4, Zenon
<1>7. q = done \o end.packets
  BY <1>6 DEF Shift, Decoder
<1>8. end.packets \in Seq(Payload)
  BY <1>5 DEF State
<1> QED BY <1>7, <1>8 DEF Begins

LEMMA SendKeeps ==
    ASSUME ~CharIsSigned, LineTypes, LineInv, NEW p \in Packets, dataOut(p)
    PROVE  /\ LineTypes' /\ LineInv'
           /\ framing = "ws" => received = sent /\ received' = sent'
<1>1. p \in Payload
  BY PacketsAreBytes
<1>2. sent' = Append(sent, p) /\ sent' \in Seq(Payload)
  BY <1>1 DEF dataOut, LineTypes
<1>3. framing' = framing /\ frame' = frame /\ escaped' = escaped
  BY DEF dataOut
<1>4. ASSUME NEW more \in Seq(Byte), stream' = stream \o more, received' = received, framing # "ws",
             After(framing, Decoder(<<>>, FALSE, sent), more) = Decoder(<<>>, FALSE, Append(sent, p))
      PROVE  LineTypes' /\ LineInv'
  <2>1. /\ stream \o more \in Seq(Byte)
        /\ After(framing, Now, stream \o more) = Decoder(<<>>, FALSE, Append(sent, p))
    <3>1. Append(sent, p) \in Seq(Payload)
      BY <1>2
    <3> QED BY <1>4, <3>1, MoreOnLine
  <2>2. LineTypes'
    BY <1>2, <1>3, <1>4, <2>1 DEF LineTypes
  <2>3. After(framing', Decoder(frame', escaped', received'), stream') = Decoder(<<>>, FALSE, sent')
    BY <1>2, <1>3, <1>4, <2>1, Zenon DEF Now
  <2> QED BY <1>3, <1>4, <2>2, <2>3 DEF LineInv
<1>5. CASE framing = "slip"
  <2>1. stream' = stream \o slipencoder(Numbers(p)) /\ received' = received
    BY <1>5 DEF dataOut
  <2>2. /\ slipencoder(Numbers(p)) \in Seq(Byte)
        /\ After("slip", Decoder(<<>>, FALSE, sent), slipencoder(Numbers(p))) = Decoder(<<>>, FALSE, Append(sent, p))
    BY SlipSent DEF LineTypes
  <2>3. framing # "ws"
    BY <1>5
  <2> QED BY <1>4, <1>5, <2>1, <2>2, <2>3
<1>6. CASE framing = "size"
  <2>1. stream' = stream \o sizeprefix(Numbers(p)) /\ received' = received
    BY <1>6 DEF dataOut
  <2>2. /\ sizeprefix(Numbers(p)) \in Seq(Byte)
        /\ After("size", Decoder(<<>>, FALSE, sent), sizeprefix(Numbers(p))) = Decoder(<<>>, FALSE, Append(sent, p))
    BY SizeSent DEF LineTypes
  <2>3. framing # "ws"
    BY <1>6
  <2> QED BY <1>4, <1>6, <2>1, <2>2, <2>3
<1>7. CASE framing = "ws"
  <2>1. received' = received \o <<p>> /\ stream' = stream
    <3> DEFINE messages == WebsocketSends(Numbers(p))
    <3>1. received' = received \o RawInput([i \in DOMAIN messages |-> Numbers(messages[i])]) /\ stream' = stream
      BY <1>7 DEF dataOut
    <3>2. RawInput([i \in DOMAIN messages |-> Numbers(messages[i])]) = <<p>>
      BY WebsocketSent
    <3> QED BY <3>1, <3>2, Zenon
  <2>2. stream = <<>>
    BY <1>7 DEF LineInv
  <2>3. received' \in Seq(Payload)
    BY <1>1, <2>1 DEF LineTypes
  <2>4. LineTypes'
    BY <1>2, <1>3, <2>1, <2>3 DEF LineTypes
  <2>5. After(framing, Now, stream) = Now
    <3>1. Now \in State /\ <<>> \in Seq(Byte)
      BY NowType
    <3> QED BY <2>2, <3>1, AfterType
  <2>6. Now = Decoder(<<>>, FALSE, sent)
    BY <2>5, Zenon DEF LineInv, Now
  <2>7. frame = <<>> /\ escaped = FALSE /\ received = sent
    BY <2>6 DEF Now, Decoder
  <2>8. received' = sent'
    BY <1>1, <1>2, <2>1, <2>7 DEF LineTypes
  <2>9. After(framing', Now', <<>>) = Now'
    <3>1. Now' = Decoder(frame', escaped', received')
      BY Zenon DEF Now
    <3>2. Decoder(frame', escaped', received') \in State /\ <<>> \in Seq(Byte)
      BY <2>4 DEF Decoder, State, LineTypes
    <3> QED BY <3>1, <3>2, AfterType
  <2> QED BY <1>3, <1>7, <2>1, <2>2, <2>4, <2>7, <2>8, <2>9 DEF LineInv, Now
<1> QED BY <1>5, <1>6, <1>7 DEF LineTypes

LEMMA ListKeeps ==
    ASSUME ~CharIsSigned, LineTypes, LineInv, NEW list \in Lists, UserList(list)
    PROVE  LineTypes' /\ LineInv'
<1> DEFINE taken == Only(list, Byte)
           all == IF taken = <<>> THEN sent ELSE Append(sent, taken)
           more == slipencoder(list)
<1>1. framing = "slip" /\ sent' = all /\ stream' = stream \o more
  BY DEF UserList
<1>2. framing' = framing /\ frame' = frame /\ escaped' = escaped /\ received' = received
  BY DEF UserList
<1>3. sent \in Seq(Payload)
  BY DEF LineTypes
<1>4. /\ taken # <<>> => taken \in Payload
      /\ more \in Seq(Byte)
      /\ After("slip", Decoder(<<>>, FALSE, sent), more) = Decoder(<<>>, FALSE, all)
  BY <1>3, ListSent
<1> HIDE DEF taken, more
<1>5. all \in Seq(Payload)
  BY <1>3, <1>4
<1> HIDE DEF all
<1>6. stream \o more \in Seq(Byte) /\ After(framing, Now, stream \o more) = Decoder(<<>>, FALSE, all)
  <2>1. After(framing, Decoder(<<>>, FALSE, sent), more) = Decoder(<<>>, FALSE, all)
    BY <1>1, <1>4
  <2> QED BY <1>4, <1>5, <2>1, MoreOnLine
<1>7. LineTypes'
  BY <1>1, <1>2, <1>5, <1>6 DEF LineTypes
<1>8. After(framing', Decoder(frame', escaped', received'), stream') = Decoder(<<>>, FALSE, sent')
  BY <1>1, <1>2, <1>6, Zenon DEF Now
<1> QED BY <1>1, <1>2, <1>7, <1>8 DEF LineInv

\* The packets that a list completes are the next ones that were sent.
LEMMA DeliverKeeps ==
    ASSUME ~CharIsSigned, LineTypes, LineInv, NEW n \in 1 .. Len(stream), Deliver(n)
    PROVE  /\ LineTypes' /\ LineInv'
           /\ \E more, rest \in Seq(Payload) : received' = received \o more /\ sent' = received' \o rest
<1> DEFINE a == SubSeq(stream, 1, n)
           b == SubSeq(stream, n + 1, Len(stream))
           s == Decoded(a)
<1>1. a \in Seq(Byte) /\ b \in Seq(Byte) /\ stream = a \o b /\ stream # <<>>
  BY DEF LineTypes
<1>2. /\ s \in State
      /\ RawInput(s.packets) = s.packets
      /\ After(framing, Now, a) = Decoder(s.frame, s.escaped, received \o s.packets)
  BY <1>1, Delivered
<1>3. received' = received \o RawInput(s.packets) /\ frame' = s.frame /\ escaped' = s.escaped
  BY DEF Deliver
<1>4. stream' = b /\ framing' = framing /\ sent' = sent
  BY DEF Deliver
<1> HIDE DEF a, b, s
<1>5. s.frame \in Seq(Byte) /\ s.escaped \in BOOLEAN /\ s.packets \in Seq(Payload)
  BY <1>2 DEF State
<1>6. received' = received \o s.packets /\ received' \in Seq(Payload)
  BY <1>2, <1>3, <1>5 DEF LineTypes
<1>7. LineTypes'
  BY <1>1, <1>3, <1>4, <1>5, <1>6 DEF LineTypes
<1>8. After(framing, Now, stream) = After(framing, After(framing, Now, a), b)
  <2>1. Now \in State
    BY NowType
  <2> QED BY <1>1, <2>1, AfterBoth
<1>9. After(framing', Decoder(frame', escaped', received'), stream') = Decoder(<<>>, FALSE, sent')
  <2>1. After(framing, Now, stream) = Decoder(<<>>, FALSE, sent)
    BY Zenon DEF LineInv, Now
  <2> QED BY <1>2, <1>3, <1>4, <1>6, <1>8, <2>1, Zenon
<1>10. framing # "ws"
  BY <1>1 DEF LineInv
<1>11. framing = "size" => ~escaped'
  <2>1. ASSUME framing = "size"
        PROVE  After("size", Open, a).escaped = FALSE
    <3>1. Open \in State /\ Open.escaped = FALSE
      BY <2>1, NowType DEF LineInv, Open, Decoder
    <3> QED BY <1>1, <3>1, SizeNeverEscapes
  <2>2. s = After(framing, Open, a)
    BY <1>1, Delivered DEF s
  <2> QED BY <1>3, <2>1, <2>2
<1>12. \E rest \in Seq(Payload) : sent' = received' \o rest
  <2>1. frame' \in Seq(Byte) /\ escaped' \in BOOLEAN /\ stream' \in Seq(Byte)
    BY <1>7 DEF LineTypes
  <2>2. \A q : After(framing', Decoder(frame', escaped', received'), stream') = Decoder(<<>>, FALSE, q)
              => Begins(received', q)
    BY <1>6, <2>1, Behind
  <2> QED BY <1>9, <2>2, Zenon DEF Begins
<1> QED BY <1>4, <1>5, <1>6, <1>7, <1>9, <1>10, <1>11, <1>12 DEF LineInv

LEMMA ResetKeeps ==
    ASSUME LineTypes, LineInv, m_reset
    PROVE  LineTypes' /\ LineInv'
<1>1. /\ framing = "size" /\ stream' = <<>> /\ frame' = <<>> /\ sent' = received
      /\ framing' = framing /\ received' = received /\ escaped' = escaped
  BY DEF m_reset
<1>2. escaped' = FALSE
  BY <1>1 DEF LineInv, LineTypes
<1>3. <<>> \in Seq(Byte)
  OBVIOUS
<1>4. LineTypes'
  BY <1>1, <1>3 DEF LineTypes
<1>5. After(framing, Decoder(<<>>, FALSE, received), <<>>) = Decoder(<<>>, FALSE, received)
  <2>1. Decoder(<<>>, FALSE, received) \in State
    BY <1>3 DEF Decoder, State, LineTypes
  <2> QED BY <1>3, <2>1, AfterType
<1> QED BY <1>1, <1>2, <1>4, <1>5 DEF LineInv

LEMMA LineStep ==
    ASSUME ~CharIsSigned, LineTypes, LineInv, [Next]_vars
    PROVE  LineTypes' /\ LineInv'
<1>1. ASSUME NEW p \in Packets, dataOut(p)
      PROVE  LineTypes' /\ LineInv'
  BY <1>1, SendKeeps
<1>2. ASSUME NEW list \in Lists, UserList(list)
      PROVE  LineTypes' /\ LineInv'
  BY <1>2, ListKeeps
<1>3. ASSUME NEW n \in 1 .. Len(stream), Deliver(n)
      PROVE  LineTypes' /\ LineInv'
  BY <1>3, DeliverKeeps
<1>4. CASE m_reset
  BY <1>4, ResetKeeps
<1>5. CASE UNCHANGED vars
  BY <1>5 DEF vars, LineTypes, LineInv
<1> QED BY <1>1, <1>2, <1>3, <1>4, <1>5 DEF Next

LEMMA Ahead ==
    ASSUME LineTypes, LineInv
    PROVE  /\ \E more \in Seq(Payload) : sent = received \o more
           /\ stream = <<>> => received = sent /\ frame = <<>> /\ escaped = FALSE
<1>1. Now \in State /\ After(framing, Now, stream) = Decoder(<<>>, FALSE, sent)
  BY NowType, Zenon DEF LineInv, Now
<1>2. \E more \in Seq(Payload) : sent = received \o more
  <2>1. \A q : After(framing, Decoder(frame, escaped, received), stream) = Decoder(<<>>, FALSE, q)
              => Begins(received, q)
    BY Behind DEF LineTypes
  <2> QED BY <1>1, <2>1, Zenon DEF Now, Begins
<1>3. stream = <<>> => After(framing, Now, stream) = Now
  <2>1. <<>> \in Seq(Byte)
    OBVIOUS
  <2> QED BY <1>1, <2>1, AfterType
<1>4. stream = <<>> => received = sent /\ frame = <<>> /\ escaped = FALSE
  BY <1>1, <1>3 DEF Now, Decoder
<1> QED BY <1>2, <1>4

LEMMA Wider == ASSUME NEW S, NEW T, S \subseteq T, NEW s \in Seq(S) PROVE s \in Seq(T)
  OBVIOUS

LEMMA WholeAndInOrder ==
    ASSUME LineTypes, LineInv
    PROVE  TypeOK /\ Intact /\ Arrives
<1>1. TypeOK
  <2>1. Payload \subseteq Seq(Byte)
    BY DEF Payload
  <2>2. Byte \subseteq -Base .. Base - 1
    BY BaseAssumption DEF Byte
  <2>3. sent \in Seq(Seq(Byte)) /\ received \in Seq(Seq(Byte))
    BY <2>1 DEF LineTypes
  <2>4. stream \in Seq(-Base .. Base - 1)
    BY <2>2, Wider DEF LineTypes
  <2> QED BY <2>3, <2>4 DEF TypeOK, LineTypes
<1>2. Intact
  <2>1. PICK more \in Seq(Payload) : sent = received \o more
    BY Ahead
  <2>2. received \in Seq(Payload)
    BY DEF LineTypes
  <2>3. Len(received) <= Len(received \o more)
        /\ SubSeq(received, 1, Len(received)) = SubSeq(received \o more, 1, Len(received))
    BY <2>2
  <2> QED BY <2>1, <2>3, Zenon DEF Intact, IsPrefix
<1>3. Arrives
  BY Ahead DEF Arrives
<1> QED BY <1>1, <1>2, <1>3

-----------------------------------------------------------------------------
(* The packets under way, and the abstract line.                           *)

underway == SubSeq(sent, Len(received) + 1, Len(sent))

\* What is under way, when the rest of sent is known.
LEMMA Rest ==
    \A done, more \in Seq(Payload) :
        SubSeq(done \o more, Len(done) + 1, Len(done \o more)) = more
<1> SUFFICES ASSUME NEW done \in Seq(Payload), NEW more \in Seq(Payload)
             PROVE  SubSeq(done \o more, Len(done) + 1, Len(done \o more)) = more
  OBVIOUS
<1> DEFINE all == done \o more
           r == SubSeq(all, Len(done) + 1, Len(all))
<1>1. all \in Seq(Payload) /\ Len(all) = Len(done) + Len(more)
  OBVIOUS
<1>2. \A i \in 1 .. Len(more) : all[i + Len(done)] = more[i]
  OBVIOUS
<1> HIDE DEF all
<1>3. Len(r) = Len(more) /\ r \in Seq(Payload)
  BY <1>1
<1>4. \A i \in 1 .. Len(more) : r[i] = all[i + Len(done)]
  BY <1>1
<1>5. \A i \in 1 .. Len(more) : r[i] = more[i]
  BY <1>2, <1>4
<1> HIDE DEF r
<1>6. r = more
  BY <1>3, <1>5
<1> QED BY <1>6 DEF r, all

LEMMA AbstractInit == Init => Line!Init
<1> SUFFICES ASSUME Init PROVE Line!Init
  OBVIOUS
<1>1. sent = <<>> /\ received = <<>>
  BY DEF Init
<1>2. SubSeq(<<>>, Len(<<>>) + 1, Len(<<>>)) = <<>>
  OBVIOUS
<1> QED BY <1>1, <1>2, Zenon DEF Line!Init

\* A packet is added behind those under way, or goes through at once.
LEMMA AbstractSend ==
    ASSUME LineTypes, LineInv, LineTypes', LineInv', NEW p \in Payload,
           sent' = Append(sent, p), received' = received
    PROVE  underway' = Append(underway, p)
<1>1. PICK more \in Seq(Payload) : sent = received \o more
  BY Ahead
<1>2. received \in Seq(Payload)
  BY DEF LineTypes
<1>3. underway = more
  BY <1>1, <1>2, Rest, Zenon DEF underway
<1>4. Append(more, p) \in Seq(Payload) /\ sent' = received \o Append(more, p)
  <2>1. ASSUME NEW done \in Seq(Payload)
        PROVE  Append(done \o more, p) = done \o Append(more, p)
    <3> DEFINE l == Append(done \o more, p)
               r == done \o Append(more, p)
    <3>1. /\ l \in Seq(Payload) /\ Len(l) = Len(done) + Len(more) + 1
          /\ \A i \in 1 .. Len(done) + Len(more) + 1 :
                l[i] = IF i <= Len(done) THEN done[i]
                       ELSE IF i <= Len(done) + Len(more) THEN more[i - Len(done)] ELSE p
      BY SMTT(30)
    <3>2. /\ r \in Seq(Payload) /\ Len(r) = Len(done) + Len(more) + 1
          /\ \A i \in 1 .. Len(done) + Len(more) + 1 :
                r[i] = IF i <= Len(done) THEN done[i]
                       ELSE IF i <= Len(done) + Len(more) THEN more[i - Len(done)] ELSE p
      BY SMTT(30)
    <3> HIDE DEF l, r
    <3>4. Len(l) = Len(r) /\ \A i \in 1 .. Len(l) : l[i] = r[i]
      BY <3>1, <3>2
    <3>3. l = r
      BY <3>1, <3>2, <3>4
    <3> QED BY <3>3 DEF l, r
  <2>2. sent' = Append(received \o more, p) /\ Append(more, p) \in Seq(Payload)
    BY <1>1
  <2> QED BY <1>2, <2>1, <2>2, Zenon
<1>5. SubSeq(sent', Len(received') + 1, Len(sent')) = Append(more, p)
  <2>1. received' = received
    OBVIOUS
  <2> QED BY <1>2, <1>4, <2>1, Rest, Zenon
<1> QED BY <1>3, <1>5 DEF underway

LEMMA Nothing == \A s \in Seq(Payload) : SubSeq(s, Len(s) + 1, Len(s)) = <<>>
  OBVIOUS

LEMMA Associative ==
    ASSUME NEW a \in Seq(Payload), NEW b \in Seq(Payload), NEW c \in Seq(Payload)
    PROVE  (a \o b) \o c = a \o (b \o c) /\ b \o c \in Seq(Payload) /\ SubSeq(b \o c, 1, Len(b)) = b
<1> DEFINE l == (a \o b) \o c
           r == a \o (b \o c)
           n == Len(a) + Len(b) + Len(c)
           head == SubSeq(b \o c, 1, Len(b))
           item(i) == IF i <= Len(a) THEN a[i]
                      ELSE IF i <= Len(a) + Len(b) THEN b[i - Len(a)] ELSE c[i - Len(a) - Len(b)]
<1>1. l \in Seq(Payload) /\ Len(l) = n /\ \A i \in 1 .. n : l[i] = item(i)
  OBVIOUS
<1>2. r \in Seq(Payload) /\ Len(r) = n /\ \A i \in 1 .. n : r[i] = item(i)
  OBVIOUS
<1>3. head \in Seq(Payload) /\ Len(head) = Len(b) /\ \A i \in 1 .. Len(b) : head[i] = b[i]
  OBVIOUS
<1>4. b \o c \in Seq(Payload)
  OBVIOUS
<1> HIDE DEF l, r, head, item
<1>5. Len(l) = Len(r) /\ \A i \in 1 .. Len(l) : l[i] = r[i]
  BY <1>1, <1>2
<1>6. l = r
  BY <1>1, <1>2, <1>5
<1>7. head = b
  BY <1>3
<1> QED BY <1>4, <1>6, <1>7 DEF l, r, head

LEMMA AbstractReceive ==
    ASSUME LineTypes, NEW n \in 1 .. Len(stream), Deliver(n),
           NEW more \in Seq(Payload), NEW rest \in Seq(Payload),
           received' = received \o more, sent' = received' \o rest
    PROVE  [Line!Next]_(Line!lineVars)
<1> DEFINE k == Len(more)
           ahead == more \o rest
<1>1. sent' = sent /\ received \in Seq(Payload)
  BY DEF Deliver, LineTypes
<1>2. sent = received \o ahead /\ ahead \in Seq(Payload) /\ SubSeq(ahead, 1, k) = more
  BY <1>1, Associative
<1>3. received' \in Seq(Payload)
  BY <1>1
<1>4. underway = ahead
  BY <1>1, <1>2, Rest, Zenon DEF underway
<1>5. underway' = rest
  BY <1>3, Rest, Zenon DEF underway
<1>6. k \in Nat /\ k <= Len(ahead)
  OBVIOUS
<1>7. SubSeq(ahead, k + 1, Len(ahead)) = rest
  BY Rest
<1> HIDE DEF ahead, k
<1>8. CASE k = 0
  <2>1. more = <<>>
    BY <1>8 DEF k
  <2>2. received' = received
    BY <1>1, <2>1
  <2> QED BY <1>1, <2>2 DEF Line!lineVars
<1>9. CASE k # 0
  <2>1. k \in 1 .. Len(ahead)
    BY <1>6, <1>9
  <2>2. Line!Receive(k)
    <3>1. received' = received \o SubSeq(underway, 1, k)
      BY <1>2, <1>4
    <3>2. underway' = SubSeq(underway, k + 1, Len(underway))
      BY <1>4, <1>5, <1>7
    <3>3. k <= Len(underway)
      BY <1>4, <1>6
    <3> QED BY <3>1, <3>2, <3>3 DEF Line!Receive, underway
  <2>3. k \in 1 .. Len(underway)
    BY <1>4, <2>1
  <2> QED BY <2>2, <2>3 DEF Line!Next, underway
<1> QED BY <1>8, <1>9

\* Each step of the objects is one of the abstract line, or none.
LEMMA AbstractStep ==
    ASSUME ~CharIsSigned, LineTypes, LineInv, [Next]_vars
    PROVE  [Line!Next]_(Line!lineVars)
<1> DEFINE Sent == Packets \cup {Only(list, Byte) : list \in Lists}
<1>0. LineTypes' /\ LineInv'
  BY LineStep
<1>1. ASSUME NEW p \in Packets, dataOut(p)
      PROVE  Line!Next
  <2>1. p \in Payload /\ p \in Sent
    BY PacketsAreBytes
  <2>2. sent' = Append(sent, p)
    BY <1>1 DEF dataOut
  <2>3. CASE framing # "ws"
    <3>1. received' = received
      BY <1>1, <2>3 DEF dataOut
    <3>2. underway' = Append(underway, p)
      BY <1>0, <2>1, <2>2, <3>1, AbstractSend
    <3> QED BY <2>1, <3>1, <3>2 DEF Line!Next, Line!Send, underway
  <2>4. CASE framing = "ws"
    <3>1. received = sent /\ received' = sent'
      BY <1>1, <2>4, SendKeeps
    <3>2. underway = <<>> /\ underway' = <<>>
      <4>1. sent \in Seq(Payload) /\ sent' \in Seq(Payload)
        BY <1>0 DEF LineTypes
      <4> QED BY <3>1, <4>1, Nothing DEF underway
    <3>3. received' = Append(received, p)
      BY <2>2, <3>1
    <3>4. Line!SendThrough(p)
      BY <3>2, <3>3 DEF Line!SendThrough, underway
    <3> QED BY <2>1, <3>4 DEF Line!Next
  <2> QED BY <2>3, <2>4
<1>2. ASSUME NEW list \in Lists, UserList(list)
      PROVE  [Line!Next]_(Line!lineVars)
  <2> DEFINE taken == Only(list, Byte)
  <2>1. received' = received /\ sent' = IF taken = <<>> THEN sent ELSE Append(sent, taken)
    BY <1>2 DEF UserList
  <2>2. CASE taken = <<>>
    <3>1. sent' = sent
      BY <2>1, <2>2
    <3> QED BY <2>1, <3>1 DEF Line!lineVars
  <2>3. CASE taken # <<>>
    <3>1. taken \in Payload
      BY <2>3, ListSent DEF LineTypes
    <3>2. taken \in Sent
      OBVIOUS
    <3> HIDE DEF taken
    <3>3. underway' = Append(underway, taken)
      BY <1>0, <2>1, <2>3, <3>1, AbstractSend
    <3> QED BY <2>1, <3>2, <3>3 DEF Line!Next, Line!Send, underway
  <2> QED BY <2>2, <2>3
<1>3. ASSUME NEW n \in 1 .. Len(stream), Deliver(n)
      PROVE  [Line!Next]_(Line!lineVars)
  <2>1. \E more, rest \in Seq(Payload) : received' = received \o more /\ sent' = received' \o rest
    BY <1>3, DeliverKeeps
  <2> QED BY <1>3, <2>1, AbstractReceive
<1>4. CASE m_reset
  <2>1. sent' = received /\ received' = received /\ received \in Seq(Payload)
    BY <1>4 DEF m_reset, LineTypes
  <2>2. underway' = <<>>
    BY <2>1, Nothing DEF underway
  <2> QED BY <2>1, <2>2 DEF Line!Next, Line!Break, underway
<1>5. CASE UNCHANGED vars
  BY <1>5 DEF vars, Line!lineVars
<1> QED BY <1>1, <1>2, <1>3, <1>4, <1>5 DEF Next

-----------------------------------------------------------------------------
(* The specification of the line.                                          *)

LEMMA LineInvariant == ASSUME ~CharIsSigned PROVE Spec => [](LineTypes /\ LineInv)
<1>1. Init => LineTypes /\ LineInv
  BY LineInitial
<1>2. LineTypes /\ LineInv /\ [Next]_vars => LineTypes' /\ LineInv'
  BY LineStep
<1> QED BY <1>1, <1>2, PTL DEF Spec

\* Whatever travels is a number of the range it has to be in (SlipEncoder.cpp:65-87,
\* SizePrefixer.cpp:56-71, SlipDecoder.cpp:99-124).
THEOREM LineTypeCorrect == ASSUME ~CharIsSigned PROVE Spec => []TypeOK
<1>1. LineTypes /\ LineInv => TypeOK
  BY WholeAndInOrder
<1> QED BY <1>1, LineInvariant, PTL

\* Packets of any length and in any number arrive whole and in order, however the
\* line cuts the stream into lists, and nothing stays behind (SlipDecoder.cpp:99-124,
\* SPPParser.cpp:93-130).
THEOREM PacketsArrive == ASSUME ~CharIsSigned PROVE Spec => [](Intact /\ Arrives)
<1>1. LineTypes /\ LineInv => Intact /\ Arrives
  BY WholeAndInOrder
<1> QED BY <1>1, LineInvariant, PTL

\* Encoder, line and decoder together are a line of packets that a break empties.
THEOREM ImplementsLine == ASSUME ~CharIsSigned PROVE Spec => LineSpec
<1>1. Init => Line!Init
  BY AbstractInit
<1>2. LineTypes /\ LineInv /\ [Next]_vars => [Line!Next]_(Line!lineVars)
  BY AbstractStep
<1> QED BY <1>1, <1>2, LineInvariant, PTL DEF Spec, LineSpec, Line!Spec

-----------------------------------------------------------------------------
(* rcp.format: the lists it fills.                                         *)

Wire == -Base .. Base - 1

LEMMA OnWire ==
    ASSUME NEW s \in Seq(Byte)
    PROVE  /\ s \in Seq(Wire)
           /\ Numbers(s) \in Seq(Wire) /\ Len(Numbers(s)) = Len(s)
<1>1. ASSUME NEW d \in Byte
      PROVE  d \in Wire /\ Number(d) \in Wire
  BY BaseAssumption DEF Byte, Wire, Number
<1>2. \A i \in 1 .. Len(s) : s[i] \in Wire /\ Number(s[i]) \in Wire
  BY <1>1
<1>3. Numbers(s) = [i \in 1 .. Len(s) |-> Number(s[i])]
  BY DEF Numbers
<1> HIDE DEF Wire
<1>4. Numbers(s) \in Seq(Wire) /\ Len(Numbers(s)) = Len(s)
  BY <1>2, <1>3
<1>5. Byte \subseteq Wire
  BY <1>1
<1>6. s \in Seq(Wire)
  BY <1>5, Wider
<1> QED BY <1>4, <1>6

LEMMA BytesStored ==
    ASSUME NEW v \in Int
    PROVE  /\ Store16(v) \in Seq(Byte) /\ Len(Store16(v)) = 2
           /\ Store32(v) \in Seq(Byte) /\ Len(Store32(v)) = 4
<1>1. ASSUME NEW b \in Nat, b > 0
      PROVE  v \div b \in Int
  BY <1>1
<1>2. ASSUME NEW x \in Int
      PROVE  x % Base \in Byte
  BY BaseAssumption DEF Byte
<1> DEFINE B2 == Base * Base
           B3 == Base * Base * Base
<1>3. B2 \in Nat /\ B2 > 0
  BY BaseAssumption
<1>4. B3 \in Nat /\ B3 > 0
  <2>1. B3 = B2 * Base
    OBVIOUS
  <2>2. ASSUME NEW x \in Nat, NEW y \in Nat, x > 0, y > 0
        PROVE  x * y \in Nat /\ x * y > 0
    BY <2>2
  <2> HIDE DEF B2, B3
  <2> QED BY BaseAssumption, <1>3, <2>1, <2>2
<1>5. Base \in Nat /\ Base > 0
  BY BaseAssumption
<1> HIDE DEF B2, B3
<1>6. v \div B3 \in Int /\ v \div B2 \in Int /\ v \div Base \in Int
  BY <1>1, <1>3, <1>4, <1>5
<1>7. Store16(v) = <<(v \div Base) % Base, v % Base>>
  BY Zenon DEF Store16
<1>8. Store32(v) = <<(v \div B3) % Base, (v \div B2) % Base, (v \div Base) % Base, v % Base>>
  BY Zenon DEF Store32, SizeBytes, B2, B3
<1>9. (v \div B3) % Base \in Byte /\ (v \div B2) % Base \in Byte /\ (v \div Base) % Base \in Byte /\ v % Base \in Byte
  BY <1>2, <1>6
<1> QED BY <1>7, <1>8, <1>9

\* Every atom of a list is written, ...
Written(list) ==
    /\ list.size \in Nat \ {0}
    /\ list.parts \in Seq([at : Nat, bytes : Seq(Wire)])
    /\ \A k \in 1 .. list.size :
          \E j \in DOMAIN list.parts : k \in list.parts[j].at + 1 .. Ends(list.parts[j])

\* ... and nothing beyond its end.
Full(list) == Written(list) /\ \A j \in DOMAIN list.parts : Ends(list.parts[j]) <= list.size

LEMMA LastWriter ==
    ASSUME NEW n \in Nat, NEW S \in SUBSET (1 .. n), S # {}
    PROVE  \E j \in S : \A i \in S : i <= j
<1> DEFINE R == {k \in 0 .. n : (\E i \in S : i <= k) => \E j \in S : j <= k /\ \A i \in S : i <= k => i <= j}
<1>1. 0 \in R
  OBVIOUS
<1>2. ASSUME NEW k \in 0 .. n - 1, k \in R
      PROVE  k + 1 \in R
  <2>1. CASE k + 1 \in S
    <3>1. \A i \in S : i <= k + 1 => i <= k + 1
      OBVIOUS
    <3> QED BY <2>1, <3>1
  <2>2. CASE k + 1 \notin S
    <3>1. \A i \in S : i <= k + 1 => i <= k
      BY <2>2
    <3> QED BY <1>2, <3>1
  <2> QED BY <2>1, <2>2
<1> HIDE DEF R
<1>3. n \in R
  <2>1. 0 .. n \subseteq R
    BY <1>1, <1>2, UpTo
  <2> QED BY <2>1
<1>4. \A i \in S : i <= n
  OBVIOUS
<1>5. \E j \in S : j <= n /\ \A i \in S : i <= n => i <= j
  BY <1>3, <1>4 DEF R
<1> QED BY <1>4, <1>5

\* Each atom is one of a part.
LEMMA FilledFrom ==
    ASSUME NEW list, Written(list), NEW W, \A j \in DOMAIN list.parts : list.parts[j].bytes \in Seq(W)
    PROVE  /\ Filled(list) \in Seq(W) /\ Len(Filled(list)) = list.size
           /\ \A k \in 1 .. list.size : Filled(list)[k] \in W
<1> DEFINE n == Len(list.parts)
           writers(k) == {j \in DOMAIN list.parts : k \in list.parts[j].at + 1 .. Ends(list.parts[j])}
           lastOf(k) == CHOOSE j \in writers(k) : \A i \in writers(k) : i <= j
           atom(k) == IF writers(k) = {} THEN Symbol
                      ELSE list.parts[lastOf(k)].bytes[k - list.parts[lastOf(k)].at]
<1>1. n \in Nat /\ DOMAIN list.parts = 1 .. n /\ list.size \in Nat
  BY DEF Written
<1>2. ASSUME NEW k \in 1 .. list.size
      PROVE  atom(k) \in W
  <2>1. writers(k) \in SUBSET (1 .. n) /\ writers(k) # {}
    BY <1>1 DEF Written
  <2>2. \E j \in writers(k) : \A i \in writers(k) : i <= j
    <3> HIDE DEF writers, n
    <3> QED BY <1>1, <2>1, LastWriter
  <2>3. lastOf(k) \in writers(k)
    <3> HIDE DEF writers
    <3> QED BY <2>2
  <2> DEFINE j == lastOf(k)
             part == list.parts[j]
  <2>4. j \in 1 .. n /\ k \in part.at + 1 .. Ends(part)
    <3> HIDE DEF lastOf
    <3> QED BY <1>1, <2>3
  <2> HIDE DEF j
  <2>5. part.at \in Nat /\ part.bytes \in Seq(W)
    <3>1. list.parts \in Seq([at : Nat, bytes : Seq(Wire)]) /\ j \in 1 .. Len(list.parts)
      BY <1>1, <2>4 DEF Written
    <3>2. part \in [at : Nat, bytes : Seq(Wire)]
      <4>1. \A X : \A p \in Seq(X) : \A i \in 1 .. Len(p) : p[i] \in X
        OBVIOUS
      <4> QED BY <3>1, <4>1, Zenon
    <3>3. part.bytes \in Seq(W)
      BY <1>1, <2>4
    <3> HIDE DEF part
    <3> QED BY <3>2, <3>3
  <2>6. k - part.at \in 1 .. Len(part.bytes)
    <3> HIDE DEF part
    <3> QED BY <2>4, <2>5 DEF Ends
  <2>7. part.bytes[k - part.at] \in W
    <3> HIDE DEF part
    <3> QED BY <2>5, <2>6
  <2> HIDE DEF part, writers, lastOf
  <2>8. atom(k) = part.bytes[k - part.at]
    BY <2>1 DEF part, j
  <2> QED BY <2>7, <2>8
<1>3. Filled(list) = [k \in 1 .. list.size |-> atom(k)]
  BY Zenon DEF Filled
<1> HIDE DEF atom
<1> QED BY <1>1, <1>2, <1>3

LEMMA WrittenIsFilled ==
    ASSUME NEW list, Written(list)
    PROVE  /\ Filled(list) \in Seq(Wire) /\ Len(Filled(list)) = list.size
           /\ \A k \in 1 .. list.size : Filled(list)[k] \in Wire
<1> DEFINE P == [at : Nat, bytes : Seq(Wire)]
<1>1. list.parts \in Seq(P)
  BY DEF Written
<1>2. \A r \in P : r.bytes \in Seq(Wire)
  OBVIOUS
<1> HIDE DEF P
<1>3. \A X : \A p \in Seq(X) : \A i \in DOMAIN p : p[i] \in X
  OBVIOUS
<1>4. \A j \in DOMAIN list.parts : list.parts[j].bytes \in Seq(Wire)
  BY <1>1, <1>2, <1>3, Zenon
<1> QED BY <1>4, FilledFrom

\* What is known of rcp.format between messages.
FormatInv ==
    /\ PacketsTypeOK
    /\ labelOption \in Seq(Wire) /\ gathered \in Seq(Wire) /\ packets \in Nat
    /\ source = "rcp.server" => gathered = <<>>

LEMMA ProtocolNumbers ==
    /\ Command.UPDATE \in Wire /\ Command.UPDATEVALUE \in Wire
    /\ Option.DATA \in Wire /\ Option.VALUE \in Wire /\ Option.LABEL \in Byte
    /\ RCP_TERMINATOR \in Byte /\ RCP_TERMINATOR \in Wire /\ 1 \in Wire
    /\ \A t \in Kind : TypeId[t] \in Wire
<1>1. Byte \subseteq Wire /\ 0 \in Byte /\ 1 \in Byte
  BY BaseAssumption DEF Byte, Wire
<1>2. Command["UPDATE"] \in Byte /\ Command["UPDATEVALUE"] \in Byte
  BY PacketsAssumption DEF CommandName
<1>3. Option["DATA"] \in Byte /\ Option["VALUE"] \in Byte /\ Option["LABEL"] \in Byte
  BY PacketsAssumption
<1>4. \A t \in Kind : TypeId[t] \in Byte
  BY PacketsAssumption
<1> QED BY <1>1, <1>2, <1>3, <1>4 DEF RCP_TERMINATOR

\* A part of a list: where it begins and where it ends.
PartIs(p, at, end) == p \in [at : Nat, bytes : Seq(Wire)] /\ p.at = at /\ Ends(p) = end

LEMMA PartType ==
    ASSUME NEW at \in Nat, NEW bytes \in Seq(Wire), NEW n, Len(bytes) = n
    PROVE  PartIs(At(at, bytes), at, at + n)
<1> QED BY DEF At, Ends, PartIs

LEMMA PartsJoined ==
    ASSUME NEW P, NEW a \in P, NEW b \in P, NEW c \in P, NEW d \in P, NEW e \in P, NEW f \in P, NEW g \in P
    PROVE  <<a, b, c, d, e>> \o <<f, g>> = <<a, b, c, d, e, f, g>>
<1> DEFINE s == <<a, b, c, d, e>>
           t == <<f, g>>
           l == s \o t
           r == <<a, b, c, d, e, f, g>>
<1>1. s \in Seq(P) /\ Len(s) = 5 /\ t \in Seq(P) /\ Len(t) = 2
  OBVIOUS
<1>2. r \in Seq(P) /\ Len(r) = 7 /\ (\A i \in 1 .. 5 : r[i] = s[i]) /\ r[6] = t[1] /\ r[7] = t[2]
  <2>1. \A i \in 1 .. 5 : i = 1 \/ i = 2 \/ i = 3 \/ i = 4 \/ i = 5
    OBVIOUS
  <2> QED BY <2>1
<1> HIDE DEF s, t, r
<1>3. l \in Seq(P) /\ Len(l) = 7 /\ (\A i \in 1 .. 5 : l[i] = s[i]) /\ l[6] = t[1] /\ l[7] = t[2]
  <2>1. ASSUME NEW x \in Seq(P), NEW y \in Seq(P)
        PROVE  /\ x \o y \in Seq(P) /\ Len(x \o y) = Len(x) + Len(y)
               /\ \A i \in 1 .. Len(x) : (x \o y)[i] = x[i]
               /\ \A i \in 1 .. Len(y) : (x \o y)[i + Len(x)] = y[i]
    OBVIOUS
  <2>2. /\ l \in Seq(P) /\ Len(l) = Len(s) + Len(t)
        /\ \A i \in 1 .. Len(s) : l[i] = s[i]
        /\ \A i \in 1 .. Len(t) : l[i + Len(s)] = t[i]
    BY <1>1, <2>1, Zenon
  <2> HIDE DEF l
  <2>3. 1 \in 1 .. 2 /\ 2 \in 1 .. 2 /\ 1 + 5 = 6 /\ 2 + 5 = 7 /\ 5 + 2 = 7
    OBVIOUS
  <2> QED BY <1>1, <2>2, <2>3
<1> HIDE DEF l
<1>4. \A i \in 1 .. 7 : l[i] = r[i]
  <2>1. \A i \in 1 .. 7 : i \in 1 .. 5 \/ i = 6 \/ i = 7
    OBVIOUS
  <2> QED BY <1>2, <1>3, <2>1
<1>5. l = r
  BY <1>2, <1>3, <1>4
<1> QED BY <1>5 DEF l, r, s, t

LEMMA UpdateValueFull ==
    ASSUME FormatInv, NEW type \in Kind, NEW value \in Seq(Wire)
    PROVE  Full(UpdateValue(type, value))
<1> DEFINE p1 == At(0, <<Command.UPDATEVALUE>>)
           p2 == At(1, Store16(m_id))
           p3 == At(3, <<TypeId[type]>>)
           p4 == At(4, value)
           parts == <<p1, p2, p3, p4>>
           size == 4 + Len(value)
           list == UpdateValue(type, value)
           P == [at : Nat, bytes : Seq(Wire)]
<1>1. m_id \in Int
  BY BaseAssumption DEF FormatInv, PacketsTypeOK, ValidId
<1>2. Store16(m_id) \in Seq(Wire) /\ Len(Store16(m_id)) = 2
  BY <1>1, BytesStored, OnWire
<1>3. <<Command.UPDATEVALUE>> \in Seq(Wire) /\ <<TypeId[type]>> \in Seq(Wire)
  BY ProtocolNumbers
<1>4. PartIs(p1, 0, 0 + 1) /\ PartIs(p2, 1, 1 + 2) /\ PartIs(p3, 3, 3 + 1) /\ PartIs(p4, 4, 4 + Len(value))
  <2>1. Len(<<Command.UPDATEVALUE>>) = 1 /\ Len(<<TypeId[type]>>) = 1 /\ 1 \in Nat /\ 3 \in Nat /\ 4 \in Nat
    OBVIOUS
  <2> QED BY <1>2, <1>3, <2>1, PartType
<1>5. list.size = size /\ list.parts = parts
  BY DEF UpdateValue
<1>6. size \in Nat \ {0} /\ Len(value) \in Nat
  OBVIOUS
<1> HIDE DEF p1, p2, p3, p4, list
<1>7. /\ p1 \in P /\ p1.at = 0 /\ Ends(p1) = 1
      /\ p2 \in P /\ p2.at = 1 /\ Ends(p2) = 3
      /\ p3 \in P /\ p3.at = 3 /\ Ends(p3) = 4
      /\ p4 \in P /\ p4.at = 4 /\ Ends(p4) = size
  BY <1>6, <1>4 DEF PartIs
<1> HIDE DEF P
<1>8. parts \in Seq(P) /\ DOMAIN parts = 1 .. 4
  BY <1>7
<1>9. parts[1] = p1 /\ parts[2] = p2 /\ parts[3] = p3 /\ parts[4] = p4
  OBVIOUS
<1> HIDE DEF parts
<1>10. \A j \in 1 .. 4 : Ends(parts[j]) <= size
  BY <1>7, <1>6, <1>9
<1>11. ASSUME NEW k \in 1 .. size
       PROVE  \E j \in 1 .. 4 : k \in parts[j].at + 1 .. Ends(parts[j])
  <2>1. k = 1 \/ k \in 2 .. 3 \/ k = 4 \/ k \in 5 .. size
    BY <1>6
  <2> QED BY <1>7, <1>6, <1>9, <2>1
<1> HIDE DEF size
<1> QED BY <1>5, <1>6, <1>8, <1>10, <1>11 DEF Full, Written, list, P

LEMMA UpdateWithLabelWritten ==
    ASSUME FormatInv, m_label # <<>>, NEW type \in Kind, NEW value \in Seq(Wire), type = "b" => value = <<>>
    PROVE  /\ Written(UpdateWithLabel(type, value))
           /\ labelOption # <<>> \/ type # "b" => Full(UpdateWithLabel(type, value))
<1> DEFINE p1 == At(0, <<Command.UPDATE, Option.DATA>>)
           p2 == At(2, Store16(m_id))
           p3 == At(4, <<TypeId[type]>>)
           p4 == At(5, <<RCP_TERMINATOR>>)
           p5 == At(6, <<Option.VALUE>>)
           p6 == At(7, value)
           end == IF type = "b" THEN 6 ELSE 7 + Len(value)
           p7 == At(end, labelOption)
           parts == <<p1, p2, p3, p4, p5, p6, p7>>
           size == end + Len(labelOption)
           list == UpdateWithLabel(type, value)
           P == [at : Nat, bytes : Seq(Wire)]
<1>1. m_id \in Int
  BY BaseAssumption DEF FormatInv, PacketsTypeOK, ValidId
<1>2. Store16(m_id) \in Seq(Wire) /\ Len(Store16(m_id)) = 2
  BY <1>1, BytesStored, OnWire
<1>3. /\ <<Command.UPDATE, Option.DATA>> \in Seq(Wire) /\ <<TypeId[type]>> \in Seq(Wire)
      /\ <<RCP_TERMINATOR>> \in Seq(Wire) /\ <<Option.VALUE>> \in Seq(Wire)
  BY ProtocolNumbers
<1>4. labelOption \in Seq(Wire) /\ Len(labelOption) \in Nat /\ (labelOption # <<>> => Len(labelOption) > 0)
  <2>1. labelOption \in Seq(Wire)
    BY DEF FormatInv
  <2> QED BY <2>1
<1>5. end \in Nat /\ end >= 6 /\ (type # "b" => end = 7 + Len(value)) /\ (type = "b" => end = 6)
      /\ Len(value) \in Nat /\ (type = "b" => Len(value) = 0)
  OBVIOUS
<1> HIDE DEF end
<1>6. /\ PartIs(p1, 0, 0 + 2) /\ PartIs(p2, 2, 2 + 2) /\ PartIs(p3, 4, 4 + 1) /\ PartIs(p4, 5, 5 + 1)
       /\ PartIs(p5, 6, 6 + 1) /\ PartIs(p6, 7, 7 + Len(value)) /\ PartIs(p7, end, end + Len(labelOption))
  <2>1. /\ Len(<<Command.UPDATE, Option.DATA>>) = 2 /\ Len(<<TypeId[type]>>) = 1
        /\ Len(<<RCP_TERMINATOR>>) = 1 /\ Len(<<Option.VALUE>>) = 1
        /\ 0 \in Nat /\ 2 \in Nat /\ 4 \in Nat /\ 5 \in Nat /\ 6 \in Nat /\ 7 \in Nat
    OBVIOUS
  <2> QED BY <1>2, <1>3, <1>4, <1>5, <2>1, PartType
<1>7. list.size = size /\ list.parts = SETUP_UPDATE_PACKET(type) \o <<p6, p7>>
  BY DEF UpdateWithLabel, end
<1> DEFINE roomy == labelOption # <<>> \/ type # "b"
<1>8. size \in Nat \ {0} /\ 6 <= size /\ (roomy => 7 <= size /\ 7 + Len(value) <= size) /\ end <= size
  BY <1>4, <1>5
<1> HIDE DEF roomy
<1> HIDE DEF size, list
<1>9. SETUP_UPDATE_PACKET(type) = <<p1, p2, p3, p4, p5>>
  BY Zenon DEF SETUP_UPDATE_PACKET
<1> HIDE DEF p1, p2, p3, p4, p5, p6, p7
<1>10. /\ p1 \in P /\ p1.at = 0 /\ Ends(p1) = 2
      /\ p2 \in P /\ p2.at = 2 /\ Ends(p2) = 4
      /\ p3 \in P /\ p3.at = 4 /\ Ends(p3) = 5
  BY <1>6 DEF PartIs
<1>11. /\ p4 \in P /\ p4.at = 5 /\ Ends(p4) = 6
      /\ p5 \in P /\ p5.at = 6 /\ Ends(p5) = 7
  BY <1>6 DEF PartIs
<1>12. /\ p6 \in P /\ p6.at = 7 /\ Ends(p6) = 7 + Len(value)
      /\ p7 \in P /\ p7.at = end /\ Ends(p7) = size
  BY <1>6 DEF PartIs, size
<1> HIDE DEF P
<1>13. <<p1, p2, p3, p4, p5>> \o <<p6, p7>> = parts
  BY <1>10, <1>11, <1>12, PartsJoined
<1>14. parts \in Seq(P) /\ DOMAIN parts = 1 .. 7
  BY <1>10, <1>11, <1>12
<1>15. /\ parts[1] = p1 /\ parts[2] = p2 /\ parts[3] = p3 /\ parts[4] = p4
       /\ parts[5] = p5 /\ parts[6] = p6 /\ parts[7] = p7
  OBVIOUS
<1> HIDE DEF parts
<1>16. roomy => \A j \in 1 .. 7 : Ends(parts[j]) <= size
  <2>1. \A j \in 1 .. 7 : j = 1 \/ j = 2 \/ j = 3 \/ j = 4 \/ j = 5 \/ j = 6 \/ j = 7
    OBVIOUS
  <2> QED BY <1>10, <1>11, <1>12, <1>8, <1>15, <2>1
<1>17. ASSUME NEW k \in 1 .. size
       PROVE  \E j \in 1 .. 7 : k \in parts[j].at + 1 .. Ends(parts[j])
  <2>1. k \in 1 .. 2 \/ k \in 3 .. 4 \/ k = 5 \/ k = 6 \/ k = 7 \/ k \in 8 .. 7 + Len(value) \/ k \in end + 1 .. size
    BY <1>5, <1>8
  <2>2. CASE k <= 7
    BY <1>10, <1>11, <1>15, <2>1, <2>2
  <2>3. CASE k > 7
    <3>1. k \in 8 .. 7 + Len(value) \/ k \in end + 1 .. size
      BY <2>1, <2>3
    <3> QED BY <1>12, <1>15, <3>1
  <2> QED BY <2>2, <2>3
<1>18. list.parts = parts
  BY <1>7, <1>9, <1>13
<1> QED BY <1>7, <1>8, <1>14, <1>16, <1>17, <1>18 DEF Full, Written, list, P, roomy

-----------------------------------------------------------------------------
(* Whatever message, it is one list or none, and full but for a bang with a *)
(* label that could not be written.                                        *)

OneFull(lists) == lists = <<>> \/ \E list : lists = <<list>> /\ Full(list)
OneWritten(lists) == lists = <<>> \/ \E list : lists = <<list>> /\ Written(list)

LEMMA PacketFull ==
    ASSUME FormatInv, NEW type \in Kind, NEW value \in Seq(Wire), type = "b" => value = <<>>
    PROVE  /\ OneWritten(Packet(type, value))
           /\ type # "b" \/ m_label = <<>> \/ labelOption # <<>> => OneFull(Packet(type, value))
<1>1. CASE m_label = <<>>
  <2>1. Packet(type, value) = <<UpdateValue(type, value)>>
    BY <1>1, Zenon DEF Packet
  <2>2. Full(UpdateValue(type, value)) /\ Written(UpdateValue(type, value))
    BY UpdateValueFull DEF Full
  <2> QED BY <2>1, <2>2, Zenon DEF OneFull, OneWritten
<1>2. CASE m_label # <<>>
  <2>1. Packet(type, value) = <<UpdateWithLabel(type, value)>>
    BY <1>2, Zenon DEF Packet
  <2>2. /\ Written(UpdateWithLabel(type, value))
        /\ labelOption # <<>> \/ type # "b" => Full(UpdateWithLabel(type, value))
    BY <1>2, UpdateWithLabelWritten
  <2> QED BY <1>2, <2>1, <2>2, Zenon DEF OneFull, OneWritten
<1> QED BY <1>1, <1>2

LEMMA BangFull ==
    ASSUME FormatInv
    PROVE  OneWritten(m_bang) /\ (m_label = <<>> \/ labelOption # <<>> => OneFull(m_bang))
<1>1. "b" \in Kind /\ <<>> \in Seq(Wire)
  BY DEF Kind
<1>2. /\ OneWritten(Packet("b", <<>>))
      /\ m_label = <<>> \/ labelOption # <<>> => OneFull(Packet("b", <<>>))
  BY <1>1, PacketFull
<1> QED BY <1>2 DEF m_bang, OneFull, OneWritten

LEMMA SymbolFull ==
    ASSUME FormatInv, NEW str \in Seq(Byte)
    PROVE  OneFull(m_symbol(str))
<1> DEFINE value == Store32(Len(str)) \o Numbers(str)
<1>1. Len(str) \in Int
  OBVIOUS
<1>2. Store32(Len(str)) \in Seq(Wire) /\ Numbers(str) \in Seq(Wire)
  BY <1>1, BytesStored, OnWire
<1>3. value \in Seq(Wire) /\ "s" \in Kind /\ "s" # "b"
  BY <1>2 DEF Kind
<1> HIDE DEF value
<1>4. OneFull(Packet("s", value))
  BY <1>3, PacketFull
<1> QED BY <1>4 DEF m_symbol, OneFull, value

LEMMA NumberFull ==
    ASSUME FormatInv, NEW v \in Int
    PROVE  /\ OneFull(FloatPacket(v))
           /\ OneFull(Packet("i", Store32(v)))
           /\ OneFull(Packet("t", <<IF v > 0 THEN 1 ELSE 0>>))
<1>1. Store32(v) \in Seq(Wire)
  BY BytesStored, OnWire
<1>2. <<IF v > 0 THEN 1 ELSE 0>> \in Seq(Wire)
  BY ProtocolNumbers DEF RCP_TERMINATOR
<1>3. "i" \in Kind /\ "f" \in Kind /\ "t" \in Kind /\ "i" # "b" /\ "f" # "b" /\ "t" # "b"
  BY DEF Kind
<1>4. OneFull(Packet("f", Store32(v))) /\ OneFull(Packet("i", Store32(v)))
  BY <1>1, <1>3, PacketFull
<1>5. OneFull(Packet("t", <<IF v > 0 THEN 1 ELSE 0>>))
  BY <1>2, <1>3, PacketFull
<1> QED BY <1>4, <1>5 DEF FloatPacket

LEMMA IntFull ==
    ASSUME FormatInv, NEW v \in Int, m_type = "s" => to_string(2 * v) \in Seq(Byte)
    PROVE  OneFull(m_int(v))
<1>1. m_type \in {"auto", "i", "t", "f", "s", "b"}
  BY DEF FormatInv, PacketsTypeOK, Kind
<1>2. CASE m_type \in {"auto", "i"}
  <2>1. m_int(v) = Packet("i", Store32(v))
    BY <1>2 DEF m_int
  <2> QED BY <2>1, NumberFull
<1>3. CASE m_type = "t"
  <2>1. m_int(v) = Packet("t", <<IF v > 0 THEN 1 ELSE 0>>)
    BY <1>3 DEF m_int
  <2> QED BY <2>1, NumberFull
<1>4. CASE m_type = "f"
  <2>1. m_int(v) = FloatPacket(2 * v) /\ 2 * v \in Int
    BY <1>4 DEF m_int
  <2> QED BY <2>1, NumberFull
<1>5. CASE m_type = "s"
  <2>1. m_int(v) = m_symbol(to_string(2 * v))
    BY <1>5 DEF m_int
  <2> QED BY <1>5, <2>1, SymbolFull
<1>6. CASE m_type = "b"
  <2>1. m_int(v) = <<>>
    BY <1>6 DEF m_int
  <2> QED BY <2>1 DEF OneFull
<1> QED BY <1>1, <1>2, <1>3, <1>4, <1>5, <1>6

LEMMA FloatFull ==
    ASSUME FormatInv, NEW h \in Int, m_type = "s" => to_string(h) \in Seq(Byte)
    PROVE  OneFull(m_float(h))
<1>1. m_type \in {"auto", "i", "t", "f", "s", "b"}
  BY DEF FormatInv, PacketsTypeOK, Kind
<1>2. CASE m_type \in {"auto", "f"}
  <2>1. m_float(h) = FloatPacket(h)
    BY <1>2 DEF m_float
  <2> QED BY <2>1, NumberFull
<1>3. CASE m_type \in {"i", "t"}
  <2>1. m_float(h) = m_int(Truncated(h))
    BY <1>3 DEF m_float
  <2>2. Truncated(h) \in Int /\ m_type # "s"
    BY <1>3 DEF Truncated
  <2> QED BY <2>1, <2>2, IntFull
<1>4. CASE m_type = "s"
  <2>1. m_float(h) = m_symbol(to_string(h))
    BY <1>4 DEF m_float
  <2> QED BY <1>4, <2>1, SymbolFull
<1>5. CASE m_type = "b"
  <2>1. m_float(h) = <<>>
    BY <1>5 DEF m_float
  <2> QED BY <2>1 DEF OneFull
<1> QED BY <1>1, <1>2, <1>3, <1>4, <1>5

LEMMA FormattedFull ==
    ASSUME FormatInv, NEW msg \in Message
    PROVE  /\ OneWritten(Formatted(msg))
           /\ msg.kind # "b" \/ m_label = <<>> \/ labelOption # <<>> => OneFull(Formatted(msg))
<1>0. \A lists : OneFull(lists) => OneWritten(lists)
  BY DEF OneFull, OneWritten, Full
<1>1. CASE msg.kind = "b"
  <2>1. Formatted(msg) = m_bang
    BY <1>1 DEF Formatted
  <2> QED BY <1>1, <2>1, BangFull
<1>2. CASE \E v \in IntArg : msg = [kind |-> "i", arg |-> <<v>>]
  <2>1. PICK v \in IntArg : msg = [kind |-> "i", arg |-> <<v>>]
    BY <1>2
  <2>2. Formatted(msg) = m_int(v)
    BY <2>1 DEF Formatted
  <2>3. v \in Int /\ to_string(2 * v) \in Seq(Byte)
    <3>1. 2 * v \in FloatArg \cup {2 * w : w \in IntArg}
      OBVIOUS
    <3>2. \A h \in FloatArg \cup {2 * w : w \in IntArg} : to_string(h) \in Seq(Byte)
      BY SymbolsAssumption, Zenon
    <3>3. to_string(2 * v) \in Seq(Byte)
      BY <3>1, <3>2, Zenon
    <3> QED BY <3>3, SymbolsAssumption
  <2>4. OneFull(Formatted(msg))
    BY <2>2, <2>3, IntFull
  <2> QED BY <1>0, <2>4
<1>3. CASE \E h \in FloatArg : msg = [kind |-> "f", arg |-> <<h>>]
  <2>1. PICK h \in FloatArg : msg = [kind |-> "f", arg |-> <<h>>]
    BY <1>3
  <2>2. Formatted(msg) = m_float(h)
    BY <2>1 DEF Formatted
  <2>3. h \in Int /\ to_string(h) \in Seq(Byte)
    BY SymbolsAssumption
  <2>4. OneFull(Formatted(msg))
    BY <2>2, <2>3, FloatFull
  <2> QED BY <1>0, <2>4
<1>4. CASE \E s \in StringArg : msg = [kind |-> "s", arg |-> s]
  <2>1. PICK s \in StringArg : msg = [kind |-> "s", arg |-> s]
    BY <1>4
  <2>2. Formatted(msg) = m_symbol(s)
    BY <2>1 DEF Formatted
  <2>3. s \in Seq(Byte)
    BY SymbolsAssumption
  <2>4. OneFull(Formatted(msg))
    BY <2>2, <2>3, SymbolFull
  <2> QED BY <1>0, <2>4
<1>5. \/ msg = [kind |-> "b", arg |-> <<>>]
      \/ \E v \in IntArg : msg = [kind |-> "i", arg |-> <<v>>]
      \/ \E h \in FloatArg : msg = [kind |-> "f", arg |-> <<h>>]
      \/ \E s \in StringArg : msg = [kind |-> "s", arg |-> s]
  BY DEF Message
<1>6. msg = [kind |-> "b", arg |-> <<>>] => msg.kind = "b"
  OBVIOUS
<1> QED BY <1>1, <1>2, <1>3, <1>4, <1>5, <1>6

LEMMA FitsAll ==
    ASSUME FormatInv
    PROVE  ListFits
<1> SUFFICES ASSUME NEW msg \in Message, NEW i \in DOMAIN Formatted(msg)
             PROVE  LET list == Formatted(msg)[i] IN
                    /\ Overruns(list) => msg.kind = "b" /\ m_label # <<>> /\ labelOption = <<>>
                    /\ Symbol \notin {Filled(list)[k] : k \in 1 .. list.size}
  BY Zenon DEF ListFits
<1> DEFINE list == Formatted(msg)[i]
           roomy == msg.kind # "b" \/ m_label = <<>> \/ labelOption # <<>>
<1>1. Written(list) /\ (roomy => Full(list))
  <2> DEFINE lists == Formatted(msg)
  <2>1. OneWritten(lists) /\ (roomy => OneFull(lists))
    BY FormattedFull
  <2> HIDE DEF lists, roomy
  <2>2. i \in DOMAIN lists
    BY DEF lists
  <2>3. lists # <<>>
    BY <2>2
  <2>4. PICK one : lists = <<one>> /\ Written(one)
    BY <2>1, <2>3 DEF OneWritten
  <2>5. lists[i] = one
    BY <2>2, <2>4
  <2>6. ASSUME roomy
        PROVE  Full(one)
    <3>1. PICK other : lists = <<other>> /\ Full(other)
      BY <2>1, <2>3, <2>6 DEF OneFull
    <3> QED BY <2>4, <3>1
  <2> QED BY <2>4, <2>5, <2>6 DEF lists
<1> HIDE DEF list
<1>2. \A k \in 1 .. list.size : Filled(list)[k] \in Wire
  BY <1>1, WrittenIsFilled
<1>3. Symbol \notin Wire
  BY AtomAssumption, BaseAssumption DEF Wire
<1>4. roomy => ~Overruns(list)
  <2> HIDE DEF roomy
  <2>1. ASSUME Full(list), NEW j \in DOMAIN list.parts
        PROVE  ~(Ends(list.parts[j]) > list.size)
    <3> DEFINE S == [at : Nat, bytes : Seq(Wire)]
               parts == list.parts
    <3>0. list.size \in Nat /\ parts \in Seq(S) /\ Ends(parts[j]) <= list.size
      BY <2>1, Zenon DEF Full, Written
    <3>a. \A X : \A p \in Seq(X) : \A k \in DOMAIN p : p[k] \in X
      OBVIOUS
    <3>1. list.size \in Nat /\ list.parts[j] \in [at : Nat, bytes : Seq(Wire)] /\ Ends(list.parts[j]) <= list.size
      BY <2>1, <3>0, <3>a, Zenon
    <3>2. Ends(list.parts[j]) \in Nat
      BY <3>1 DEF Ends
    <3> QED BY <3>1, <3>2
  <2> QED BY <1>1, <2>1 DEF Overruns
<1>5. Symbol \notin {Filled(list)[k] : k \in 1 .. list.size}
  <2> DEFINE atoms == Filled(list)
  <2> HIDE DEF atoms
  <2>1. \A k \in 1 .. list.size : atoms[k] # Symbol
    BY <1>2, <1>3 DEF atoms
  <2>2. Symbol \notin {atoms[k] : k \in 1 .. list.size}
    BY <2>1
  <2> QED BY <2>2 DEF atoms
<1> QED BY <1>4, <1>5 DEF list

-----------------------------------------------------------------------------
(* The invariant of rcp.format.                                            *)

LEMMA FormatInitial ==
    ASSUME PacketsInit
    PROVE  FormatInv
<1>1. ValidId(1)
  <2>1. Base * 2 <= Base * Base /\ Base * Base \in Int
    BY BaseAssumption, Times
  <2> DEFINE s == Base * Base
  <2>2. s \in Nat /\ s >= 4
    BY <2>1, BaseAssumption
  <2> HIDE DEF s
  <2>3. 1 \in -(s \div 2) .. (s \div 2) - 1
    BY <2>2
  <2> QED BY <2>3 DEF ValidId, Range16, s
<1>2. ValidId(m_id) /\ source \in {"rcp.server", "rcp.format"}
  BY <1>1 DEF PacketsInit
<1>3. m_type = "auto" /\ m_label = <<>> /\ labelOption = <<>> /\ gathered = <<>> /\ packets = 0
  BY DEF PacketsInit
<1>4. PacketsTypeOK
  BY <1>2, <1>3 DEF PacketsTypeOK
<1> QED BY <1>3, <1>4 DEF FormatInv

\* As much of a label as its option holds.
Text(label) == SubSeq(label, 1, IF Len(label) < Base THEN Len(label) ELSE Base - 1)

LEMMA TextType ==
    ASSUME NEW label \in Seq(Byte)
    PROVE  /\ Text(label) \in Seq(Byte) /\ Len(Text(label)) < Base
           /\ Len(label) < Base => Text(label) = label
<1> DEFINE n == IF Len(label) < Base THEN Len(label) ELSE Base - 1
<1>1. n \in Nat /\ n <= Len(label) /\ n < Base /\ (Len(label) < Base => n = Len(label))
  BY BaseAssumption
<1>2. Text(label) = SubSeq(label, 1, n)
  BY Zenon DEF Text
<1> HIDE DEF n
<1>3. SubSeq(label, 1, n) \in Seq(Byte) /\ Len(SubSeq(label, 1, n)) = n
  BY <1>1
<1>4. SubSeq(label, 1, Len(label)) = label
  OBVIOUS
<1> QED BY <1>1, <1>2, <1>3, <1>4

\* A label becomes an option with numbers that a list may have.
LEMMA LabelWritten ==
    ASSUME NEW label \in Label, setLabel(label)
    PROVE  labelOption' \in Seq(Wire) /\ m_label' \in Seq(Byte)
<1> DEFINE a == <<Option.LABEL>>
           text == Text(label)
           b == <<Len(text)>>
           z == <<0>>
           t == <<RCP_TERMINATOR, RCP_TERMINATOR>>
           all == a \o AnyLanguage \o b \o text \o z \o t
<1>1. label \in Seq(Byte) /\ text \in Seq(Byte) /\ Len(text) \in Byte
  <2>1. label \in Seq(Byte)
    BY SymbolsAssumption
  <2>2. text \in Seq(Byte) /\ Len(text) < Base
    BY <2>1, TextType
  <2> HIDE DEF text
  <2> QED BY <2>1, <2>2, BaseAssumption DEF Byte
<1>2. AnyLanguage \in Seq(Byte)
  <2>1. AnyLanguage \in [1 .. 3 -> Byte]
    BY PacketsAssumption
  <2>2. \A n \in Nat : \A f \in [1 .. n -> Byte] : f \in Seq(Byte)
    OBVIOUS
  <2>3. 3 \in Nat
    OBVIOUS
  <2> QED BY <2>1, <2>2, <2>3, Zenon
<1>3. a \in Seq(Byte) /\ b \in Seq(Byte) /\ z \in Seq(Byte) /\ t \in Seq(Byte) /\ Len(t) = 2
  BY <1>1, ProtocolNumbers DEF RCP_TERMINATOR
<1>4. (labelOption' = Numbers(all) \/ labelOption' = <<>>) /\ m_label' = label
  BY Zenon DEF setLabel, rcp_option_write, Text
<1> HIDE DEF a, b, z, t, text
<1>5. ASSUME NEW x \in Seq(Byte), NEW y \in Seq(Byte)
      PROVE  x \o y \in Seq(Byte) /\ Len(x \o y) = Len(x) + Len(y)
  OBVIOUS
<1>6. a \o AnyLanguage \in Seq(Byte)
  BY <1>2, <1>3, <1>5
<1>7. a \o AnyLanguage \o b \in Seq(Byte)
  BY <1>3, <1>5, <1>6
<1>8. a \o AnyLanguage \o b \o text \in Seq(Byte)
  BY <1>1, <1>5, <1>7
<1>9. a \o AnyLanguage \o b \o text \o z \in Seq(Byte)
  BY <1>3, <1>5, <1>8
<1> DEFINE most == a \o AnyLanguage \o b \o text \o z
<1>10. all \in Seq(Byte) /\ Len(all) = Len(most) + 2 /\ Len(most) \in Nat
  <2>1. most \in Seq(Byte)
    BY <1>9
  <2> HIDE DEF most
  <2>2. most \o t \in Seq(Byte) /\ Len(most \o t) = Len(most) + Len(t)
    BY <1>3, <1>5, <2>1, Zenon
  <2>3. Len(most) \in Nat
    BY <2>1
  <2> QED BY <1>3, <2>2, <2>3, Zenon DEF most
<1> HIDE DEF all, most
<1>11. Numbers(all) \in Seq(Wire) /\ Len(Numbers(all)) = Len(all)
  BY <1>10, OnWire
<1>12. <<>> \in Seq(Wire)
  OBVIOUS
<1> QED BY <1>1, <1>4, <1>11, <1>12

\* The packet comes behind what is gathered.
LEMMA GatheredMore ==
    ASSUME FormatInv, NEW msg \in Message, Format(msg)
    PROVE  \/ Formatted(msg) = <<>> /\ gathered' = gathered /\ packets' = packets
           \/ \E list : /\ Formatted(msg) = <<list>> /\ Written(list)
                        /\ gathered' = gathered \o Filled(list) /\ packets' = packets + 1
<1> DEFINE lists == Formatted(msg)
<1>1. /\ gathered' = FlattenSeq(<<gathered>> \o [i \in DOMAIN lists |-> Filled(lists[i])])
      /\ packets' = packets + Len(lists)
  BY Zenon DEF Format
<1>2. gathered \in Seq(Wire) /\ packets \in Nat /\ (gathered = <<>> <=> packets = 0)
  BY DEF FormatInv, PacketsTypeOK
<1>3. OneWritten(lists)
  BY FormattedFull
<1> HIDE DEF lists
<1>4. <<>> \in Seq(Seq(Wire)) /\ <<gathered>> \in Seq(Seq(Wire)) /\ <<>> \in Seq(Wire) /\ Append(<<>>, gathered) = <<gathered>>
  BY <1>2
<1>5. FlattenSeq(<<gathered>>) = gathered
  <2>1. FlattenSeq(Append(<<>>, gathered)) = FlattenSeq(<<>>) \o gathered /\ FlattenSeq(<<>>) = <<>>
    BY <1>2, <1>4, FlattenAppend
  <2>2. <<>> \o gathered = gathered
    BY <1>2
  <2> QED BY <1>4, <2>1, <2>2, Zenon
<1>6. CASE lists = <<>>
  <2>1. [i \in DOMAIN <<>> |-> Filled(<<>>[i])] = <<>>
    OBVIOUS
  <2>2. <<gathered>> \o <<>> = <<gathered>> /\ Len(<<>>) = 0
    BY <1>4
  <2>3. gathered' = gathered
    BY <1>1, <1>5, <1>6, <2>1, <2>2, Zenon
  <2>4. packets' = packets
    BY <1>1, <1>2, <1>6
  <2> QED BY <1>6, <2>3, <2>4 DEF lists
<1>7. CASE \E list : lists = <<list>> /\ Written(list)
  <2>1. PICK list : lists = <<list>> /\ Written(list)
    BY <1>7
  <2> DEFINE atoms == Filled(list)
  <2>2. atoms \in Seq(Wire) /\ Len(atoms) \in Nat \ {0}
    BY <2>1, WrittenIsFilled DEF Written
  <2>3. [i \in DOMAIN <<list>> |-> Filled(<<list>>[i])] = <<atoms>>
    <3>1. DOMAIN <<list>> = {1} /\ <<list>>[1] = list
      OBVIOUS
    <3>2. \A i \in DOMAIN <<list>> : Filled(<<list>>[i]) = atoms
      BY <3>1
    <3> HIDE DEF atoms
    <3>3. [i \in DOMAIN <<list>> |-> atoms] = <<atoms>>
      OBVIOUS
    <3> QED BY <3>2, <3>3, Zenon
  <2> HIDE DEF atoms
  <2>4. <<gathered>> \o <<atoms>> = Append(<<gathered>>, atoms)
    BY <1>2, <2>2
  <2>5. FlattenSeq(Append(<<gathered>>, atoms)) = FlattenSeq(<<gathered>>) \o atoms
    BY <1>4, <2>2, FlattenAppend
  <2>6. gathered' = gathered \o atoms
    BY <1>1, <1>5, <2>1, <2>3, <2>4, <2>5, Zenon
  <2>7. packets' = packets + 1
    BY <1>1, <2>1
  <2> QED BY <2>1, <2>6, <2>7, Zenon DEF atoms, lists
<1> QED BY <1>3, <1>6, <1>7, Zenon DEF OneWritten

\* What is gathered stays a list of numbers.
LEMMA Gathered ==
    ASSUME FormatInv, NEW msg \in Message, Format(msg)
    PROVE  gathered' \in Seq(Wire) /\ packets' \in Nat /\ (gathered' = <<>> <=> packets' = 0)
<1>1. gathered \in Seq(Wire) /\ packets \in Nat /\ (gathered = <<>> <=> packets = 0)
  BY DEF FormatInv, PacketsTypeOK
<1>2. CASE gathered' = gathered /\ packets' = packets
  BY <1>1, <1>2
<1>3. CASE \E list : Written(list) /\ gathered' = gathered \o Filled(list) /\ packets' = packets + 1
  <2>1. PICK list : Written(list) /\ gathered' = gathered \o Filled(list) /\ packets' = packets + 1
    BY <1>3
  <2> DEFINE atoms == Filled(list)
  <2>2. atoms \in Seq(Wire) /\ Len(atoms) \in Nat \ {0}
    BY <2>1, WrittenIsFilled DEF Written
  <2> HIDE DEF atoms
  <2>3. gathered \o atoms \in Seq(Wire) /\ gathered \o atoms # <<>>
    BY <1>1, <2>2
  <2> QED BY <1>1, <2>1, <2>3 DEF atoms
<1> QED BY <1>2, <1>3, GatheredMore

LEMMA FormatStep ==
    ASSUME FormatInv, [PacketsNext]_packetVars
    PROVE  FormatInv'
<1> DEFINE Kept == UNCHANGED <<source, formatVars, gathered, packets>>
           Settings == UNCHANGED <<source, gathered, packets>>
<1>1. ASSUME Kept
      PROVE  FormatInv'
  BY <1>1 DEF FormatInv, PacketsTypeOK, ValidId, formatVars
<1>2. CASE source = "rcp.server" /\ Next /\ UNCHANGED <<source, formatVars, gathered, packets, historyVars>>
  BY <1>1, <1>2
<1>3. ASSUME NEW n \in IdArgs, m_setId(n)
      PROVE  FormatInv'
  BY <1>3 DEF m_setId, Setting, Quiet, FormatInv, PacketsTypeOK, ValidId
<1>4. ASSUME NEW t \in Kind \cup {"auto"}, setType(t)
      PROVE  FormatInv'
  BY <1>4 DEF setType, Setting, Quiet, FormatInv, PacketsTypeOK, ValidId
<1>5. ASSUME NEW label \in Label, setLabel(label)
      PROVE  FormatInv'
  <2>1. labelOption' \in Seq(Wire) /\ m_label' \in Seq(Byte)
    BY <1>5, LabelWritten
  <2>2. m_id' = m_id /\ m_type' = m_type /\ UNCHANGED <<source, gathered, packets>>
    BY <1>5 DEF setLabel, Setting
  <2> QED BY <2>1, <2>2 DEF FormatInv, PacketsTypeOK, ValidId
<1>6. CASE clearLabel
  <2>1. <<>> \in Seq(Byte)
    OBVIOUS
  <2> QED BY <1>6, <2>1 DEF clearLabel, Setting, FormatInv, PacketsTypeOK, ValidId
<1>7. ASSUME NEW msg \in Message, Format(msg)
      PROVE  FormatInv'
  <2>1. gathered' \in Seq(Wire) /\ packets' \in Nat /\ (gathered' = <<>> <=> packets' = 0)
    BY <1>7, Gathered
  <2>2. source = "rcp.format" /\ UNCHANGED <<source, formatVars>>
    BY <1>7 DEF Format
  <2> QED BY <2>1, <2>2 DEF FormatInv, PacketsTypeOK, ValidId, formatVars
<1>8. CASE ToParse \/ ToLine
  <2>1. gathered' = <<>> /\ packets' = 0 /\ UNCHANGED <<source, formatVars>>
    BY <1>8 DEF ToParse, ToLine
  <2>2. <<>> \in Seq(Wire)
    OBVIOUS
  <2> QED BY <2>1, <2>2 DEF FormatInv, PacketsTypeOK, ValidId, formatVars
<1>9. ASSUME NEW n \in 1 .. Len(stream), DeliverToParse(n)
      PROVE  FormatInv'
  <2>1. Kept
    BY <1>9 DEF DeliverToParse
  <2> QED BY <1>1, <2>1
<1>10. ASSUME NEW g \in Given, ParseGiven(g)
       PROVE  FormatInv'
  <2>1. Kept
    BY <1>10 DEF ParseGiven
  <2> QED BY <1>1, <2>1
<1>11. CASE Forget
  <2>1. Kept
    BY <1>11 DEF Forget
  <2> QED BY <1>1, <2>1
<1>12. CASE UNCHANGED packetVars
  <2>1. Kept
    BY <1>12 DEF packetVars
  <2> QED BY <1>1, <2>1
<1> QED BY <1>2, <1>3, <1>4, <1>5, <1>6, <1>7, <1>8, <1>9, <1>10, <1>11, <1>12 DEF PacketsNext

LEMMA FormatInvariant == PacketsSpec => []FormatInv
<1>1. PacketsInit => FormatInv
  BY FormatInitial
<1>2. FormatInv /\ [PacketsNext]_packetVars => FormatInv'
  BY FormatStep
<1> QED BY <1>1, <1>2, PTL DEF PacketsSpec

\* An id is one a packet can have, the type is one rcp.format knows, and what is
\* gathered is whole packets, after any messages to rcp.format (RcpFormat.cpp:412-460).
THEOREM FormatTypeCorrect == PacketsSpec => []PacketsTypeOK
<1>1. FormatInv => PacketsTypeOK
  BY DEF FormatInv
<1> QED BY <1>1, FormatInvariant, PTL

\* Whatever the id, the label, the type and the value, of any length, and whether or
\* not the label could be written as an option: every atom of the list is written,
\* and none beyond its end unless it is a bang with a label that could not be
\* written (RcpFormat.cpp:64-71, 142-354, 494-508).
THEOREM EveryListFits == PacketsSpec => []ListFits
<1>1. FormatInv => ListFits
  BY FitsAll
<1> QED BY <1>1, FormatInvariant, PTL

-----------------------------------------------------------------------------
(* The line with either object at its beginning.                           *)

\* rcp.format sends nothing that is counted as sent.
FormatLine ==
    /\ framing \in {"slip", "size", "ws"} /\ sent = <<>> /\ received = <<>>
    /\ stream \in Seq(Wire) /\ frame \in Seq(Byte) /\ escaped \in BOOLEAN

BothInv ==
    /\ FormatInv
    /\ source = "rcp.server" => LineTypes /\ LineInv
    /\ source = "rcp.format" => FormatLine

\* A list that is gathered, as an encoder sends it.
LEMMA GatheredSent ==
    ASSUME NEW list \in Seq(Wire)
    PROVE  slipencoder(list) \in Seq(Wire) /\ sizeprefix(list) \in Seq(Wire)
<1>1. Bytes(list) \in Seq(Byte)
  BY OnlyAll DEF Bytes
<1>2. slipencoder(list) \in Seq(Wire)
  <2>1. <<>> \in Seq(Payload)
    OBVIOUS
  <2>2. slipencoder(list) \in Seq(Byte)
    BY <1>1, <2>1, SlipArrives
  <2> QED BY <2>2, OnWire
<1>3. SizeBytes(Len(list)) \in Seq(Byte)
  <2>1. Len(list) \in Int
    OBVIOUS
  <2> QED BY <2>1, BytesStored DEF Store32
<1>4. Numbers(SizeBytes(Len(list))) \in Seq(Wire)
  BY <1>3, OnWire
<1>5. Numbers(SizeBytes(Len(list))) \o list \in Seq(Wire)
  BY <1>4
<1> QED BY <1>2, <1>5 DEF sizeprefix

LEMMA DecodedType ==
    ASSUME NEW list \in Seq(Wire), frame \in Seq(Byte), escaped \in BOOLEAN
    PROVE  Decoded(list).frame \in Seq(Byte) /\ Decoded(list).escaped \in BOOLEAN
<1> DEFINE end == After(framing, Decoder(frame, escaped, <<>>), Bytes(list))
           kept == [i \in DOMAIN end.packets |-> Numbers(end.packets[i])]
<1>1. Bytes(list) \in Seq(Byte)
  BY OnlyAll DEF Bytes
<1>2. Decoder(frame, escaped, <<>>) \in State
  BY DEF Decoder, State
<1>3. end \in State
  <2> HIDE DEF end
  <2>1. \A start \in State, bytes \in Seq(Byte) : After(framing, start, bytes) \in State
    BY AfterType
  <2> QED BY <1>1, <1>2, <2>1, Zenon DEF end
<1>4. Decoded(list) = IF framing = "slip" THEN end ELSE [end EXCEPT !.packets = kept]
  BY Zenon DEF Decoded
<1> HIDE DEF end, kept
<1> QED BY <1>3, <1>4 DEF State

LEMMA BothInitial ==
    ASSUME PacketsInit
    PROVE  BothInv
<1>1. Init
  BY DEF PacketsInit
<1>2. FormatLine
  <2>1. <<>> \in Seq(Wire) /\ <<>> \in Seq(Byte)
    OBVIOUS
  <2> QED BY <1>1, <2>1 DEF Init, FormatLine
<1> QED BY <1>1, <1>2, FormatInitial, LineInitial DEF BothInv

\* The steps of either object.
LEMMA StepsApart ==
    ASSUME FormatInv, [PacketsNext]_packetVars
    PROVE  \/ source = "rcp.server" /\ source' = source /\ [Next]_vars
           \/ /\ source = "rcp.format" /\ source' = source
              /\ UNCHANGED vars \/ ToLine \/ \E n \in 1 .. Len(stream) : DeliverToParse(n)
<1>0. source \in {"rcp.server", "rcp.format"}
  BY DEF FormatInv, PacketsTypeOK
<1> DEFINE Quietly == source = "rcp.format" /\ source' = source /\ UNCHANGED vars
<1>1. ASSUME source = "rcp.server" /\ Next /\ UNCHANGED <<source, formatVars, gathered, packets, historyVars>>
      PROVE  source = "rcp.server" /\ source' = source /\ [Next]_vars
  BY <1>1
<1>2. ASSUME Setting
      PROVE  Quietly
  BY <1>2 DEF Setting, Quiet, vars
<1>3. ASSUME NEW n \in IdArgs, m_setId(n)
      PROVE  Quietly
  BY <1>2, <1>3 DEF m_setId
<1>4. ASSUME NEW t \in Kind \cup {"auto"}, setType(t)
      PROVE  Quietly
  BY <1>2, <1>4 DEF setType
<1>5. ASSUME NEW label \in Label, setLabel(label)
      PROVE  Quietly
  BY <1>2, <1>5 DEF setLabel
<1>6. ASSUME clearLabel
      PROVE  Quietly
  BY <1>2, <1>6 DEF clearLabel
<1>7. ASSUME NEW msg \in Message, Format(msg)
      PROVE  Quietly
  BY <1>7 DEF Format, vars
<1>8. ASSUME ToParse
      PROVE  Quietly
  BY <1>0, <1>8 DEF ToParse, FormatInv, vars
<1>9. ASSUME ToLine
      PROVE  source = "rcp.format" /\ source' = source
  BY <1>0, <1>9 DEF ToLine, FormatInv
<1>10. ASSUME NEW n \in 1 .. Len(stream), DeliverToParse(n)
       PROVE  source = "rcp.format" /\ source' = source
  BY <1>10 DEF DeliverToParse
<1>11. ASSUME NEW g \in Given, ParseGiven(g)
       PROVE  Quietly
  BY <1>11 DEF ParseGiven, Quiet, vars
<1>12. ASSUME Forget
       PROVE  Quietly
  BY <1>12 DEF Forget, vars
<1>13. ASSUME UNCHANGED packetVars
       PROVE  source' = source /\ UNCHANGED vars
  BY <1>13 DEF packetVars
<1> HIDE DEF Quietly
<1>14. Quietly \/ (source' = source /\ UNCHANGED vars)
       \/ (source = "rcp.server" /\ source' = source /\ [Next]_vars)
       \/ (source = "rcp.format" /\ source' = source /\ (ToLine \/ \E n \in 1 .. Len(stream) : DeliverToParse(n)))
  BY <1>1, <1>3, <1>4, <1>5, <1>6, <1>7, <1>8, <1>9, <1>10, <1>11, <1>12, <1>13 DEF PacketsNext
<1> QED BY <1>0, <1>14 DEF Quietly

LEMMA FormatLineStep ==
    ASSUME FormatInv, FormatLine, ToLine \/ \E n \in 1 .. Len(stream) : DeliverToParse(n)
    PROVE  FormatLine' /\ UNCHANGED <<sent, received>>
<1>1. CASE ToLine
  <2>1. gathered \in Seq(Wire)
    BY DEF FormatInv
  <2>2. slipencoder(gathered) \in Seq(Wire) /\ sizeprefix(gathered) \in Seq(Wire)
    BY <2>1, GatheredSent
  <2>3. UNCHANGED <<framing, sent, received, frame, escaped>>
    BY <1>1 DEF ToLine
  <2>4. stream' = slipencoder(gathered) \/ stream' = sizeprefix(gathered) \/ stream' = stream
    BY <1>1 DEF ToLine
  <2> QED BY <2>2, <2>3, <2>4 DEF FormatLine
<1>2. ASSUME NEW n \in 1 .. Len(stream), DeliverToParse(n)
      PROVE  FormatLine' /\ UNCHANGED <<sent, received>>
  <2> DEFINE list == SubSeq(stream, 1, n)
             rest == SubSeq(stream, n + 1, Len(stream))
  <2>1. list \in Seq(Wire) /\ rest \in Seq(Wire)
    BY DEF FormatLine
  <2>2. frame' = Decoded(list).frame /\ escaped' = Decoded(list).escaped /\ stream' = rest
    BY <1>2 DEF DeliverToParse
  <2>3. UNCHANGED <<framing, sent, received>>
    BY <1>2 DEF DeliverToParse
  <2> HIDE DEF list, rest
  <2>4. Decoded(list).frame \in Seq(Byte) /\ Decoded(list).escaped \in BOOLEAN
    BY <2>1, DecodedType DEF FormatLine
  <2> QED BY <2>1, <2>2, <2>3, <2>4 DEF FormatLine
<1> QED BY <1>1, <1>2

LEMMA BothStep ==
    ASSUME ~CharIsSigned, BothInv, [PacketsNext]_packetVars
    PROVE  BothInv' /\ [Line!Next]_(Line!lineVars)
<1>0. FormatInv /\ FormatInv'
  BY FormatStep DEF BothInv
<1>1. CASE source = "rcp.server" /\ source' = source /\ [Next]_vars
  <2>1. LineTypes /\ LineInv
    BY <1>1 DEF BothInv
  <2>2. LineTypes' /\ LineInv'
    BY <1>1, <2>1, LineStep
  <2>3. [Line!Next]_(Line!lineVars)
    BY <1>1, <2>1, AbstractStep
  <2>4. source' # "rcp.format"
    BY <1>1
  <2> QED BY <1>0, <2>2, <2>3, <2>4 DEF BothInv
<1>2. CASE source = "rcp.format" /\ source' = source /\ UNCHANGED vars
  <2>1. FormatLine /\ FormatLine'
    BY <1>2 DEF BothInv, FormatLine, vars
  <2>2. UNCHANGED <<sent, received>> /\ source' # "rcp.server"
    BY <1>2 DEF vars
  <2> QED BY <1>0, <2>1, <2>2 DEF BothInv, Line!lineVars
<1>3. CASE source = "rcp.format" /\ source' = source /\ (ToLine \/ \E n \in 1 .. Len(stream) : DeliverToParse(n))
  <2>1. FormatLine
    BY <1>3 DEF BothInv
  <2>2. FormatLine' /\ UNCHANGED <<sent, received>> /\ source' # "rcp.server"
    BY <1>0, <1>3, <2>1, FormatLineStep
  <2> QED BY <1>0, <2>2 DEF BothInv, Line!lineVars
<1> QED BY <1>0, <1>1, <1>2, <1>3, StepsApart

LEMMA BothInvariant == ASSUME ~CharIsSigned PROVE PacketsSpec => []BothInv
<1>1. PacketsInit => BothInv
  BY BothInitial
<1>2. BothInv /\ [PacketsNext]_packetVars => BothInv'
  BY BothStep
<1> QED BY <1>1, <1>2, PTL DEF PacketsSpec

LEMMA BothEnds ==
    ASSUME BothInv
    PROVE  TypeOK /\ Intact /\ Arrives
<1>1. CASE source = "rcp.server"
  BY <1>1, WholeAndInOrder DEF BothInv
<1>2. CASE source = "rcp.format"
  <2>1. FormatLine
    BY <1>2 DEF BothInv
  <2>2. <<>> \in Seq(Seq(Byte)) /\ IsPrefix(<<>>, <<>>)
    BY DEF IsPrefix
  <2> QED BY <2>1, <2>2 DEF FormatLine, TypeOK, Intact, Arrives, Wire
<1> QED BY <1>1, <1>2 DEF BothInv, FormatInv, PacketsTypeOK

\* The same with rcp.format and rcp.parse at the ends, or the transporters.
THEOREM BothTypeCorrect == ASSUME ~CharIsSigned PROVE PacketsSpec => []TypeOK
<1>1. BothInv => TypeOK
  BY BothEnds
<1> QED BY <1>1, BothInvariant, PTL

\* The objects that frame packets serve rcp.format as they do the transporters: what
\* is sent arrives whole and in order (SlipDecoder.cpp:99-124, SPPParser.cpp:93-130).
THEOREM BothArrive == ASSUME ~CharIsSigned PROVE PacketsSpec => [](Intact /\ Arrives)
<1>1. BothInv => Intact /\ Arrives
  BY BothEnds
<1> QED BY <1>1, BothInvariant, PTL

\* What the runs check of them is a line of packets, too.
THEOREM BothImplementLine == ASSUME ~CharIsSigned PROVE PacketsSpec => LineSpec
<1>1. PacketsInit => Line!Init
  BY AbstractInit DEF PacketsInit
<1>2. BothInv /\ [PacketsNext]_packetVars => [Line!Next]_(Line!lineVars)
  BY BothStep
<1> QED BY <1>1, <1>2, BothInvariant, PTL DEF PacketsSpec, LineSpec, Line!Spec

-----------------------------------------------------------------------------
(* Sequences that are put together.                                        *)

LEMMA Together ==
    ASSUME NEW T, NEW x \in Seq(T), NEW y \in Seq(T)
    PROVE  /\ x \o y \in Seq(T) /\ Len(x \o y) = Len(x) + Len(y)
           /\ \A i \in 1 .. Len(x) : (x \o y)[i] = x[i]
           /\ \A i \in 1 .. Len(y) : (x \o y)[Len(x) + i] = y[i]
  OBVIOUS

LEMMA SameSequence ==
    ASSUME NEW T, NEW x \in Seq(T), NEW y \in Seq(T), Len(x) = Len(y),
           \A i \in 1 .. Len(x) : x[i] = y[i]
    PROVE  x = y
  OBVIOUS

LEMMA NothingAdded ==
    ASSUME NEW T, NEW x \in Seq(T)
    PROVE  x \o <<>> = x /\ <<>> \o x = x /\ <<>> \in Seq(T)
  OBVIOUS

LEMMA ThreeTogether ==
    ASSUME NEW T, NEW x \in Seq(T), NEW y \in Seq(T), NEW z \in Seq(T)
    PROVE  (x \o y) \o z = x \o (y \o z)
<1> DEFINE a == x \o y
           b == y \o z
           l == a \o z
           r == x \o b
<1>1. a \in Seq(T) /\ Len(a) = Len(x) + Len(y) /\ b \in Seq(T) /\ Len(b) = Len(y) + Len(z)
  BY Together
<1>2. (\A i \in 1 .. Len(x) : a[i] = x[i]) /\ \A i \in 1 .. Len(y) : a[Len(x) + i] = y[i]
  BY Together
<1>3. (\A i \in 1 .. Len(y) : b[i] = y[i]) /\ \A i \in 1 .. Len(z) : b[Len(y) + i] = z[i]
  BY Together
<1>4. Len(x) \in Nat /\ Len(y) \in Nat /\ Len(z) \in Nat
  OBVIOUS
<1> HIDE DEF a, b
<1>5. l \in Seq(T) /\ Len(l) = Len(a) + Len(z) /\ r \in Seq(T) /\ Len(r) = Len(x) + Len(b)
  BY <1>1, Together
<1>6. (\A i \in 1 .. Len(a) : l[i] = a[i]) /\ \A i \in 1 .. Len(z) : l[Len(a) + i] = z[i]
  BY <1>1, Together
<1>7. (\A i \in 1 .. Len(x) : r[i] = x[i]) /\ \A i \in 1 .. Len(b) : r[Len(x) + i] = b[i]
  BY <1>1, Together
<1> HIDE DEF l, r
<1>8. ASSUME NEW i \in 1 .. Len(l)
      PROVE  l[i] = r[i]
  <2>1. CASE i <= Len(x)
    <3>1. i \in 1 .. Len(a) /\ i \in 1 .. Len(x)
      BY <1>1, <1>4, <2>1
    <3> QED BY <1>2, <1>6, <1>7, <3>1
  <2>2. CASE i > Len(x) /\ i <= Len(x) + Len(y)
    <3> DEFINE j == i - Len(x)
    <3>1. i \in 1 .. Len(a) /\ j \in 1 .. Len(y) /\ j \in 1 .. Len(b) /\ i = Len(x) + j
      BY <1>1, <1>4, <2>2
    <3> HIDE DEF j
    <3>2. l[i] = a[i] /\ a[i] = y[j] /\ r[i] = b[j] /\ b[j] = y[j]
      BY <1>2, <1>3, <1>6, <1>7, <3>1
    <3> QED BY <3>2
  <2>3. CASE i > Len(x) + Len(y)
    <3> DEFINE j == i - (Len(x) + Len(y))
    <3>1. j \in 1 .. Len(z) /\ Len(y) + j \in 1 .. Len(b) /\ i = Len(a) + j /\ i = Len(x) + (Len(y) + j)
      BY <1>1, <1>4, <1>5, <2>3
    <3> HIDE DEF j
    <3>2. l[i] = z[j] /\ r[i] = b[Len(y) + j] /\ b[Len(y) + j] = z[j]
      BY <1>3, <1>6, <1>7, <3>1
    <3> QED BY <3>2
  <2> QED BY <1>4, <2>1, <2>2, <2>3
<1>9. Len(l) = Len(r)
  BY <1>1, <1>4, <1>5
<1>10. l = r
  BY <1>5, <1>8, <1>9, SameSequence
<1> QED BY <1>10 DEF l, r, a, b

-----------------------------------------------------------------------------
(* How rcp.parse goes through a list.                                      *)

\* A packet has a size that is no less than 0.
LEMMA BytesRead ==
    ASSUME NEW d \in Seq(Byte), NEW p
    PROVE  Byte1(d, p) \in Byte /\ Byte1(d, p) \in Nat
<1>1. 0 \in Byte /\ Byte \subseteq Nat
  BY BaseAssumption DEF Byte
<1>2. p \in DOMAIN d => d[p] \in Byte
  OBVIOUS
<1> QED BY <1>1, <1>2 DEF Byte1

LEMMA ValueSizeType ==
    ASSUME NEW d \in Seq(Byte), NEW p \in Nat, NEW type \in Kind \cup {"none"}
    PROVE  ValueSize(type, d, p) \in Nat
<1> DEFINE four == Slice(d, p, 4)
<1>1. four[1] \in Nat /\ four[2] \in Nat /\ four[3] \in Nat /\ four[4] \in Nat
  <2>1. \A i \in 1 .. 4 : Byte1(d, p + i - 1) \in Nat
    BY BytesRead
  <2> QED BY <2>1 DEF Slice
<1> HIDE DEF four
<1>2. Load32(four) \in Nat
  <2>1. ASSUME NEW x \in Nat, NEW y \in Nat
        PROVE  x * y \in Nat
    OBVIOUS
  <2>2. Base \in Nat
    BY BaseAssumption
  <2>3. Base * Base \in Nat /\ Base * Base * Base \in Nat
    BY <2>1, <2>2
  <2> DEFINE B2 == Base * Base
             B3 == Base * Base * Base
             x1 == four[1] * B3
             x2 == four[2] * B2
             x3 == four[3] * Base
  <2>4. x1 \in Nat /\ x2 \in Nat /\ x3 \in Nat
    <3> HIDE DEF B2, B3
    <3> QED BY <1>1, <2>1, <2>2, <2>3 DEF B2, B3
  <2>5. Load32(four) = x1 + x2 + x3 + four[4]
    BY Zenon DEF Load32, Size
  <2> HIDE DEF x1, x2, x3
  <2> QED BY <1>1, <2>4, <2>5
<1>3. type \in {"b", "none"} \/ type = "t" \/ type \in {"i", "f"} \/ type = "s"
  BY DEF Kind
<1>4. type = "s" => ValueSize(type, d, p) = 4 + Load32(four)
  BY DEF ValueSize, four
<1>5. type # "s" => ValueSize(type, d, p) \in {0, 1, 4}
  BY <1>3 DEF ValueSize
<1> QED BY <1>2, <1>4, <1>5

LEMMA KindType == \A b : KindOf(b) \in Kind \cup {"none"}
<1> QED BY DEF KindOf

LEMMA SizeType ==
    ASSUME NEW d \in Seq(Byte)
    PROVE  rcp_packet_parse(d).size \in Nat
<1>0. \A p : Byte1(d, p) \in Nat
  BY BytesRead
<1>1. ParseInfo(d).size \in Nat
  <2> DEFINE len == Byte1(d, 3)
             app == 4 + len
             appLen == Byte1(d, app + 1)
             end == IF Byte1(d, app) = Option.APPLICATION THEN app + 2 + appLen ELSE app
  <2>1. app \in Nat /\ end \in Nat
    BY <1>0
  <2>2. ParseInfo(d).size \in {2, 0, end + 1}
    BY DEF ParseInfo, NoPacket
  <2> HIDE DEF end
  <2> QED BY <2>1, <2>2
<1>2. \A name : ParseId(d, name).size \in Nat
  BY DEF ParseId, NoPacket
<1>3. ParseUpdate(d).size \in Nat
  <2> DEFINE type == KindOf(Byte1(d, 5))
             label == IF Byte1(d, 7) = Option.VALUE THEN 8 + ValueSize(type, d, 8) ELSE 7
             len == Byte1(d, label + 4)
             end == IF Byte1(d, label) = Option.LABEL THEN label + 6 + len ELSE label
  <2>1. ValueSize(type, d, 8) \in Nat
    BY KindType, ValueSizeType
  <2>2. label \in Nat
    BY <2>1
  <2>3. end \in Nat
    <3> HIDE DEF label
    <3> QED BY <1>0, <2>2
  <2>4. ParseUpdate(d).size \in {0, end + 1}
    BY DEF ParseUpdate, NoPacket
  <2> HIDE DEF end
  <2> QED BY <2>3, <2>4
<1>4. ParseUpdateValue(d).size \in Nat
  <2> DEFINE type == KindOf(Byte1(d, 4))
  <2>1. ValueSize(type, d, 5) \in Nat
    BY KindType, ValueSizeType
  <2>2. ParseUpdateValue(d).size \in {0, 4 + ValueSize(type, d, 5)}
    BY DEF ParseUpdateValue, NoPacket
  <2> QED BY <2>1, <2>2
<1>5. NoPacket.size \in Nat
  BY DEF NoPacket
<1> QED BY <1>1, <1>2, <1>3, <1>4, <1>5 DEF rcp_packet_parse

\* The last n bytes, what is said of them if f says what follows a packet, and all that
\* rcp.parse may ever say.
Ending(d, n) == SubSeq(d, Len(d) - n + 1, Len(d))
SaysOf(f, d, n) ==
    IF n = 0 THEN <<>>
    ELSE LET packet == rcp_packet_parse(Ending(d, n)) IN
         IF packet.size = 0 \/ packet.size > n THEN <<>>
         ELSE <<packet.output>> \o f[n - packet.size]
Gives(f, d) == \A n \in 0 .. Len(d) : f[n] = SaysOf(f, d, n)
Said == {rcp_packet_parse(d).output : d \in Seq(Byte)}

LEMMA EndingType ==
    ASSUME NEW d \in Seq(Byte), NEW n \in 0 .. Len(d)
    PROVE  /\ Ending(d, n) \in Seq(Byte)
           /\ rcp_packet_parse(Ending(d, n)).size \in Nat
           /\ rcp_packet_parse(Ending(d, n)).output \in Said
<1>1. Ending(d, n) \in Seq(Byte)
  BY DEF Ending
<1> QED BY <1>1, SizeType DEF Said

\* Only what f says of fewer bytes matters.
LEMMA SaysBefore ==
    ASSUME NEW d \in Seq(Byte), NEW n \in 0 .. Len(d), NEW f, NEW g, \A i \in 0 .. n - 1 : f[i] = g[i]
    PROVE  SaysOf(f, d, n) = SaysOf(g, d, n)
<1> DEFINE size == rcp_packet_parse(Ending(d, n)).size
<1>1. size \in Nat
  BY EndingType
<1> HIDE DEF size
<1>2. n # 0 /\ ~(size = 0 \/ size > n) => n - size \in 0 .. n - 1
  BY <1>1
<1>3. n # 0 /\ ~(size = 0 \/ size > n) => f[n - size] = g[n - size]
  BY <1>2
<1> QED BY <1>3, Zenon DEF SaysOf, size

LEMMA SaysType ==
    ASSUME NEW d \in Seq(Byte), NEW n \in 0 .. Len(d), NEW f, \A i \in 0 .. n - 1 : f[i] \in Seq(Said)
    PROVE  SaysOf(f, d, n) \in Seq(Said)
<1> DEFINE packet == rcp_packet_parse(Ending(d, n))
<1>1. packet.size \in Nat /\ packet.output \in Said
  BY EndingType
<1> HIDE DEF packet
<1>2. CASE n = 0 \/ packet.size = 0 \/ packet.size > n
  <2>1. SaysOf(f, d, n) = <<>>
    BY <1>2, Zenon DEF SaysOf, packet
  <2> QED BY <2>1, NothingAdded
<1>3. CASE ~(n = 0 \/ packet.size = 0 \/ packet.size > n)
  <2>1. SaysOf(f, d, n) = <<packet.output>> \o f[n - packet.size]
    BY <1>3, Zenon DEF SaysOf, packet
  <2>2. n - packet.size \in 0 .. n - 1
    BY <1>1, <1>3
  <2>3. <<packet.output>> \in Seq(Said) /\ f[n - packet.size] \in Seq(Said)
    BY <1>1, <2>2
  <2> QED BY <2>1, <2>3, Together, Zenon
<1> QED BY <1>2, <1>3

LEMMA OutputsGive ==
    ASSUME NEW d \in Seq(Byte)
    PROVE  \E f : f \in [0 .. Len(d) -> Seq(Said)] /\ Gives(f, d) /\ Outputs(d) = f[Len(d)]
<1> DEFINE N == Len(d)
           Upto(f, m) == f \in [0 .. m -> Seq(Said)] /\ \A n \in 0 .. m : f[n] = SaysOf(f, d, n)
           S == {m \in 0 .. N : \E f : Upto(f, m)}
           last(f) == f = [n \in 0 .. N |-> SaysOf(f, d, n)]
<1>0. N \in Nat
  OBVIOUS
<1>1. 0 \in S
  <2> DEFINE f == [n \in 0 .. 0 |-> <<>>]
  <2>1. f \in [0 .. 0 -> Seq(Said)]
    BY NothingAdded
  <2>2. \A n \in 0 .. 0 : f[n] = SaysOf(f, d, n)
    BY DEF SaysOf
  <2> HIDE DEF f
  <2>3. Upto(f, 0)
    BY <2>1, <2>2
  <2> QED BY <1>0, <2>3
<1>2. ASSUME NEW m \in 0 .. N - 1, m \in S
      PROVE  m + 1 \in S
  <2>1. PICK f : Upto(f, m)
    BY <1>2
  <2> DEFINE g == [n \in 0 .. m + 1 |-> IF n = m + 1 THEN SaysOf(f, d, m + 1) ELSE f[n]]
  <2>2. \A n \in 0 .. m : g[n] = f[n] /\ n \in 0 .. N /\ f[n] \in Seq(Said)
    BY <2>1
  <2>3. m + 1 \in 0 .. N /\ g[m + 1] = SaysOf(f, d, m + 1) /\ \A n \in 0 .. m + 1 : n = m + 1 \/ n \in 0 .. m
    BY <1>0
  <2>4. SaysOf(f, d, m + 1) \in Seq(Said)
    <3>0. \A i \in 0 .. (m + 1) - 1 : i \in 0 .. m
      BY <1>0
    <3>1. \A i \in 0 .. (m + 1) - 1 : f[i] \in Seq(Said)
      <4> HIDE DEF N
      <4> QED BY <2>2, <3>0, Zenon
    <3> HIDE DEF N
    <3> QED BY <2>3, <3>1, SaysType DEF N
  <2>5. g \in [0 .. m + 1 -> Seq(Said)]
    BY <2>2, <2>3, <2>4
  <2> HIDE DEF g
  <2>6. ASSUME NEW n \in 0 .. m + 1
        PROVE  g[n] = SaysOf(g, d, n)
    <3>1. n \in 0 .. Len(d) /\ \A i \in 0 .. n - 1 : i \in 0 .. m /\ f[i] = g[i]
      BY <2>2, <2>3
    <3>2. SaysOf(f, d, n) = SaysOf(g, d, n)
      BY <3>1, SaysBefore
    <3>3. g[n] = SaysOf(f, d, n)
      BY <2>1, <2>2, <2>3, Zenon
    <3> QED BY <3>2, <3>3
  <2>7. Upto(g, m + 1)
    BY <2>5, <2>6
  <2> QED BY <2>3, <2>7
<1>3. N \in S
  <2> HIDE DEF S, N
  <2>1. 0 .. N \subseteq S
    BY <1>0, <1>1, <1>2, UpTo
  <2> QED BY <1>0, <2>1
<1>4. PICK f : Upto(f, N)
  BY <1>3
<1>5. last(f)
  <2>1. f = [n \in 0 .. N |-> f[n]]
    BY <1>4
  <2> QED BY <1>4, <2>1, Zenon
<1> DEFINE h == CHOOSE f1 : last(f1)
<1>6. last(h)
  <2> HIDE DEF last
  <2> QED BY <1>5
<1>7. Outputs(d) = h[N]
  BY Zenon DEF Outputs, SaysOf, Ending
<1> HIDE DEF h
<1>8. \A n \in 0 .. N : h[n] = SaysOf(h, d, n)
  <2> DEFINE E(n) == SaysOf(h, d, n)
  <2>1. h = [n \in 0 .. N |-> E(n)]
    BY <1>6
  <2> HIDE DEF E
  <2>2. \A n \in 0 .. N : h[n] = E(n)
    BY <2>1
  <2> QED BY <2>2 DEF E
<1> DEFINE R == {m \in 0 .. N : \A n \in 0 .. m : h[n] = f[n]}
<1>9. 0 \in R
  <2>1. 0 \in 0 .. N /\ SaysOf(h, d, 0) = <<>> /\ SaysOf(f, d, 0) = <<>>
    BY <1>0 DEF SaysOf
  <2>2. h[0] = f[0]
    BY <1>4, <1>8, <2>1
  <2> QED BY <1>0, <2>2
<1>10. ASSUME NEW m \in 0 .. N - 1, m \in R
       PROVE  m + 1 \in R
  <2>1. m + 1 \in 0 .. N /\ m + 1 \in 0 .. Len(d) /\ \A i \in 0 .. (m + 1) - 1 : h[i] = f[i]
    BY <1>0, <1>10
  <2>2. SaysOf(h, d, m + 1) = SaysOf(f, d, m + 1)
    BY <2>1, SaysBefore
  <2>3. h[m + 1] = f[m + 1]
    BY <1>4, <1>8, <2>1, <2>2, Zenon
  <2>4. \A n \in 0 .. m + 1 : n = m + 1 \/ n \in 0 .. m
    OBVIOUS
  <2> QED BY <1>10, <2>1, <2>3, <2>4
<1>11. N \in R
  <2> HIDE DEF R, N
  <2>1. 0 .. N \subseteq R
    BY <1>0, <1>9, <1>10, UpTo
  <2> QED BY <1>0, <2>1
<1>12. h[N] = f[N]
  <2>1. N \in 0 .. N
    BY <1>0
  <2> QED BY <1>11, <2>1
<1>13. Gives(f, d)
  BY <1>4 DEF Gives
<1> QED BY <1>4, <1>7, <1>12, <1>13

\* What follows a packet is read as if it came alone.
LEMMA FollowsPacket ==
    ASSUME NEW a \in Seq(Byte), NEW b \in Seq(Byte), Len(a) > 0, NEW o,
           rcp_packet_parse(a \o b) = [size |-> Len(a), output |-> o]
    PROVE  Outputs(a \o b) = <<o>> \o Outputs(b)
<1> DEFINE d == a \o b
           m == Len(a)
           n == Len(b)
<1>1. /\ d \in Seq(Byte) /\ Len(d) = m + n /\ m \in Nat /\ n \in Nat
      /\ \A i \in 1 .. m : d[i] = a[i]
      /\ \A i \in 1 .. n : d[m + i] = b[i]
  BY Together
<1> HIDE DEF d
<1>2. PICK f : f \in [0 .. Len(d) -> Seq(Said)] /\ Gives(f, d) /\ Outputs(d) = f[Len(d)]
  BY <1>1, OutputsGive
<1>3. PICK g : g \in [0 .. Len(b) -> Seq(Said)] /\ Gives(g, b) /\ Outputs(b) = g[Len(b)]
  BY OutputsGive
<1> HIDE DEF m, n
<1>4. ASSUME NEW k \in 0 .. n
      PROVE  Ending(d, k) = Ending(b, k)
  <2> DEFINE x == Ending(d, k)
             y == Ending(b, k)
  <2>1. x \in Seq(Byte) /\ Len(x) = k /\ \A i \in 1 .. k : x[i] = d[(m + n) - k + i]
    BY <1>1 DEF Ending
  <2>2. y \in Seq(Byte) /\ Len(y) = k /\ \A i \in 1 .. k : y[i] = b[n - k + i]
    BY <1>1 DEF Ending, n
  <2>3. ASSUME NEW i \in 1 .. k
        PROVE  d[(m + n) - k + i] = b[n - k + i]
    <3>1. n - k + i \in 1 .. n /\ (m + n) - k + i = m + (n - k + i)
      BY <1>1
    <3> QED BY <1>1, <3>1, Zenon
  <2> HIDE DEF x, y
  <2>4. \A i \in 1 .. Len(x) : x[i] = y[i]
    BY <2>1, <2>2, <2>3
  <2>5. x = y
    BY <2>1, <2>2, <2>4, SameSequence
  <2> QED BY <2>5 DEF x, y
<1>5. ASSUME NEW k \in 0 .. n, NEW h
      PROVE  SaysOf(h, d, k) = SaysOf(h, b, k)
  BY <1>4, Zenon DEF SaysOf
<1> DEFINE R == {k \in 0 .. n : \A j \in 0 .. k : f[j] = g[j]}
<1>6. 0 \in R
  <2>1. 0 \in 0 .. Len(d) /\ 0 \in 0 .. Len(b) /\ SaysOf(f, d, 0) = <<>> /\ SaysOf(g, b, 0) = <<>>
    BY <1>1 DEF SaysOf, n
  <2>2. f[0] = g[0]
    BY <1>2, <1>3, <2>1 DEF Gives
  <2> QED BY <1>1, <2>2
<1>7. ASSUME NEW k \in 0 .. n - 1, k \in R
      PROVE  k + 1 \in R
  <2>1. k + 1 \in 0 .. n /\ k + 1 \in 0 .. Len(d) /\ \A i \in 0 .. (k + 1) - 1 : f[i] = g[i]
    BY <1>1, <1>7
  <2>2. SaysOf(f, d, k + 1) = SaysOf(g, d, k + 1)
    BY <1>1, <2>1, SaysBefore
  <2>3. SaysOf(g, d, k + 1) = SaysOf(g, b, k + 1)
    BY <1>5, <2>1
  <2>4. f[k + 1] = g[k + 1]
    BY <1>2, <1>3, <2>1, <2>2, <2>3, Zenon DEF Gives, n
  <2>5. \A j \in 0 .. k + 1 : j = k + 1 \/ j \in 0 .. k
    OBVIOUS
  <2> QED BY <1>7, <2>1, <2>4, <2>5
<1>8. f[n] = g[n]
  <2> HIDE DEF R
  <2>1. 0 .. n \subseteq R
    BY <1>1, <1>6, <1>7, UpTo
  <2>2. n \in 0 .. n
    BY <1>1
  <2> QED BY <2>1, <2>2, Zenon DEF R
<1>9. Ending(d, Len(d)) = d
  BY <1>1 DEF Ending
<1>10. f[Len(d)] = <<o>> \o f[n]
  <2>1. Len(d) \in 0 .. Len(d) /\ Len(d) # 0 /\ m # 0 /\ ~(m > Len(d)) /\ Len(d) - m = n
    BY <1>1 DEF m
  <2>2. rcp_packet_parse(d).size = m /\ rcp_packet_parse(d).output = o
    <3>1. rcp_packet_parse(d) = [size |-> m, output |-> o]
      BY Zenon DEF d, m
    <3> QED BY <3>1
  <2>3. f[Len(d)] = SaysOf(f, d, Len(d))
    BY <1>2, <2>1 DEF Gives
  <2> QED BY <1>9, <2>1, <2>2, <2>3, Zenon DEF SaysOf
<1>11. Outputs(d) = <<o>> \o Outputs(b)
  BY <1>2, <1>3, <1>8, <1>10, Zenon DEF n
<1> QED BY <1>11 DEF d

-----------------------------------------------------------------------------
(* What a list says.                                                       *)

LEMMA OutputsType ==
    ASSUME NEW d \in Seq(Byte)
    PROVE  Outputs(d) \in Seq(Said) /\ Outputs(<<>>) = <<>>
<1>1. Outputs(d) \in Seq(Said)
  <2>1. PICK f : f \in [0 .. Len(d) -> Seq(Said)] /\ Gives(f, d) /\ Outputs(d) = f[Len(d)]
    BY OutputsGive
  <2>2. Len(d) \in 0 .. Len(d)
    OBVIOUS
  <2> QED BY <2>1, <2>2
<1>2. Outputs(<<>>) = <<>>
  <2>1. <<>> \in Seq(Byte) /\ Len(<<>>) = 0 /\ 0 \in 0 .. 0
    OBVIOUS
  <2>2. PICK f : f \in [0 .. Len(<<>>) -> Seq(Said)] /\ Gives(f, <<>>) /\ Outputs(<<>>) = f[Len(<<>>)]
    BY <2>1, OutputsGive
  <2>3. f[0] = SaysOf(f, <<>>, 0)
    BY <2>1, <2>2 DEF Gives
  <2> QED BY <2>1, <2>2, <2>3 DEF SaysOf
<1> QED BY <1>1, <1>2

\* A packet that is read as it is whatever follows, and a list that says something
\* whatever follows.
Reads(a, o) ==
    /\ a \in Payload
    /\ \A rest \in Seq(Byte) : rcp_packet_parse(a \o rest) = [size |-> Len(a), output |-> o]
SaysThen(d, outs) ==
    /\ d \in Seq(Byte) /\ outs \in Seq(Said)
    /\ \A rest \in Seq(Byte) : Outputs(d \o rest) = outs \o Outputs(rest)

LEMMA NothingSaid == SaysThen(<<>>, <<>>)
<1>1. ASSUME NEW rest \in Seq(Byte)
      PROVE  Outputs(<<>> \o rest) = <<>> \o Outputs(rest)
  <2>1. <<>> \o rest = rest
    OBVIOUS
  <2>2. Outputs(rest) \in Seq(Said)
    BY OutputsType
  <2>3. <<>> \o Outputs(rest) = Outputs(rest)
    BY <2>2, NothingAdded
  <2> QED BY <2>1, <2>3
<1> QED BY <1>1, NothingAdded DEF SaysThen

LEMMA OneMoreSaid ==
    ASSUME NEW d, NEW outs, SaysThen(d, outs), NEW a, NEW o, Reads(a, o)
    PROVE  SaysThen(d \o a, outs \o <<o>>)
<1>1. d \in Seq(Byte) /\ outs \in Seq(Said) /\ a \in Seq(Byte) /\ a # <<>>
  BY DEF SaysThen, Reads, Payload
<1>2. Len(a) > 0
  BY <1>1
<1>3. <<o>> \in Seq(Said)
  <2>1. <<>> \in Seq(Byte) /\ a \o <<>> \in Seq(Byte)
    BY <1>1
  <2>2. rcp_packet_parse(a \o <<>>).output = o
    <3>1. rcp_packet_parse(a \o <<>>) = [size |-> Len(a), output |-> o]
      BY <2>1, Zenon DEF Reads
    <3> QED BY <3>1
  <2>3. o \in Said
    BY <2>1, <2>2 DEF Said
  <2> QED BY <2>3
<1>4. ASSUME NEW rest \in Seq(Byte)
      PROVE  Outputs((d \o a) \o rest) = (outs \o <<o>>) \o Outputs(rest)
  <2>1. (d \o a) \o rest = d \o (a \o rest) /\ a \o rest \in Seq(Byte)
    BY <1>1, ThreeTogether, Together
  <2>2. Outputs(d \o (a \o rest)) = outs \o Outputs(a \o rest)
    BY <2>1, Zenon DEF SaysThen
  <2>3. rcp_packet_parse(a \o rest) = [size |-> Len(a), output |-> o]
    BY DEF Reads
  <2>4. Outputs(a \o rest) = <<o>> \o Outputs(rest)
    BY <1>1, <1>2, <2>3, FollowsPacket
  <2>5. Outputs(rest) \in Seq(Said)
    BY OutputsType
  <2>6. (outs \o <<o>>) \o Outputs(rest) = outs \o (<<o>> \o Outputs(rest))
    <3> DEFINE y == <<o>>
               z == Outputs(rest)
    <3>1. outs \in Seq(Said) /\ y \in Seq(Said) /\ z \in Seq(Said)
      BY <1>1, <1>3, <2>5
    <3> HIDE DEF y, z
    <3>2. (outs \o y) \o z = outs \o (y \o z)
      BY <3>1, ThreeTogether
    <3> QED BY <3>2, Zenon DEF y, z
  <2> QED BY <2>1, <2>2, <2>4, <2>6, Zenon
<1>5. d \o a \in Seq(Byte) /\ outs \o <<o>> \in Seq(Said)
  BY <1>1, <1>3, Together
<1> QED BY <1>4, <1>5 DEF SaysThen

LEMMA ListSays ==
    ASSUME NEW d, NEW outs, SaysThen(d, outs)
    PROVE  m_list(d) = outs
<1>1. d \in Seq(Byte) /\ outs \in Seq(Said)
  BY DEF SaysThen
<1>2. \A i \in DOMAIN d : IsByte(d[i])
  BY <1>1 DEF IsByte
<1>3. m_list(d) = Outputs(d)
  BY <1>2, Zenon DEF m_list
<1>4. d \o <<>> = d /\ outs \o <<>> = outs /\ <<>> \in Seq(Byte)
  BY <1>1, NothingAdded
<1>5. Outputs(d \o <<>>) = outs \o Outputs(<<>>)
  BY <1>4 DEF SaysThen
<1>6. Outputs(<<>>) = <<>>
  BY <1>1, OutputsType
<1> QED BY <1>3, <1>4, <1>5, <1>6

\* Whatever the atoms of a list, what it says may be said.
LEMMA ListSaysType ==
    ASSUME NEW list \in Seq(Int \cup {Symbol})
    PROVE  m_list(list) \in Seq(Said)
<1>1. CASE \A i \in DOMAIN list : IsByte(list[i])
  <2>1. list \in Seq(Byte)
    BY <1>1 DEF IsByte
  <2>2. m_list(list) = Outputs(list)
    BY <1>1, Zenon DEF m_list
  <2> QED BY <2>1, <2>2, OutputsType
<1>2. CASE ~\A i \in DOMAIN list : IsByte(list[i])
  <2>1. m_list(list) = <<>>
    BY <1>2, Zenon DEF m_list
  <2> QED BY <2>1, NothingAdded
<1> QED BY <1>1, <1>2

LEMMA BytesAreAtoms == \A d \in Seq(Byte) : d \in Seq(Int \cup {Symbol})
<1>1. Byte \subseteq Int \cup {Symbol}
  BY BaseAssumption DEF Byte
<1> QED BY <1>1, Wider

LEMMA ListsSay ==
    ASSUME NEW w \in Seq(Byte)
    PROVE  m_lists(<<>>) = <<>> /\ m_lists(<<w>>) = m_list(w) /\ m_list(w) \in Seq(Said)
<1> DEFINE x == m_list(w)
<1>1. x \in Seq(Said)
  BY BytesAreAtoms, ListSaysType
<1>2. m_lists(<<>>) = FlattenSeq(<<>>)
  <2>1. [i \in DOMAIN <<>> |-> m_list(<<>>[i])] = <<>>
    OBVIOUS
  <2> QED BY <2>1, Zenon DEF m_lists
<1>3. m_lists(<<w>>) = FlattenSeq(<<x>>)
  <2>1. DOMAIN <<w>> = {1} /\ <<w>>[1] = w
    OBVIOUS
  <2>2. \A i \in DOMAIN <<w>> : m_list(<<w>>[i]) = x
    BY <2>1
  <2> HIDE DEF x
  <2>3. [i \in DOMAIN <<w>> |-> x] = <<x>>
    OBVIOUS
  <2>4. [i \in DOMAIN <<w>> |-> m_list(<<w>>[i])] = <<x>>
    BY <2>2, <2>3, Zenon
  <2> QED BY <2>4, Zenon DEF m_lists
<1> HIDE DEF x
<1>4. <<>> \in Seq(Seq(Said)) /\ Append(<<>>, x) = <<x>>
  BY <1>1
<1>5. FlattenSeq(<<>>) = <<>> /\ FlattenSeq(Append(<<>>, x)) = FlattenSeq(<<>>) \o x
  BY <1>1, <1>4, FlattenAppend
<1>6. <<>> \o x = x
  BY <1>1, NothingAdded
<1> QED BY <1>1, <1>2, <1>3, <1>4, <1>5, <1>6, Zenon DEF x

-----------------------------------------------------------------------------
(* What a packet holds at a position.                                      *)

Holds(d, p, s) ==
    /\ d \in Seq(Byte) /\ s \in Seq(Byte) /\ p \in Nat \ {0}
    /\ p + Len(s) <= Len(d) + 1
    /\ \A i \in 1 .. Len(s) : d[p + i - 1] = s[i]

LEMMA HoldsOn ==
    ASSUME NEW d, NEW p, NEW s, Holds(d, p, s), NEW rest \in Seq(Byte)
    PROVE  Holds(d \o rest, p, s)
<1> DEFINE e == d \o rest
<1>1. d \in Seq(Byte) /\ s \in Seq(Byte) /\ p \in Nat \ {0} /\ p + Len(s) <= Len(d) + 1
  BY DEF Holds
<1>2. e \in Seq(Byte) /\ Len(e) = Len(d) + Len(rest) /\ \A i \in 1 .. Len(d) : e[i] = d[i]
  BY <1>1, Together
<1> HIDE DEF e
<1>3. ASSUME NEW i \in 1 .. Len(s)
      PROVE  e[p + i - 1] = s[i]
  <2>1. p + i - 1 \in 1 .. Len(d)
    BY <1>1
  <2>2. d[p + i - 1] = s[i]
    BY DEF Holds
  <2> QED BY <1>2, <2>1, <2>2
<1>4. p + Len(s) <= Len(e) + 1
  BY <1>1, <1>2
<1>5. Holds(e, p, s)
  BY <1>1, <1>2, <1>3, <1>4 DEF Holds
<1> QED BY <1>5 DEF e

LEMMA HoldsBoth ==
    ASSUME NEW d, NEW p, NEW x \in Seq(Byte), NEW y \in Seq(Byte), Holds(d, p, x \o y)
    PROVE  Holds(d, p, x) /\ Holds(d, p + Len(x), y)
<1> DEFINE s == x \o y
<1>1. /\ Len(s) = Len(x) + Len(y)
      /\ \A i \in 1 .. Len(x) : s[i] = x[i]
      /\ \A i \in 1 .. Len(y) : s[Len(x) + i] = y[i]
  BY Together
<1> HIDE DEF s
<1>2. /\ d \in Seq(Byte) /\ p \in Nat \ {0} /\ p + Len(s) <= Len(d) + 1
      /\ \A i \in 1 .. Len(s) : d[p + i - 1] = s[i]
  BY DEF Holds, s
<1>3. Len(x) \in Nat /\ Len(y) \in Nat
  OBVIOUS
<1>4. Holds(d, p, x)
  <2>1. \A i \in 1 .. Len(x) : i \in 1 .. Len(s)
    BY <1>1, <1>3
  <2>2. \A i \in 1 .. Len(x) : d[p + i - 1] = x[i]
    BY <1>1, <1>2, <2>1
  <2>3. p + Len(x) <= Len(d) + 1
    BY <1>1, <1>2, <1>3
  <2> QED BY <1>2, <2>2, <2>3 DEF Holds
<1>5. Holds(d, p + Len(x), y)
  <2>1. ASSUME NEW i \in 1 .. Len(y)
        PROVE  d[(p + Len(x)) + i - 1] = y[i]
    <3>1. Len(x) + i \in 1 .. Len(s) /\ (p + Len(x)) + i - 1 = p + (Len(x) + i) - 1
      BY <1>1, <1>2, <1>3
    <3>2. d[p + (Len(x) + i) - 1] = s[Len(x) + i]
      BY <1>2, <3>1
    <3> QED BY <1>1, <3>1, <3>2
  <2>2. p + Len(x) \in Nat \ {0} /\ (p + Len(x)) + Len(y) <= Len(d) + 1
    BY <1>1, <1>2, <1>3
  <2> QED BY <1>2, <2>1, <2>2 DEF Holds
<1> QED BY <1>4, <1>5

LEMMA HoldsByte ==
    ASSUME NEW d, NEW p, NEW b, Holds(d, p, <<b>>)
    PROVE  Byte1(d, p) = b /\ p \in DOMAIN d /\ d[p] = b
<1>1. Len(<<b>>) = 1 /\ 1 \in 1 .. Len(<<b>>) /\ <<b>>[1] = b
  OBVIOUS
<1>2. d \in Seq(Byte) /\ p \in Nat \ {0} /\ p + 1 <= Len(d) + 1 /\ d[p + 1 - 1] = b
  BY <1>1 DEF Holds
<1>3. p \in DOMAIN d /\ p + 1 - 1 = p
  BY <1>2
<1> QED BY <1>2, <1>3 DEF Byte1

LEMMA HoldsSlice ==
    ASSUME NEW d, NEW p, NEW s, Holds(d, p, s)
    PROVE  Slice(d, p, Len(s)) = s
<1>1. d \in Seq(Byte) /\ s \in Seq(Byte) /\ p \in Nat \ {0} /\ p + Len(s) <= Len(d) + 1
  BY DEF Holds
<1>2. ASSUME NEW i \in 1 .. Len(s)
      PROVE  Byte1(d, p + i - 1) = s[i]
  <2>1. p + i - 1 \in DOMAIN d /\ d[p + i - 1] = s[i]
    BY <1>1 DEF Holds
  <2> QED BY <2>1 DEF Byte1
<1>3. Slice(d, p, Len(s)) = [i \in 1 .. Len(s) |-> s[i]]
  BY <1>2 DEF Slice
<1> QED BY <1>1, <1>3

\* A part that no later part overwrites.
LEMMA PartHeld ==
    ASSUME NEW list, Written(list), Filled(list) \in Seq(Byte),
           NEW j \in DOMAIN list.parts, NEW at, NEW s \in Seq(Byte), list.parts[j] = At(at, s),
           Ends(list.parts[j]) <= list.size,
           \A i \in DOMAIN list.parts : i > j => at + Len(s) <= list.parts[i].at
    PROVE  Holds(Filled(list), at + 1, s)
<1> DEFINE n == Len(list.parts)
           writers(k) == {i \in DOMAIN list.parts : k \in list.parts[i].at + 1 .. Ends(list.parts[i])}
           lastOf(k) == CHOOSE i \in writers(k) : \A h \in writers(k) : h <= i
           atom(k) == IF writers(k) = {} THEN Symbol
                      ELSE list.parts[lastOf(k)].bytes[k - list.parts[lastOf(k)].at]
<1>1. n \in Nat /\ DOMAIN list.parts = 1 .. n /\ list.size \in Nat
  BY DEF Written
<1>2. list.parts[j].at = at /\ list.parts[j].bytes = s /\ Ends(list.parts[j]) = at + Len(s)
  BY DEF At, Ends
<1>3. \A i \in 1 .. n : list.parts[i].at \in Nat
  <2>1. list.parts \in Seq([at : Nat, bytes : Seq(Wire)])
    BY DEF Written
  <2>2. \A X : \A p \in Seq(X) : \A i \in 1 .. Len(p) : p[i] \in X
    OBVIOUS
  <2>3. \A i \in 1 .. n : list.parts[i] \in [at : Nat, bytes : Seq(Wire)]
    BY <2>1, <2>2, Zenon
  <2>4. \A r \in [at : Nat, bytes : Seq(Wire)] : r.at \in Nat
    OBVIOUS
  <2> QED BY <2>3, <2>4, Zenon
<1>4. at \in Nat /\ at + Len(s) <= list.size /\ Len(s) \in Nat
  <2> HIDE DEF writers, lastOf, atom
  <2>1. j \in 1 .. n
    BY <1>1
  <2>2. list.parts[j].at \in Nat /\ Ends(list.parts[j]) <= list.size
    BY <1>1, <1>3, <2>1
  <2> QED BY <1>2, <2>2
<1>5. Len(Filled(list)) = list.size
  BY WrittenIsFilled
<1>6. Filled(list) = [k \in 1 .. list.size |-> atom(k)]
  BY Zenon DEF Filled
<1>7. ASSUME NEW i \in 1 .. Len(s)
      PROVE  Filled(list)[(at + 1) + i - 1] = s[i]
  <2> DEFINE k == at + i
  <2>1. k \in 1 .. list.size /\ k \in at + 1 .. at + Len(s) /\ k = (at + 1) + i - 1 /\ k - at = i
    <3>1. list.size \in Nat /\ i \in Nat /\ 1 <= i /\ i <= Len(s)
      BY <1>1, <1>4, <1>7
    <3> HIDE DEF writers, lastOf, atom
    <3> QED BY <1>4, <3>1
  <2> HIDE DEF k
  <2>2. j \in writers(k)
    BY <1>2, <2>1
  <2>3. ASSUME NEW h \in writers(k)
        PROVE  h <= j /\ h \in Int
    <3>1. h \in DOMAIN list.parts /\ k \in list.parts[h].at + 1 .. Ends(list.parts[h])
      BY Zenon
    <3> HIDE DEF writers, lastOf, atom
    <3>2. h > j => at + Len(s) <= list.parts[h].at
      BY <3>1
    <3>3. h \in Int /\ j \in Int /\ list.parts[h].at \in Nat
      BY <1>1, <1>3, <3>1
    <3>4. k <= at + Len(s) /\ list.parts[h].at < k /\ k \in Int
      BY <1>4, <2>1, <3>1, <3>3
    <3> QED BY <1>4, <3>2, <3>3, <3>4
  <2>4. lastOf(k) = j
    <3> HIDE DEF writers
    <3>1. lastOf(k) \in writers(k) /\ j <= lastOf(k)
      BY <2>2, <2>3
    <3> HIDE DEF lastOf
    <3>2. lastOf(k) <= j /\ lastOf(k) \in Int /\ j \in Int
      BY <2>2, <2>3, <3>1
    <3> QED BY <3>1, <3>2
  <2>5. atom(k) = s[k - at]
    <3> HIDE DEF lastOf
    <3> QED BY <1>2, <2>2, <2>4
  <2>6. Filled(list)[k] = atom(k)
    <3> HIDE DEF atom
    <3> QED BY <1>6, <2>1
  <2> QED BY <2>1, <2>5, <2>6
<1>8. at + 1 \in Nat \ {0} /\ (at + 1) + Len(s) <= Len(Filled(list)) + 1
  BY <1>4, <1>5
<1> QED BY <1>7, <1>8 DEF Holds

-----------------------------------------------------------------------------
(* What the two kinds of packets hold.                                     *)

LEMMA ProtocolBytes ==
    /\ Command.UPDATE \in Byte /\ Command.UPDATEVALUE \in Byte
    /\ Option.DATA \in Byte /\ Option.VALUE \in Byte /\ Option.LABEL \in Byte /\ RCP_TERMINATOR \in Byte
    /\ \A t \in Kind : TypeId[t] \in Byte
<1>1. Command["UPDATE"] \in Byte /\ Command["UPDATEVALUE"] \in Byte
  BY PacketsAssumption DEF CommandName
<1>2. Option["DATA"] \in Byte /\ Option["VALUE"] \in Byte /\ Option["LABEL"] \in Byte
  BY PacketsAssumption
<1>3. 0 \in Byte
  BY BaseAssumption DEF Byte
<1> QED BY <1>1, <1>2, <1>3, PacketsAssumption DEF RCP_TERMINATOR

LEMMA UpdateValueHolds ==
    ASSUME FormatInv, NEW type \in Kind, NEW value \in Seq(Byte)
    PROVE  LET a == Filled(UpdateValue(type, value)) IN
           /\ a \in Seq(Byte) /\ Len(a) = 4 + Len(value)
           /\ Holds(a, 1, <<Command.UPDATEVALUE>>) /\ Holds(a, 2, Store16(m_id))
           /\ Holds(a, 4, <<TypeId[type]>>) /\ Holds(a, 5, value)
<1> DEFINE s1 == <<Command.UPDATEVALUE>>
           s2 == Store16(m_id)
           s3 == <<TypeId[type]>>
           p1 == At(0, s1)
           p2 == At(1, s2)
           p3 == At(3, s3)
           p4 == At(4, value)
           parts == <<p1, p2, p3, p4>>
           list == UpdateValue(type, value)
           a == Filled(list)
<1>1. s1 \in Seq(Byte) /\ Len(s1) = 1 /\ s3 \in Seq(Byte) /\ Len(s3) = 1
  BY ProtocolBytes
<1>2. s2 \in Seq(Byte) /\ Len(s2) = 2
  <2>1. m_id \in Int
    BY BaseAssumption DEF FormatInv, PacketsTypeOK, ValidId
  <2> QED BY <2>1, BytesStored
<1>3. Full(list)
  BY OnWire, UpdateValueFull
<1>4. list.size = 4 + Len(value) /\ list.parts = parts
  BY DEF UpdateValue
<1> HIDE DEF s1, s2, s3, list
<1>5. /\ p1.at = 0 /\ p1.bytes = s1 /\ p2.at = 1 /\ p2.bytes = s2
      /\ p3.at = 3 /\ p3.bytes = s3 /\ p4.at = 4 /\ p4.bytes = value
  BY DEF At
<1> HIDE DEF p1, p2, p3, p4
<1>6. parts[1] = p1 /\ parts[2] = p2 /\ parts[3] = p3 /\ parts[4] = p4 /\ DOMAIN parts = 1 .. 4
  OBVIOUS
<1> HIDE DEF parts
<1>7. \A j \in DOMAIN list.parts : list.parts[j].bytes \in Seq(Byte)
  <2>1. \A j \in 1 .. 4 : j = 1 \/ j = 2 \/ j = 3 \/ j = 4
    OBVIOUS
  <2> QED BY <1>1, <1>2, <1>4, <1>5, <1>6, <2>1
<1>8. a \in Seq(Byte) /\ Len(a) = 4 + Len(value)
  BY <1>3, <1>4, <1>7, FilledFrom DEF Full
<1>9. ASSUME NEW j \in 1 .. 4, NEW at, NEW s \in Seq(Byte), parts[j] = At(at, s),
             \A i \in 1 .. 4 : i > j => at + Len(s) <= parts[i].at
      PROVE  Holds(a, at + 1, s)
  BY <1>3, <1>4, <1>6, <1>8, <1>9, PartHeld DEF Full
<1> HIDE DEF a
<1>10. Holds(a, 0 + 1, s1)
  <2>1. \A i \in 1 .. 4 : i > 1 => 0 + Len(s1) <= parts[i].at
    BY <1>1, <1>5, <1>6
  <2>2. parts[1] = At(0, s1) /\ 1 \in 1 .. 4
    BY <1>6 DEF p1
  <2> QED BY <1>1, <1>9, <2>1, <2>2
<1>11. Holds(a, 1 + 1, s2)
  <2>1. \A i \in 1 .. 4 : i > 2 => 1 + Len(s2) <= parts[i].at
    BY <1>2, <1>5, <1>6
  <2>2. parts[2] = At(1, s2) /\ 2 \in 1 .. 4
    BY <1>6 DEF p2
  <2> QED BY <1>2, <1>9, <2>1, <2>2
<1>12. Holds(a, 3 + 1, s3)
  <2>1. \A i \in 1 .. 4 : i > 3 => 3 + Len(s3) <= parts[i].at
    BY <1>1, <1>5, <1>6
  <2>2. parts[3] = At(3, s3) /\ 3 \in 1 .. 4
    BY <1>6 DEF p3
  <2> QED BY <1>1, <1>9, <2>1, <2>2
<1>13. Holds(a, 4 + 1, value)
  <2>1. \A i \in 1 .. 4 : i > 4 => 4 + Len(value) <= parts[i].at
    OBVIOUS
  <2>2. parts[4] = At(4, value) /\ 4 \in 1 .. 4
    BY <1>6 DEF p4
  <2> QED BY <1>9, <2>1, <2>2
<1>14. 0 + 1 = 1 /\ 1 + 1 = 2 /\ 3 + 1 = 4 /\ 4 + 1 = 5
  OBVIOUS
<1> QED BY <1>8, <1>10, <1>11, <1>12, <1>13, <1>14, Zenon DEF a, list, s1, s2, s3

\* A label has no option, or one for as much of it as an option holds.
OptionOf(text) ==
    <<Option.LABEL>> \o AnyLanguage \o <<Len(text)>> \o text \o <<0>> \o <<RCP_TERMINATOR, RCP_TERMINATOR>>
OptionInv == m_label # <<>> => labelOption \in {<<>>, OptionOf(Text(m_label))}

LEMMA UpdateWithLabelHolds ==
    ASSUME FormatInv, m_label # <<>>, labelOption \in Seq(Byte),
           NEW type \in Kind, NEW value \in Seq(Byte), type = "b" => value = <<>>
    PROVE  LET a == Filled(UpdateWithLabel(type, value))
               end == IF type = "b" THEN 6 ELSE 7 + Len(value) IN
           /\ a \in Seq(Byte) /\ Len(a) = end + Len(labelOption)
           /\ Holds(a, 1, <<Command.UPDATE, Option.DATA>>) /\ Holds(a, 3, Store16(m_id))
           /\ Holds(a, 5, <<TypeId[type]>>) /\ Holds(a, 6, <<RCP_TERMINATOR>>)
           /\ type # "b" => Holds(a, 7, <<Option.VALUE>>) /\ Holds(a, 8, value)
           /\ Holds(a, end + 1, labelOption)
<1> DEFINE s1 == <<Command.UPDATE, Option.DATA>>
           s2 == Store16(m_id)
           s3 == <<TypeId[type]>>
           s4 == <<RCP_TERMINATOR>>
           s5 == <<Option.VALUE>>
           end == IF type = "b" THEN 6 ELSE 7 + Len(value)
           p1 == At(0, s1)
           p2 == At(2, s2)
           p3 == At(4, s3)
           p4 == At(5, s4)
           p5 == At(6, s5)
           p6 == At(7, value)
           p7 == At(end, labelOption)
           parts == <<p1, p2, p3, p4, p5, p6, p7>>
           P == [at : Nat, bytes : Seq(Byte)]
           list == UpdateWithLabel(type, value)
           a == Filled(list)
<1>1. s1 \in Seq(Byte) /\ Len(s1) = 2 /\ s3 \in Seq(Byte) /\ Len(s3) = 1
      /\ s4 \in Seq(Byte) /\ Len(s4) = 1 /\ s5 \in Seq(Byte) /\ Len(s5) = 1
  BY ProtocolBytes
<1>2. s2 \in Seq(Byte) /\ Len(s2) = 2
  <2>1. m_id \in Int
    BY BaseAssumption DEF FormatInv, PacketsTypeOK, ValidId
  <2> QED BY <2>1, BytesStored
<1>3. Written(list)
  BY OnWire, UpdateWithLabelWritten
<1>4. list.size = end + Len(labelOption) /\ list.parts = SETUP_UPDATE_PACKET(type) \o <<p6, p7>>
  BY DEF UpdateWithLabel
<1>5. SETUP_UPDATE_PACKET(type) = <<p1, p2, p3, p4, p5>>
  BY Zenon DEF SETUP_UPDATE_PACKET
<1>6. end \in Nat /\ end >= 6 /\ Len(value) \in Nat /\ (type # "b" => end = 7 + Len(value)) /\ (type = "b" => end = 6)
  OBVIOUS
<1> HIDE DEF s1, s2, s3, s4, s5, end, list
<1>7. /\ p1 \in P /\ p1.at = 0 /\ p1.bytes = s1 /\ p2 \in P /\ p2.at = 2 /\ p2.bytes = s2
      /\ p3 \in P /\ p3.at = 4 /\ p3.bytes = s3 /\ p4 \in P /\ p4.at = 5 /\ p4.bytes = s4
  BY <1>1, <1>2 DEF At
<1>8. /\ p5 \in P /\ p5.at = 6 /\ p5.bytes = s5 /\ p6 \in P /\ p6.at = 7 /\ p6.bytes = value
      /\ p7 \in P /\ p7.at = end /\ p7.bytes = labelOption
  BY <1>1, <1>6 DEF At
<1> HIDE DEF p1, p2, p3, p4, p5, p6, p7, P
<1>9. list.parts = parts
  <2>1. <<p1, p2, p3, p4, p5>> \o <<p6, p7>> = parts
    BY <1>7, <1>8, PartsJoined
  <2> QED BY <1>4, <1>5, <2>1, Zenon
<1>10. /\ parts[1] = p1 /\ parts[2] = p2 /\ parts[3] = p3 /\ parts[4] = p4
       /\ parts[5] = p5 /\ parts[6] = p6 /\ parts[7] = p7 /\ DOMAIN parts = 1 .. 7
  OBVIOUS
<1> HIDE DEF parts
<1>11. \A j \in 1 .. 7 : j = 1 \/ j = 2 \/ j = 3 \/ j = 4 \/ j = 5 \/ j = 6 \/ j = 7
  OBVIOUS
<1>12. \A j \in DOMAIN list.parts : list.parts[j].bytes \in Seq(Byte)
  BY <1>1, <1>2, <1>7, <1>8, <1>9, <1>10, <1>11
<1>13. a \in Seq(Byte) /\ Len(a) = end + Len(labelOption)
  BY <1>3, <1>4, <1>12, FilledFrom
<1>14. ASSUME NEW j \in 1 .. 7, NEW at, NEW s \in Seq(Byte), parts[j] = At(at, s), at + Len(s) <= list.size,
              \A i \in 1 .. 7 : i > j => at + Len(s) <= parts[i].at
       PROVE  Holds(a, at + 1, s)
  <2>1. Ends(list.parts[j]) <= list.size
    BY <1>9, <1>14 DEF At, Ends
  <2> QED BY <1>3, <1>9, <1>10, <1>13, <1>14, <2>1, PartHeld
<1> HIDE DEF a
<1> DEFINE size == list.size
<1>a. /\ size \in Nat /\ size >= 6 /\ end + Len(labelOption) <= size
       /\ (type # "b" => size >= 7 /\ 7 + Len(value) <= size)
  BY <1>4, <1>6
<1> HIDE DEF size
<1>15. /\ parts[1].at = 0 /\ parts[2].at = 2 /\ parts[3].at = 4 /\ parts[4].at = 5
       /\ parts[5].at = 6 /\ parts[6].at = 7 /\ parts[7].at = end
  BY <1>7, <1>8, <1>10
<1>16. Holds(a, 0 + 1, s1)
  <2>1. \A i \in 1 .. 7 : i > 1 => 0 + Len(s1) <= parts[i].at
    BY <1>1, <1>6, <1>11, <1>15
  <2>2. parts[1] = At(0, s1) /\ 1 \in 1 .. 7
    BY <1>10 DEF p1
  <2>3. 0 + Len(s1) <= list.size
    BY <1>1, <1>a DEF size
  <2> QED BY <1>1, <1>14, <2>1, <2>2, <2>3
<1>17. Holds(a, 2 + 1, s2)
  <2>1. \A i \in 1 .. 7 : i > 2 => 2 + Len(s2) <= parts[i].at
    BY <1>2, <1>6, <1>11, <1>15
  <2>2. parts[2] = At(2, s2) /\ 2 \in 1 .. 7
    BY <1>10 DEF p2
  <2>3. 2 + Len(s2) <= list.size
    BY <1>2, <1>a DEF size
  <2> QED BY <1>2, <1>14, <2>1, <2>2, <2>3
<1>18. Holds(a, 4 + 1, s3)
  <2>1. \A i \in 1 .. 7 : i > 3 => 4 + Len(s3) <= parts[i].at
    BY <1>1, <1>6, <1>11, <1>15
  <2>2. parts[3] = At(4, s3) /\ 3 \in 1 .. 7
    BY <1>10 DEF p3
  <2>3. 4 + Len(s3) <= list.size
    BY <1>1, <1>a DEF size
  <2> QED BY <1>1, <1>14, <2>1, <2>2, <2>3
<1>19. Holds(a, 5 + 1, s4)
  <2>1. \A i \in 1 .. 7 : i > 4 => 5 + Len(s4) <= parts[i].at
    BY <1>1, <1>6, <1>11, <1>15
  <2>2. parts[4] = At(5, s4) /\ 4 \in 1 .. 7
    BY <1>10 DEF p4
  <2>3. 5 + Len(s4) <= list.size
    BY <1>1, <1>a DEF size
  <2> QED BY <1>1, <1>14, <2>1, <2>2, <2>3
<1>20. ASSUME type # "b"
       PROVE  Holds(a, 6 + 1, s5) /\ Holds(a, 7 + 1, value)
  <2>1. \A i \in 1 .. 7 : i > 5 => 6 + Len(s5) <= parts[i].at
    BY <1>1, <1>6, <1>11, <1>15, <1>20
  <2>2. parts[5] = At(6, s5) /\ 5 \in 1 .. 7
    BY <1>10 DEF p5
  <2>3. \A i \in 1 .. 7 : i > 6 => 7 + Len(value) <= parts[i].at
    BY <1>6, <1>11, <1>15, <1>20
  <2>4. parts[6] = At(7, value) /\ 6 \in 1 .. 7
    BY <1>10 DEF p6
  <2>a. 6 + Len(s5) <= list.size /\ 7 + Len(value) <= list.size
    BY <1>1, <1>20, <1>a DEF size
  <2>5. Holds(a, 6 + 1, s5)
    BY <1>1, <1>14, <2>1, <2>2, <2>a
  <2>6. Holds(a, 7 + 1, value)
    BY <1>14, <2>3, <2>4, <2>a
  <2> QED BY <2>5, <2>6
<1>21. Holds(a, end + 1, labelOption)
  <2>1. \A i \in 1 .. 7 : i > 7 => end + Len(labelOption) <= parts[i].at
    OBVIOUS
  <2>2. parts[7] = At(end, labelOption) /\ 7 \in 1 .. 7
    BY <1>10 DEF p7
  <2>3. end + Len(labelOption) <= list.size
    BY <1>a DEF size
  <2> QED BY <1>14, <2>1, <2>2, <2>3
<1>22. 0 + 1 = 1 /\ 2 + 1 = 3 /\ 4 + 1 = 5 /\ 5 + 1 = 6 /\ 6 + 1 = 7 /\ 7 + 1 = 8
  OBVIOUS
<1> QED BY <1>13, <1>16, <1>17, <1>18, <1>19, <1>20, <1>21, <1>22, Zenon DEF a, list, end, s1, s2, s3, s4, s5

-----------------------------------------------------------------------------
(* Numbers below 0, in two bytes and in four.                              *)

LEMMA IntDivision ==
    ASSUME NEW n \in Int, NEW b \in Nat, b > 0
    PROVE  /\ n \div b \in Int /\ n % b \in 0 .. b - 1
           /\ n = b * (n \div b) + (n % b)
<1>1. n % b \in 0 .. b - 1
  OBVIOUS
<1>2. n \div b \in Int
  OBVIOUS
<1>3. n = b * (n \div b) + (n % b)
  OBVIOUS
<1> QED BY <1>1, <1>2, <1>3

LEMMA IntQuotient ==
    ASSUME NEW n \in Int, NEW b \in Nat, b > 0, NEW q \in Int, NEW r \in 0 .. b - 1, n = b * q + r
    PROVE  n \div b = q /\ n % b = r
<1> DEFINE p == n \div b
           m == n % b
<1>1. p \in Int /\ m \in 0 .. b - 1 /\ n = b * p + m
  BY IntDivision
<1> HIDE DEF p, m
<1>2. b * (p + 1) = b * p + b /\ b * (q + 1) = b * q + b
  BY <1>1
<1>3. b * p \in Int /\ b * q \in Int
  BY <1>1
<1>4. CASE p >= q + 1
  <2>1. b * (q + 1) <= b * p
    BY <1>1, <1>4, Times
  <2> QED BY <1>1, <1>2, <1>3, <2>1
<1>5. CASE q >= p + 1
  <2>1. b * (p + 1) <= b * q
    BY <1>1, <1>5, Times
  <2> QED BY <1>1, <1>2, <1>3, <2>1
<1>6. p = q
  BY <1>1, <1>4, <1>5
<1>7. m = r
  BY <1>1, <1>3, <1>6
<1> QED BY <1>6, <1>7 DEF p, m

LEMMA Shifted ==
    ASSUME NEW n \in Int, NEW b \in Nat, b > 0, NEW k \in Int
    PROVE  (n + b * k) \div b = (n \div b) + k /\ (n + b * k) % b = n % b
<1> DEFINE q == n \div b
           r == n % b
           m == n + b * k
<1>1. q \in Int /\ r \in 0 .. b - 1 /\ n = b * q + r
  BY IntDivision
<1> HIDE DEF q, r
<1>2. m \in Int /\ q + k \in Int /\ b * q \in Int /\ b * k \in Int
  BY <1>1
<1>3. b * (q + k) = b * q + b * k
  BY <1>1
<1>4. m = b * (q + k) + r
  BY <1>1, <1>2, <1>3
<1> HIDE DEF m
<1>5. m \div b = q + k /\ m % b = r
  BY <1>1, <1>2, <1>4, IntQuotient
<1> QED BY <1>5 DEF m, q, r

LEMMA Ranges ==
    /\ Base \in Nat /\ Base > 0
    /\ Range16 \in Nat /\ Range16 > 0 /\ Range16 % 2 = 0
    /\ Range32 \in Nat /\ Range32 > 0 /\ Range32 % 2 = 0
    /\ Base * Base * Base \in Nat /\ Base * Base * Base > 0
<1>1. Base \in Nat /\ Base > 0 /\ Base % 2 = 0
  BY BaseAssumption, PacketsAssumption
<1>2. ASSUME NEW x \in Nat, NEW y \in Nat, x > 0, y > 0, y % 2 = 0
      PROVE  x * y \in Nat /\ x * y > 0 /\ (x * y) % 2 = 0
  <2>1. x * y \in Nat /\ x * y > 0
    BY <1>2
  <2>2. PICK h \in Int : y = 2 * h
    <3>1. y = 2 * (y \div 2) + (y % 2) /\ y \div 2 \in Int
      BY IntDivision
    <3> QED BY <1>2, <3>1
  <2>3. x * y = 2 * (x * h) + 0 /\ x * h \in Int
    BY <2>2
  <2> DEFINE z == x * y
             w == x * h
  <2>4. z \in Int /\ w \in Int /\ z = 2 * w + 0
    BY <2>1, <2>3
  <2> HIDE DEF z, w
  <2>5. z % 2 = 0
    BY <2>4, IntQuotient
  <2> QED BY <2>1, <2>5 DEF z
<1> DEFINE B2 == Base * Base
           B3 == B2 * Base
           B4 == B3 * Base
<1>3. B2 \in Nat /\ B2 > 0 /\ B2 % 2 = 0
  BY <1>1, <1>2
<1> HIDE DEF B2
<1>4. B3 \in Nat /\ B3 > 0
  BY <1>1, <1>2, <1>3
<1> HIDE DEF B3
<1>5. B4 \in Nat /\ B4 > 0 /\ B4 % 2 = 0
  BY <1>1, <1>2, <1>4
<1> QED BY <1>1, <1>3, <1>4, <1>5 DEF Range16, Range32, B2, B3, B4

\* A number that fits is read again.
LEMMA SignedRead ==
    ASSUME NEW range \in Nat, range > 0, range % 2 = 0,
           NEW v \in Int, -range <= 2 * v, 2 * v < range,
           NEW u \in 0 .. range - 1, u = IF v >= 0 THEN v ELSE v + range
    PROVE  Signed(u, range) = v
<1>1. range = 2 * (range \div 2) /\ range \div 2 \in Int
  OBVIOUS
<1>2. v >= 0 => u = v /\ u < range \div 2
  BY <1>1
<1>3. v < 0 => u = v + range /\ ~(u < range \div 2)
  BY <1>1
<1> QED BY <1>2, <1>3 DEF Signed

LEMMA IdIsRead ==
    ASSUME NEW id \in Int, ValidId(id)
    PROVE  Signed(Load16(Store16(id)), Range16) = id
<1> DEFINE v == IF id >= 0 THEN id ELSE id + Range16
<1>1. -Range16 <= 2 * id /\ 2 * id < Range16
  BY Ranges DEF ValidId
<1>2. v \in 0 .. Range16 - 1
  BY <1>1, Ranges
<1>3. Store16(id) = Store16(v)
  <2>1. CASE id >= 0
    BY <2>1
  <2>2. CASE id < 0
    <3>1. v = id + Base * Base
      BY <2>2 DEF Range16
    <3>2. (id + Base * Base) \div Base = (id \div Base) + Base /\ (id + Base * Base) % Base = id % Base
      BY Ranges, Shifted
    <3>3. Base * 1 = Base /\ id \div Base \in Int
      BY Ranges
    <3> DEFINE q == id \div Base
    <3> HIDE DEF q
    <3>4. (q + Base * 1) % Base = q % Base
      BY <3>3, Ranges, Shifted DEF q
    <3>5. (q + Base) % Base = q % Base
      BY <3>3, <3>4
    <3> HIDE DEF v
    <3> QED BY <3>1, <3>2, <3>5, Zenon DEF Store16, q
  <2> QED BY <2>1, <2>2
<1>4. Load16(Store16(v)) = v
  <2> HIDE DEF v
  <2> DEFINE q == v \div Base
             r == v % Base
  <2>1. v \in Int /\ 0 <= v
    BY <1>2, Ranges
  <2>2. q \in Int /\ r \in 0 .. Base - 1 /\ v = Base * q + r
    BY <2>1, Ranges, IntDivision
  <2>3. Store16(v) = <<q % Base, r>>
    BY DEF Store16
  <2> HIDE DEF q, r
  <2>4. q \in 0 .. Base - 1
    <3>1. CASE q < 0
      <4>1. Base * q <= Base * (-1) /\ Base * (-1) = -Base /\ Base * q \in Int
        BY <2>2, <3>1, Ranges, Times
      <4> QED BY <2>1, <2>2, <4>1, Ranges
    <3>2. CASE q >= Base
      <4>1. Base * Base <= Base * q /\ Base * q \in Int
        BY <2>2, <3>2, Ranges, Times
      <4> QED BY <1>2, <2>2, <4>1, Ranges DEF Range16
    <3> QED BY <2>2, <3>1, <3>2, Ranges
  <2>5. q % Base = q
    <3>1. q = Base * 0 + q
      BY <2>2, Ranges
    <3> QED BY <2>4, <3>1, Ranges, IntQuotient
  <2>6. Load16(<<q, r>>) = q * Base + r
    BY DEF Load16
  <2>7. q * Base = Base * q
    BY <2>2, Ranges
  <2> QED BY <2>2, <2>3, <2>5, <2>6, <2>7
<1> HIDE DEF v
<1>5. Signed(v, Range16) = id
  BY <1>1, <1>2, Ranges, SignedRead DEF v
<1> QED BY <1>3, <1>4, <1>5

LEMMA NumberIsRead ==
    ASSUME NEW n \in Int, -Range32 <= 2 * n, 2 * n < Range32
    PROVE  Signed(Load32(Store32(n)), Range32) = n
<1> DEFINE v == IF n >= 0 THEN n ELSE n + Range32
<1>1. v \in 0 .. Range32 - 1
  BY Ranges
<1>2. Store32(n) = Store32(v)
  <2>1. CASE n >= 0
    BY <2>1
  <2>2. CASE n < 0
    <3> DEFINE B2 == Base * Base
               B3 == Base * Base * Base
               q1 == n \div Base
               q2 == n \div B2
               q3 == n \div B3
    <3>1. B2 \in Nat /\ B2 > 0 /\ B3 \in Nat /\ B3 > 0 /\ Base \in Nat /\ Base > 0
      BY Ranges DEF Range16
    <3>2. Range32 = B3 * Base /\ Range32 = B2 * B2 /\ Range32 = Base * B3 /\ B3 = Base * B2 /\ B2 = Base * Base
      BY Ranges DEF Range32
    <3>3. v = n + Range32
      BY <2>2
    <3> HIDE DEF v, B2, B3
    <3>4. v \div B3 = q3 + Base
      BY <3>1, <3>2, <3>3, Shifted
    <3>5. v \div B2 = q2 + B2
      BY <3>1, <3>2, <3>3, Shifted
    <3>6. v \div Base = q1 + B3 /\ v % Base = n % Base
      BY <3>1, <3>2, <3>3, Shifted
    <3>7. q1 \in Int /\ q2 \in Int /\ q3 \in Int
      BY <3>1, IntDivision
    <3> HIDE DEF q1, q2, q3
    <3>8. (q3 + Base) % Base = q3 % Base
      <4>1. Base = Base * 1
        BY <3>1
      <4>2. (q3 + Base * 1) % Base = q3 % Base
        BY <3>1, <3>7, Shifted
      <4> QED BY <4>1, <4>2
    <3>9. (q2 + B2) % Base = q2 % Base
      BY <3>1, <3>2, <3>7, Shifted
    <3>10. (q1 + B3) % Base = q1 % Base
      BY <3>1, <3>2, <3>7, Shifted
    <3>11. /\ Store32(n) = <<q3 % Base, q2 % Base, q1 % Base, n % Base>>
           /\ Store32(v) = <<(v \div B3) % Base, (v \div B2) % Base, (v \div Base) % Base, v % Base>>
      BY Zenon DEF Store32, SizeBytes, B2, B3, q1, q2, q3
    <3> QED BY <3>4, <3>5, <3>6, <3>8, <3>9, <3>10, <3>11, Zenon
  <2> QED BY <2>1, <2>2
<1> HIDE DEF v
<1>3. Load32(Store32(v)) = v
  <2>1. v \in Nat /\ v < Base * Base * Base * Base
    BY <1>1, Ranges DEF Range32
  <2> QED BY <2>1, SizeIsRead DEF Load32, Store32
<1>4. Signed(v, Range32) = n
  BY <1>1, Ranges, SignedRead DEF v
<1> QED BY <1>2, <1>3, <1>4

-----------------------------------------------------------------------------
(* A packet of rcp.format is read as the update it stands for.             *)

LEMMA KindFound ==
    ASSUME NEW type \in Kind
    PROVE  KindOf(TypeId[type]) = type /\ type # "none"
<1> DEFINE k == CHOOSE t \in Kind : TypeId[t] = TypeId[type]
<1>1. k \in Kind /\ TypeId[k] = TypeId[type]
  OBVIOUS
<1>2. KindOf(TypeId[type]) = k
  BY Zenon DEF KindOf
<1> HIDE DEF k
<1>3. k = type
  BY <1>1, PacketsAssumption
<1> QED BY <1>2, <1>3 DEF Kind

\* A value is read wherever a list holds its bytes.
Encodes(type, value, v) ==
    /\ type \in Kind /\ value \in Seq(Byte) /\ (type = "b" => value = <<>>)
    /\ \A d, p : Holds(d, p, value) => ValueSize(type, d, p) = Len(value) /\ ValueAt(type, d, p) = v

LEMMA BangEncodes == Encodes("b", <<>>, <<>>) /\ \A d, p : ValueAt("b", d, p) = <<>>
<1>1. \A d, p : ValueSize("b", d, p) = 0 /\ ValueAt("b", d, p) = <<>>
  BY DEF ValueSize, ValueAt
<1>2. Len(<<>>) = 0 /\ <<>> \in Seq(Byte) /\ "b" \in Kind
  BY DEF Kind
<1> QED BY <1>1, <1>2 DEF Encodes

LEMMA ToggleEncodes ==
    ASSUME NEW b \in Byte
    PROVE  Encodes("t", <<b>>, <<<<"t", b>>>>)
<1>1. ASSUME NEW d, NEW p, Holds(d, p, <<b>>)
      PROVE  ValueSize("t", d, p) = 1 /\ ValueAt("t", d, p) = <<<<"t", b>>>>
  <2>1. Byte1(d, p) = b
    BY <1>1, HoldsByte
  <2> QED BY <2>1 DEF ValueSize, ValueAt
<1>2. Len(<<b>>) = 1 /\ <<b>> \in Seq(Byte) /\ "t" \in Kind /\ "t" # "b"
  BY DEF Kind
<1> QED BY <1>1, <1>2 DEF Encodes

LEMMA NumberEncodes ==
    ASSUME NEW type \in {"i", "f"}, NEW n \in Int, -Range32 <= 2 * n, 2 * n < Range32
    PROVE  Encodes(type, Store32(n), <<<<type, n>>>>)
<1>1. Store32(n) \in Seq(Byte) /\ Len(Store32(n)) = 4
  BY BytesStored
<1>2. Signed(Load32(Store32(n)), Range32) = n
  BY NumberIsRead
<1>3. ASSUME NEW d, NEW p, Holds(d, p, Store32(n))
      PROVE  ValueSize(type, d, p) = 4 /\ ValueAt(type, d, p) = <<<<type, n>>>>
  <2>1. Slice(d, p, 4) = Store32(n)
    <3>1. Slice(d, p, Len(Store32(n))) = Store32(n)
      BY <1>3, HoldsSlice
    <3> QED BY <1>1, <3>1, Zenon
  <2>2. Signed(Load32(Slice(d, p, 4)), Range32) = n
    BY <1>2, <2>1, Zenon
  <2>3. ValueAt(type, d, p) = <<<<type, Signed(Load32(Slice(d, p, 4)), Range32)>>>>
    BY DEF ValueAt
  <2>4. ValueSize(type, d, p) = 4
    BY DEF ValueSize
  <2> QED BY <2>2, <2>3, <2>4, Zenon
<1>4. type \in Kind /\ type # "b"
  BY DEF Kind
<1> QED BY <1>1, <1>3, <1>4, Zenon DEF Encodes

LEMMA SymbolEncodes ==
    ASSUME NEW str \in Seq(Byte), Len(str) < Range32
    PROVE  Encodes("s", Store32(Len(str)) \o str, <<<<"s", str>>>>)
<1> DEFINE head == Store32(Len(str))
           value == head \o str
<1>1. head \in Seq(Byte) /\ Len(head) = 4 /\ Load32(head) = Len(str)
  <2>1. Len(str) \in Nat /\ Len(str) < Base * Base * Base * Base
    BY DEF Range32
  <2> QED BY <2>1, SizeIsRead DEF Store32, Load32
<1> HIDE DEF head
<1>2. value \in Seq(Byte) /\ Len(value) = 4 + Len(str)
  <2>1. value \in Seq(Byte) /\ Len(value) = Len(head) + Len(str)
    BY <1>1, Together
  <2> QED BY <1>1, <2>1
<1>3. ASSUME NEW d, NEW p, Holds(d, p, value)
      PROVE  ValueSize("s", d, p) = 4 + Len(str) /\ ValueAt("s", d, p) = <<<<"s", str>>>>
  <2>1. Holds(d, p, head) /\ Holds(d, p + Len(head), str)
    BY <1>1, <1>3, HoldsBoth
  <2>2. Slice(d, p, Len(head)) = head /\ Slice(d, p + Len(head), Len(str)) = str
    BY <2>1, HoldsSlice
  <2>3. Slice(d, p, 4) = head /\ Slice(d, p + 4, Len(str)) = str
    BY <1>1, <2>2, Zenon
  <2>4. Load32(Slice(d, p, 4)) = Len(str)
    BY <1>1, <2>3, Zenon
  <2>5. ValueSize("s", d, p) = 4 + Load32(Slice(d, p, 4))
    BY DEF ValueSize
  <2>6. ValueAt("s", d, p) = <<<<"s", Slice(d, p + 4, Load32(Slice(d, p, 4)))>>>>
    BY DEF ValueAt
  <2> QED BY <2>3, <2>4, <2>5, <2>6, Zenon
<1> HIDE DEF value
<1>4. "s" \in Kind /\ "s" # "b"
  BY DEF Kind
<1>5. Encodes("s", value, <<<<"s", str>>>>)
  BY <1>2, <1>3, <1>4, Zenon DEF Encodes
<1> QED BY <1>5 DEF value, head

\* A packet that says it, if a label in force is not lost or cut.
Conveys(a, o) == a \in Payload /\ (LabelIsWhole => Reads(a, o))

\* The update with the id and the label in force.
LabelAtoms == IF m_label = <<>> THEN <<>> ELSE <<<<"s", m_label>>>>
Update(v) == Output(<<m_id>>, "update", LabelAtoms \o v)

\* The id where a list holds its bytes.
LEMMA IdRead ==
    ASSUME FormatInv, NEW d, NEW p, Holds(d, p, Store16(m_id))
    PROVE  Id(d, p) = m_id
<1>1. ValidId(m_id) /\ m_id \in Int
  BY Ranges DEF FormatInv, PacketsTypeOK, ValidId
<1>2. Len(Store16(m_id)) = 2
  BY <1>1, BytesStored
<1>3. Slice(d, p, 2) = Store16(m_id)
  <2>1. Slice(d, p, Len(Store16(m_id))) = Store16(m_id)
    BY HoldsSlice
  <2> QED BY <1>2, <2>1, Zenon
<1>4. Signed(Load16(Store16(m_id)), Range16) = m_id
  BY <1>1, IdIsRead
<1> QED BY <1>3, <1>4, Zenon DEF Id

LEMMA CommandsApart ==
    ASSUME NEW d
    PROVE  /\ d[1] = Command.UPDATE => rcp_packet_parse(d) = ParseUpdate(d)
           /\ d[1] = Command.UPDATEVALUE => rcp_packet_parse(d) = ParseUpdateValue(d)
<1>1. /\ "INFO" \in CommandName /\ "INITIALIZE" \in CommandName /\ "DISCOVER" \in CommandName
      /\ "UPDATE" \in CommandName /\ "REMOVE" \in CommandName /\ "UPDATEVALUE" \in CommandName
  BY DEF CommandName
<1>2. \A c, e \in CommandName : Command[c] = Command[e] => c = e
  BY PacketsAssumption
<1>3. \A c \in CommandName : (c # "UPDATE" => Command["UPDATE"] # Command[c])
                             /\ (c # "UPDATEVALUE" => Command["UPDATEVALUE"] # Command[c])
  BY <1>1, <1>2, Zenon
<1>4. /\ Command["UPDATE"] # Command["INFO"] /\ Command["UPDATE"] # Command["INITIALIZE"]
      /\ Command["UPDATE"] # Command["DISCOVER"] /\ Command["UPDATE"] # Command["REMOVE"]
      /\ Command["UPDATEVALUE"] # Command["INFO"] /\ Command["UPDATEVALUE"] # Command["INITIALIZE"]
      /\ Command["UPDATEVALUE"] # Command["DISCOVER"] /\ Command["UPDATEVALUE"] # Command["REMOVE"]
      /\ Command["UPDATEVALUE"] # Command["UPDATE"]
  BY <1>1, <1>3
<1>5. d[1] = Command["UPDATE"] => rcp_packet_parse(d) = ParseUpdate(d)
  BY <1>4 DEF rcp_packet_parse
<1>6. d[1] = Command["UPDATEVALUE"] => rcp_packet_parse(d) = ParseUpdateValue(d)
  BY <1>4 DEF rcp_packet_parse
<1> QED BY <1>5, <1>6

LEMMA UpdateValueReads ==
    ASSUME FormatInv, m_label = <<>>, NEW type, NEW value, NEW v, Encodes(type, value, v)
    PROVE  LET a == Filled(UpdateValue(type, value)) IN
           Reads(a, Update(v)) /\ Len(a) = 4 + Len(value)
<1> DEFINE a == Filled(UpdateValue(type, value))
<1>1. type \in Kind /\ value \in Seq(Byte)
  BY DEF Encodes
<1>2. /\ a \in Seq(Byte) /\ Len(a) = 4 + Len(value)
      /\ Holds(a, 1, <<Command.UPDATEVALUE>>) /\ Holds(a, 2, Store16(m_id))
      /\ Holds(a, 4, <<TypeId[type]>>) /\ Holds(a, 5, value)
  BY <1>1, UpdateValueHolds, Zenon
<1> HIDE DEF a
<1>3. ASSUME NEW rest \in Seq(Byte)
      PROVE  rcp_packet_parse(a \o rest) = [size |-> Len(a), output |-> Update(v)]
  <2> DEFINE d == a \o rest
  <2>1. /\ Holds(d, 1, <<Command.UPDATEVALUE>>) /\ Holds(d, 2, Store16(m_id))
        /\ Holds(d, 4, <<TypeId[type]>>) /\ Holds(d, 5, value)
    BY <1>2, HoldsOn, Zenon
  <2> HIDE DEF d
  <2>2. d[1] = Command.UPDATEVALUE /\ Byte1(d, 4) = TypeId[type] /\ Id(d, 2) = m_id
    BY <2>1, HoldsByte, IdRead
  <2>3. KindOf(Byte1(d, 4)) = type /\ type # "none"
    BY <1>1, <2>2, KindFound
  <2>4. ValueSize(type, d, 5) = Len(value) /\ ValueAt(type, d, 5) = v
    BY <2>1, Zenon DEF Encodes
  <2>5. rcp_packet_parse(d) = ParseUpdateValue(d)
    BY <2>2, CommandsApart
  <2>6. ParseUpdateValue(d) = [size |-> 4 + Len(value), output |-> Output(<<m_id>>, "update", <<>> \o v)]
    BY <2>2, <2>3, <2>4, Zenon DEF ParseUpdateValue, parameterUpdate
  <2>7. LabelAtoms = <<>>
    BY DEF LabelAtoms
  <2> QED BY <1>2, <2>5, <2>6, <2>7, Zenon DEF d, Update
<1>4. a \in Payload
  <2>1. Len(a) > 0
    BY <1>1, <1>2
  <2> QED BY <1>2, <2>1 DEF Payload
<1>5. Reads(a, Update(v))
  BY <1>3, <1>4 DEF Reads
<1> QED BY <1>2, <1>5 DEF a

LEMMA HoldsPair ==
    ASSUME NEW d, NEW p, NEW b, NEW c, Holds(d, p, <<b, c>>)
    PROVE  Byte1(d, p) = b /\ Byte1(d, p + 1) = c /\ d[p] = b
<1>1. Len(<<b, c>>) = 2 /\ 1 \in 1 .. 2 /\ 2 \in 1 .. 2 /\ <<b, c>>[1] = b /\ <<b, c>>[2] = c
  OBVIOUS
<1>2. d \in Seq(Byte) /\ p \in Nat \ {0} /\ p + 2 <= Len(d) + 1
  BY <1>1 DEF Holds
<1>3. d[p + 1 - 1] = b /\ d[p + 2 - 1] = c
  BY <1>1 DEF Holds
<1>4. p \in DOMAIN d /\ p + 1 \in DOMAIN d /\ p + 1 - 1 = p /\ p + 2 - 1 = p + 1
  BY <1>2
<1>5. d[p] = b /\ d[p + 1] = c
  BY <1>3, <1>4
<1> QED BY <1>4, <1>5 DEF Byte1

\* What rcp_packet_parse finds at a label.
OptionAt(d, p, label) ==
    /\ Byte1(d, p) = Option.LABEL /\ Byte1(d, p + 4) = Len(label)
    /\ Slice(d, p + 5, Len(label)) = label
    /\ Byte1(d, p + 5 + Len(label)) = RCP_TERMINATOR
    /\ Byte1(d, p + 6 + Len(label)) = RCP_TERMINATOR
    /\ Byte1(d, p + 7 + Len(label)) = RCP_TERMINATOR

LEMMA OptionType ==
    ASSUME NEW label \in Seq(Byte), Len(label) < Base
    PROVE  /\ OptionOf(label) \in Seq(Byte) /\ Len(OptionOf(label)) = 8 + Len(label)
           /\ \A d, p : Holds(d, p, OptionOf(label)) => OptionAt(d, p, label)
<1> DEFINE n == Len(label)
           o1 == <<Option.LABEL>>
           b == <<n>>
           z == <<0>>
           t == <<RCP_TERMINATOR, RCP_TERMINATOR>>
           o2 == o1 \o AnyLanguage
           o3 == o2 \o b
           o4 == o3 \o label
           o5 == o4 \o z
           o6 == o5 \o t
<1>1. AnyLanguage \in Seq(Byte) /\ Len(AnyLanguage) = 3
  <2>1. AnyLanguage \in [1 .. 3 -> Byte]
    BY PacketsAssumption
  <2>2. \A m \in Nat : \A f \in [1 .. m -> Byte] : f \in Seq(Byte) /\ Len(f) = m
    OBVIOUS
  <2>3. 3 \in Nat
    OBVIOUS
  <2> QED BY <2>1, <2>2, <2>3, Zenon
<1>2. n \in Nat /\ n \in Byte
  BY BaseAssumption DEF Byte
<1>3. o1 \in Seq(Byte) /\ Len(o1) = 1
  BY ProtocolBytes
<1>4. b \in Seq(Byte) /\ Len(b) = 1 /\ z \in Seq(Byte) /\ Len(z) = 1 /\ t \in Seq(Byte) /\ Len(t) = 2
  BY <1>2, ProtocolBytes DEF RCP_TERMINATOR
<1>5. OptionOf(label) = o6
  BY Zenon DEF OptionOf
<1> HIDE DEF o1, b, z, t
<1>6. o2 \in Seq(Byte) /\ Len(o2) = 4
  <2>1. o2 \in Seq(Byte) /\ Len(o2) = Len(o1) + Len(AnyLanguage)
    BY <1>1, <1>3, Together
  <2> QED BY <1>1, <1>3, <2>1
<1> HIDE DEF o2
<1>7. o3 \in Seq(Byte) /\ Len(o3) = 5
  <2>1. o3 \in Seq(Byte) /\ Len(o3) = Len(o2) + Len(b)
    BY <1>4, <1>6, Together
  <2> QED BY <1>4, <1>6, <2>1
<1> HIDE DEF o3
<1>8. o4 \in Seq(Byte) /\ Len(o4) = 5 + n
  <2>1. o4 \in Seq(Byte) /\ Len(o4) = Len(o3) + Len(label)
    BY <1>7, Together
  <2> QED BY <1>7, <2>1
<1> HIDE DEF o4
<1>9. o5 \in Seq(Byte) /\ Len(o5) = 6 + n
  <2>1. o5 \in Seq(Byte) /\ Len(o5) = Len(o4) + Len(z)
    BY <1>4, <1>8, Together
  <2> QED BY <1>2, <1>4, <1>8, <2>1
<1> HIDE DEF o5
<1>10. o6 \in Seq(Byte) /\ Len(o6) = 8 + n
  <2>1. o6 \in Seq(Byte) /\ Len(o6) = Len(o5) + Len(t)
    BY <1>4, <1>9, Together
  <2> QED BY <1>2, <1>4, <1>9, <2>1
<1>11. ASSUME NEW d, NEW p, Holds(d, p, o6)
       PROVE  OptionAt(d, p, label)
  <2>0. p \in Nat
    BY <1>11 DEF Holds
  <2>1. Holds(d, p, o5) /\ Holds(d, p + Len(o5), t)
    BY <1>4, <1>9, <1>11, HoldsBoth
  <2>2. Holds(d, p, o4) /\ Holds(d, p + Len(o4), z)
    BY <1>4, <1>8, <2>1, HoldsBoth DEF o5
  <2>3. Holds(d, p, o3) /\ Holds(d, p + Len(o3), label)
    BY <1>7, <2>2, HoldsBoth DEF o4
  <2>4. Holds(d, p, o2) /\ Holds(d, p + Len(o2), b)
    BY <1>4, <1>6, <2>3, HoldsBoth DEF o3
  <2>5. Holds(d, p, o1)
    BY <1>1, <1>3, <2>4, HoldsBoth DEF o2
  <2>6. Byte1(d, p) = Option.LABEL
    BY <2>5, HoldsByte DEF o1
  <2>7. Byte1(d, p + Len(o2)) = n
    BY <2>4, HoldsByte DEF b
  <2>8. Slice(d, p + Len(o3), n) = label
    BY <2>3, HoldsSlice
  <2>9. Byte1(d, p + Len(o4)) = RCP_TERMINATOR
    BY <2>2, HoldsByte DEF z, RCP_TERMINATOR
  <2>10. Byte1(d, p + Len(o5)) = RCP_TERMINATOR /\ Byte1(d, p + Len(o5) + 1) = RCP_TERMINATOR
    BY <2>1, HoldsPair DEF t
  <2>11. /\ p + Len(o2) = p + 4 /\ p + Len(o3) = p + 5 /\ p + Len(o4) = p + 5 + n
         /\ p + Len(o5) = p + 6 + n /\ p + Len(o5) + 1 = p + 7 + n
    BY <1>2, <1>6, <1>7, <1>8, <1>9, <2>0
  <2> QED BY <2>6, <2>7, <2>8, <2>9, <2>10, <2>11, Zenon DEF OptionAt, n
<1> HIDE DEF o6
<1> QED BY <1>5, <1>10, <1>11, Zenon DEF n

LEMMA UpdateWithLabelReads ==
    ASSUME FormatInv, OptionInv, m_label # <<>>, NEW type, NEW value, NEW v, Encodes(type, value, v),
           type = "b" => v = <<>>
    PROVE  LET a == Filled(UpdateWithLabel(type, value)) IN
           Conveys(a, Update(v)) /\ Len(a) <= Len(value) + Base + 15
<1> DEFINE a == Filled(UpdateWithLabel(type, value))
           end == IF type = "b" THEN 6 ELSE 7 + Len(value)
           n == Len(m_label)
           at == end + 1
<1>1. type \in Kind /\ value \in Seq(Byte) /\ (type = "b" => value = <<>>)
  BY DEF Encodes
<1>2. m_label \in Seq(Byte) /\ labelOption \in {<<>>, OptionOf(Text(m_label))}
  BY DEF OptionInv, FormatInv, PacketsTypeOK
<1>3. /\ labelOption \in Seq(Byte) /\ Len(labelOption) <= Base + 7
      /\ LabelIsWhole => n < Base /\ labelOption = OptionOf(m_label) /\ Len(labelOption) = 8 + n
  <2> DEFINE text == Text(m_label)
  <2>1. text \in Seq(Byte) /\ Len(text) < Base /\ (n < Base => text = m_label)
    BY <1>2, TextType
  <2> HIDE DEF text
  <2>2. OptionOf(text) \in Seq(Byte) /\ Len(OptionOf(text)) = 8 + Len(text)
    BY <2>1, OptionType
  <2>3. Len(text) \in Nat /\ Base \in Nat /\ <<>> \in Seq(Byte) /\ Len(<<>>) = 0
    BY <2>1, BaseAssumption
  <2>4. Len(OptionOf(text)) <= Base + 7
    BY <2>1, <2>2, <2>3
  <2>5. CASE labelOption = <<>>
    BY <2>3, <2>5 DEF LabelIsWhole
  <2>6. CASE labelOption = OptionOf(text)
    <3>1. LabelIsWhole => n < Base
      BY DEF LabelIsWhole
    <3> QED BY <2>1, <2>2, <2>4, <2>6, <3>1
  <2> QED BY <1>2, <2>5, <2>6 DEF text
<1>4. n \in Nat /\ Base \in Nat /\ end \in Nat /\ end >= 6 /\ end <= 7 + Len(value) /\ Len(value) \in Nat
      /\ (type = "b" => end = 6) /\ (type # "b" => end = 7 + Len(value))
  BY <1>1, <1>2, BaseAssumption
<1>5. /\ a \in Seq(Byte) /\ Len(a) = end + Len(labelOption)
      /\ Holds(a, 1, <<Command.UPDATE, Option.DATA>>) /\ Holds(a, 3, Store16(m_id))
      /\ Holds(a, 5, <<TypeId[type]>>) /\ Holds(a, 6, <<RCP_TERMINATOR>>)
      /\ (type # "b" => Holds(a, 7, <<Option.VALUE>>) /\ Holds(a, 8, value))
      /\ Holds(a, at, labelOption)
  BY <1>1, <1>3, UpdateWithLabelHolds, Zenon
<1> HIDE DEF a, end
<1>6. ASSUME LabelIsWhole, NEW rest \in Seq(Byte)
      PROVE  rcp_packet_parse(a \o rest) = [size |-> Len(a), output |-> Update(v)]
  <2> DEFINE d == a \o rest
  <2>1. /\ Holds(d, 1, <<Command.UPDATE, Option.DATA>>) /\ Holds(d, 3, Store16(m_id))
        /\ Holds(d, 5, <<TypeId[type]>>) /\ Holds(d, 6, <<RCP_TERMINATOR>>)
        /\ (type # "b" => Holds(d, 7, <<Option.VALUE>>) /\ Holds(d, 8, value))
        /\ Holds(d, at, labelOption)
    BY <1>5, HoldsOn, Zenon
  <2> HIDE DEF d, at
  <2>2. d[1] = Command.UPDATE /\ Byte1(d, 2) = Option.DATA
    <3>1. d[1] = Command.UPDATE /\ Byte1(d, 1 + 1) = Option.DATA
      BY <2>1, HoldsPair
    <3> QED BY <3>1
  <2>3. Byte1(d, 5) = TypeId[type] /\ Byte1(d, 6) = RCP_TERMINATOR /\ Id(d, 3) = m_id
    BY <2>1, HoldsByte, IdRead
  <2>4. KindOf(Byte1(d, 5)) = type /\ type # "none"
    BY <1>1, <2>3, KindFound
  <2>5. /\ Byte1(d, at) = Option.LABEL /\ Byte1(d, at + 4) = n /\ Slice(d, at + 5, n) = m_label
        /\ Byte1(d, at + 5 + n) = RCP_TERMINATOR /\ Byte1(d, at + 6 + n) = RCP_TERMINATOR
        /\ Byte1(d, at + 7 + n) = RCP_TERMINATOR
    <3>1. Holds(d, at, OptionOf(m_label))
      BY <1>3, <1>6, <2>1
    <3>2. OptionAt(d, at, m_label)
      BY <1>2, <1>3, <1>6, <3>1, OptionType
    <3> QED BY <3>2, Zenon DEF OptionAt
  <2> DEFINE hasValue == Byte1(d, 7) = Option.VALUE
             label == IF hasValue THEN 8 + ValueSize(type, d, 8) ELSE 7
             said1 == IF hasValue THEN ValueAt(type, d, 8) ELSE ValueAt(type, <<>>, 1)
  <2>6. label = at /\ said1 = v
    <3>1. CASE type = "b"
      <4>1. at = 7
        BY <1>4, <3>1 DEF at
      <4>2. ~hasValue
        BY <2>5, <4>1, PacketsAssumption
      <4> QED BY <3>1, <4>1, <4>2, BangEncodes
    <3>2. CASE type # "b"
      <4>1. hasValue
        BY <2>1, <3>2, HoldsByte
      <4>2. ValueSize(type, d, 8) = Len(value) /\ ValueAt(type, d, 8) = v
        BY <2>1, <3>2, Zenon DEF Encodes
      <4>3. at = 8 + Len(value)
        BY <1>4, <3>2 DEF at
      <4> QED BY <4>1, <4>2, <4>3
    <3> QED BY <3>1, <3>2
  <2> DEFINE hasLabel == Byte1(d, label) = Option.LABEL
             len == Byte1(d, label + 4)
             last == IF hasLabel THEN label + 6 + len ELSE label
             bad == \/ type = "none" \/ Byte1(d, 2) # Option.DATA
                    \/ \E p \in {6, last, last + 1} \cup IF hasLabel THEN {last - 1} ELSE {} :
                          Byte1(d, p) # RCP_TERMINATOR
             name == IF hasLabel THEN <<<<"s", Slice(d, label + 5, len)>>>> ELSE <<>>
  <2>7. ParseUpdate(d) =
          IF bad THEN NoPacket
          ELSE [size |-> last + 1, output |-> parameterUpdate(Id(d, 3), name, said1)]
    BY <2>4, ZenonT(60) DEF ParseUpdate
  <2> HIDE DEF said1, label, hasValue
  <2>8. hasLabel /\ len = n /\ name = <<<<"s", m_label>>>>
    BY <2>5, <2>6, Zenon
  <2>9. at \in Nat /\ last = at + 6 + n /\ last + 1 = at + 7 + n /\ last - 1 = at + 5 + n
    <3>1. at \in Nat
      BY <1>4 DEF at
    <3>2. last = at + 6 + n
      BY <2>6, <2>8, Zenon
    <3> HIDE DEF last
    <3> QED BY <1>4, <3>1, <3>2
  <2> HIDE DEF len, name, last, hasLabel
  <2>10. ~bad
    <3>1. /\ Byte1(d, 6) = RCP_TERMINATOR /\ Byte1(d, last) = RCP_TERMINATOR
          /\ Byte1(d, last + 1) = RCP_TERMINATOR /\ Byte1(d, last - 1) = RCP_TERMINATOR
      BY <2>3, <2>5, <2>9, Zenon
    <3>2. \A p \in {6, last, last + 1} \cup (IF hasLabel THEN {last - 1} ELSE {}) : Byte1(d, p) = RCP_TERMINATOR
      BY <2>8, <3>1
    <3> QED BY <2>2, <2>4, <3>2
  <2> HIDE DEF bad
  <2>11. ParseUpdate(d) = [size |-> last + 1, output |-> Output(<<m_id>>, "update", <<<<"s", m_label>>>> \o v)]
    BY <2>3, <2>6, <2>7, <2>8, <2>10, Zenon DEF parameterUpdate
  <2>12. rcp_packet_parse(d) = ParseUpdate(d)
    BY <2>2, CommandsApart
  <2>13. last + 1 = Len(a)
    <3>1. Len(labelOption) = 8 + n
      BY <1>3, <1>6, Zenon
    <3>2. Len(a) = end + (8 + n)
      BY <1>5, <3>1, Zenon
    <3>3. at = end + 1
      BY DEF at
    <3> HIDE DEF at
    <3> QED BY <1>3, <1>4, <2>9, <3>2, <3>3
  <2>14. LabelAtoms = <<<<"s", m_label>>>>
    BY DEF LabelAtoms
  <2> QED BY <2>11, <2>12, <2>13, <2>14, Zenon DEF d, Update
<1>7. a \in Payload
  <2>1. Len(a) > 0
    BY <1>3, <1>4, <1>5
  <2> QED BY <1>5, <2>1 DEF Payload
<1>8. Conveys(a, Update(v))
  BY <1>6, <1>7 DEF Reads, Conveys
<1>9. Len(a) <= Len(value) + Base + 15
  BY <1>3, <1>4, <1>5
<1> QED BY <1>8, <1>9 DEF a

LEMMA PacketReads ==
    ASSUME FormatInv, OptionInv, NEW type, NEW value, NEW v, Encodes(type, value, v), type = "b" => v = <<>>
    PROVE  \E list : /\ Packet(type, value) = <<list>> /\ Conveys(Filled(list), Update(v))
                     /\ Len(Filled(list)) <= Len(value) + Base + 15
<1>0. value \in Seq(Byte) /\ Len(value) \in Nat /\ Base \in Nat
  BY BaseAssumption DEF Encodes
<1>1. CASE m_label = <<>>
  <2> DEFINE list == UpdateValue(type, value)
  <2>1. Packet(type, value) = <<list>>
    BY <1>1, Zenon DEF Packet
  <2>2. Reads(Filled(list), Update(v)) /\ Len(Filled(list)) = 4 + Len(value)
    BY <1>1, UpdateValueReads
  <2>4. Conveys(Filled(list), Update(v))
    BY <2>2 DEF Reads, Conveys
  <2> HIDE DEF list
  <2>3. Len(Filled(list)) <= Len(value) + Base + 15
    BY <1>0, <2>2
  <2> QED BY <2>1, <2>3, <2>4
<1>2. CASE m_label # <<>>
  <2> DEFINE list == UpdateWithLabel(type, value)
  <2>1. Packet(type, value) = <<list>>
    BY <1>2, Zenon DEF Packet
  <2>2. Conveys(Filled(list), Update(v)) /\ Len(Filled(list)) <= Len(value) + Base + 15
    BY <1>2, UpdateWithLabelReads
  <2> QED BY <2>1, <2>2
<1> QED BY <1>1, <1>2

-----------------------------------------------------------------------------
(* What a message means is what its packet says.                           *)

Means(lists, outs) ==
    \/ lists = <<>> /\ outs = <<>>
    \/ \E list, o : /\ lists = <<list>> /\ outs = <<o>>
                    /\ Conveys(Filled(list), o) /\ Len(Filled(list)) < Range32

LEMMA PacketMeans ==
    ASSUME FormatInv, OptionInv, NEW type, NEW value, NEW v, Encodes(type, value, v), type = "b" => v = <<>>,
           Len(value) + Base + 15 < Range32
    PROVE  Means(Packet(type, value), <<Update(v)>>)
<1>1. PICK list : /\ Packet(type, value) = <<list>> /\ Conveys(Filled(list), Update(v))
                  /\ Len(Filled(list)) <= Len(value) + Base + 15
  BY PacketReads
<1>2. Len(value) \in Nat /\ Len(Filled(list)) \in Nat /\ Base \in Nat /\ Range32 \in Nat
  BY <1>1, Ranges DEF Encodes, Conveys, Payload
<1>3. Len(Filled(list)) < Range32
  BY <1>1, <1>2
<1> QED BY <1>1, <1>3, Zenon DEF Means

LEMMA NothingLong == 4 + Base + 15 < Range32 /\ 1 + Base + 15 < Range32 /\ 0 + Base + 15 < Range32
<1>1. <<>> \in {<<>>} \cup StringArg \cup {to_string(h) : h \in FloatArg \cup {2 * v : v \in IntArg}}
  OBVIOUS
<1>2. Len(<<>>) + Base + 19 < Range32
  BY <1>1, NumbersAssumption, Zenon
<1> QED BY <1>2, Ranges

LEMMA SymbolMeans ==
    ASSUME ~CharIsSigned, FormatInv, OptionInv, NEW str \in Seq(Byte), Len(str) + Base + 19 < Range32,
           m_type \in {"auto", "s"}
    PROVE  Means(m_symbol(str), <<Update(<<<<"s", str>>>>)>>)
<1> DEFINE value == Store32(Len(str)) \o str
           v == <<<<"s", str>>>>
<1>1. m_symbol(str) = Packet("s", value)
  <2>1. Numbers(str) = str
    BY NumbersAreBytes
  <2> QED BY <2>1, Zenon DEF m_symbol
<1>2. Len(str) \in Nat /\ Len(str) < Range32
  BY Ranges
<1>3. Encodes("s", value, v)
  BY <1>2, SymbolEncodes
<1>4. Len(value) = 4 + Len(str)
  <2> DEFINE head == Store32(Len(str))
  <2>1. head \in Seq(Byte) /\ Len(head) = 4
    BY <1>2, BytesStored
  <2> HIDE DEF head
  <2>2. Len(head \o str) = Len(head) + Len(str)
    BY <2>1, Together
  <2> QED BY <2>1, <2>2 DEF head
<1> HIDE DEF value, v
<1>5. Len(value) + Base + 15 < Range32
  BY <1>2, <1>4, Ranges
<1>6. Means(Packet("s", value), <<Update(v)>>)
  <2>1. "s" # "b"
    OBVIOUS
  <2> QED BY <1>3, <1>5, <2>1, PacketMeans
<1> QED BY <1>1, <1>6, Zenon DEF v

LEMMA NumberMeans ==
    ASSUME FormatInv, OptionInv, NEW type \in {"i", "f"}, NEW n \in Int, -Range32 <= 2 * n, 2 * n < Range32
    PROVE  Means(Packet(type, Store32(n)), <<Update(<<<<type, n>>>>)>>)
<1> DEFINE value == Store32(n)
           v == <<<<type, n>>>>
<1>1. Encodes(type, value, v)
  BY NumberEncodes
<1>2. Len(value) = 4
  BY BytesStored
<1>3. Len(value) + Base + 15 < Range32
  BY <1>2, NothingLong, Zenon
<1>4. type # "b"
  OBVIOUS
<1> HIDE DEF value, v
<1>5. Means(Packet(type, value), <<Update(v)>>)
  BY <1>1, <1>3, <1>4, PacketMeans
<1> QED BY <1>5 DEF value, v

LEMMA ToggleMeans ==
    ASSUME FormatInv, OptionInv, NEW b \in {0, 1}
    PROVE  Means(Packet("t", <<b>>), <<Update(<<<<"t", b>>>>)>>)
<1> DEFINE value == <<b>>
           v == <<<<"t", b>>>>
<1>1. Encodes("t", value, v)
  <2>1. b \in Byte
    BY BaseAssumption DEF Byte
  <2> QED BY <2>1, ToggleEncodes
<1>2. Len(value) = 1
  OBVIOUS
<1>3. Len(value) + Base + 15 < Range32
  BY <1>2, NothingLong, Zenon
<1> HIDE DEF value, v
<1>4. Means(Packet("t", value), <<Update(v)>>)
  <2>1. "t" # "b"
    OBVIOUS
  <2> QED BY <1>1, <1>3, <2>1, PacketMeans
<1> QED BY <1>4 DEF value, v

LEMMA BangMeans ==
    ASSUME FormatInv, OptionInv
    PROVE  Means(Packet("b", <<>>), <<Update(<<>>)>>)
<1>1. Len(<<>>) + Base + 15 < Range32
  <2>1. Len(<<>>) = 0
    OBVIOUS
  <2> QED BY <2>1, NothingLong, Zenon
<1>2. Encodes("b", <<>>, <<>>)
  BY BangEncodes
<1> DEFINE value == <<>>
<1>3. Encodes("b", value, value) /\ Len(value) + Base + 15 < Range32 /\ value = <<>>
  BY <1>1, <1>2
<1> HIDE DEF value
<1>4. Means(Packet("b", value), <<Update(value)>>)
  BY <1>3, PacketMeans
<1> QED BY <1>3, <1>4

\* The numbers and strings that the patch sends.
LEMMA HalvesFit ==
    ASSUME NEW h \in FloatArg \cup {2 * v : v \in IntArg}
    PROVE  /\ h \in Int /\ -Range32 <= 2 * h /\ 2 * h < Range32
           /\ to_string(h) \in Seq(Byte) /\ Len(to_string(h)) + Base + 19 < Range32
<1> DEFINE Halves == FloatArg \cup {2 * v : v \in IntArg}
<1>1. h \in Int
  <2>1. IntArg \subseteq Int /\ FloatArg \subseteq Int
    BY SymbolsAssumption
  <2> QED BY <2>1
<1> HIDE DEF Halves
<1>2. h \in Halves
  BY DEF Halves
<1>3. -Range32 <= 2 * h /\ 2 * h < Range32
  BY <1>2, NumbersAssumption, Zenon DEF Halves
<1>4. to_string(h) \in Seq(Byte)
  BY <1>2, SymbolsAssumption, Zenon DEF Halves
<1>5. to_string(h) \in {<<>>} \cup StringArg \cup {to_string(g) : g \in Halves}
  BY <1>2, Zenon
<1>6. Len(to_string(h)) + Base + 19 < Range32
  BY <1>5, NumbersAssumption, Zenon DEF Halves
<1> QED BY <1>1, <1>3, <1>4, <1>6

LEMMA TruncatedFits ==
    ASSUME NEW h \in Int, -Range32 <= 2 * h, 2 * h < Range32
    PROVE  /\ Truncated(h) \in Int /\ -Range32 <= 2 * Truncated(h) /\ 2 * Truncated(h) < Range32
           /\ Truncated(h) > 0 <=> h >= 2
<1>1. Range32 \in Nat
  BY Ranges
<1>2. CASE h >= 0
  <2>1. Truncated(h) = h \div 2
    BY <1>2 DEF Truncated
  <2> DEFINE q == h \div 2
             r == h % 2
  <2>2. q \in Int /\ r \in 0 .. 1 /\ h = 2 * q + r
    BY IntDivision
  <2> HIDE DEF q, r
  <2>3. q >= 0 /\ q <= h /\ (q > 0 <=> h >= 2)
    BY <1>2, <2>2
  <2> QED BY <1>1, <2>1, <2>2, <2>3 DEF q
<1>3. CASE h < 0
  <2> DEFINE m == -h
             q == m \div 2
             r == m % 2
  <2>1. Truncated(h) = -q
    BY <1>3 DEF Truncated
  <2>2. m \in Int /\ m > 0 /\ h = -m
    BY <1>3
  <2> HIDE DEF m
  <2>3. q \in Int /\ r \in 0 .. 1 /\ m = 2 * q + r
    BY <2>2, IntDivision
  <2> HIDE DEF q, r
  <2>4. q >= 0 /\ q <= m
    BY <2>2, <2>3
  <2> QED BY <1>1, <2>1, <2>2, <2>3, <2>4
<1> QED BY <1>2, <1>3

LEMMA IntMeans ==
    ASSUME ~CharIsSigned, FormatInv, OptionInv, NEW v \in IntArg
    PROVE  Means(m_int(v), Meaning([kind |-> "i", arg |-> <<v>>]))
<1> DEFINE msg == [kind |-> "i", arg |-> <<v>>]
<1>1. m_type \in {"auto", "i", "t", "f", "s", "b"}
  BY DEF FormatInv, PacketsTypeOK, Kind
<1>2. v \in Int /\ 2 * v \in FloatArg \cup {2 * w : w \in IntArg}
  BY SymbolsAssumption
<1>3. /\ -Range32 <= 2 * (2 * v) /\ 2 * (2 * v) < Range32
      /\ to_string(2 * v) \in Seq(Byte) /\ Len(to_string(2 * v)) + Base + 19 < Range32
  BY <1>2, HalvesFit
<1>4. Truncated(2 * v) = v
  BY <1>2 DEF Truncated
<1>5. msg.kind = "i" /\ msg.arg[1] = v
  OBVIOUS
<1> HIDE DEF msg
<1>6. CASE m_type \in {"auto", "i"}
  <2>1. m_int(v) = Packet("i", Store32(v))
    BY <1>6 DEF m_int
  <2>2. Meaning(msg) = <<Update(<<<<"i", v>>>>)>>
    BY <1>4, <1>5, <1>6 DEF Meaning, Update, LabelAtoms
  <2>3. -Range32 <= 2 * v /\ 2 * v < Range32
    BY <1>2, <1>3, Ranges
  <2>4. Means(Packet("i", Store32(v)), <<Update(<<<<"i", v>>>>)>>)
    BY <1>2, <2>3, NumberMeans
  <2> QED BY <2>1, <2>2, <2>4, Zenon DEF msg
<1>7. CASE m_type = "t"
  <2> DEFINE b == IF v > 0 THEN 1 ELSE 0
  <2>1. m_int(v) = Packet("t", <<b>>)
    BY <1>7 DEF m_int
  <2>2. b = IF 2 * v >= 2 THEN 1 ELSE 0
    BY <1>2
  <2> HIDE DEF b
  <2>3. Meaning(msg) = <<Update(<<<<"t", b>>>>)>>
    BY <1>5, <1>7, <2>2 DEF Meaning, Update, LabelAtoms
  <2>4. b \in {0, 1}
    BY <2>2
  <2>5. Means(Packet("t", <<b>>), <<Update(<<<<"t", b>>>>)>>)
    BY <2>4, ToggleMeans
  <2> QED BY <2>1, <2>3, <2>5, Zenon DEF msg
<1>8. CASE m_type = "f"
  <2>1. m_int(v) = Packet("f", Store32(2 * v))
    BY <1>8 DEF m_int, FloatPacket
  <2>2. Meaning(msg) = <<Update(<<<<"f", 2 * v>>>>)>>
    BY <1>5, <1>8 DEF Meaning, Update, LabelAtoms
  <2>3. Means(Packet("f", Store32(2 * v)), <<Update(<<<<"f", 2 * v>>>>)>>)
    BY <1>2, <1>3, NumberMeans
  <2> QED BY <2>1, <2>2, <2>3, Zenon DEF msg
<1>9. CASE m_type = "s"
  <2>1. m_int(v) = m_symbol(to_string(2 * v))
    BY <1>9 DEF m_int
  <2>2. Meaning(msg) = <<Update(<<<<"s", to_string(2 * v)>>>>)>>
    BY <1>5, <1>9 DEF Meaning, Update, LabelAtoms
  <2>3. Means(m_symbol(to_string(2 * v)), <<Update(<<<<"s", to_string(2 * v)>>>>)>>)
    BY <1>3, <1>9, SymbolMeans
  <2> QED BY <2>1, <2>2, <2>3, Zenon DEF msg
<1>10. CASE m_type = "b"
  <2>1. m_int(v) = <<>> /\ Meaning(msg) = <<>>
    BY <1>5, <1>10 DEF m_int, Meaning
  <2> QED BY <2>1, Zenon DEF Means, msg
<1> QED BY <1>1, <1>6, <1>7, <1>8, <1>9, <1>10

LEMMA FloatMeans ==
    ASSUME ~CharIsSigned, FormatInv, OptionInv, NEW h \in FloatArg
    PROVE  Means(m_float(h), Meaning([kind |-> "f", arg |-> <<h>>]))
<1> DEFINE msg == [kind |-> "f", arg |-> <<h>>]
           w == Truncated(h)
<1>1. m_type \in {"auto", "i", "t", "f", "s", "b"}
  BY DEF FormatInv, PacketsTypeOK, Kind
<1>2. /\ h \in Int /\ -Range32 <= 2 * h /\ 2 * h < Range32
      /\ to_string(h) \in Seq(Byte) /\ Len(to_string(h)) + Base + 19 < Range32
  BY HalvesFit
<1>3. w \in Int /\ -Range32 <= 2 * w /\ 2 * w < Range32 /\ (w > 0 <=> h >= 2)
  BY <1>2, TruncatedFits
<1>4. msg.kind = "f" /\ msg.arg[1] = h
  OBVIOUS
<1> HIDE DEF msg, w
<1>5. CASE m_type \in {"auto", "f"}
  <2>1. m_float(h) = Packet("f", Store32(h))
    BY <1>5 DEF m_float, FloatPacket
  <2>2. Meaning(msg) = <<Update(<<<<"f", h>>>>)>>
    BY <1>4, <1>5 DEF Meaning, Update, LabelAtoms
  <2>3. Means(Packet("f", Store32(h)), <<Update(<<<<"f", h>>>>)>>)
    BY <1>2, NumberMeans
  <2> QED BY <2>1, <2>2, <2>3, Zenon DEF msg
<1>6. CASE m_type = "i"
  <2>1. m_float(h) = Packet("i", Store32(w))
    BY <1>6 DEF m_float, m_int, w
  <2>2. Meaning(msg) = <<Update(<<<<"i", w>>>>)>>
    BY <1>4, <1>6 DEF Meaning, Update, LabelAtoms, w
  <2>3. Means(Packet("i", Store32(w)), <<Update(<<<<"i", w>>>>)>>)
    BY <1>3, NumberMeans
  <2> QED BY <2>1, <2>2, <2>3, Zenon DEF msg
<1>7. CASE m_type = "t"
  <2> DEFINE b == IF w > 0 THEN 1 ELSE 0
  <2>1. m_float(h) = Packet("t", <<b>>)
    BY <1>7 DEF m_float, m_int, w
  <2>2. b = IF h >= 2 THEN 1 ELSE 0
    BY <1>3
  <2> HIDE DEF b
  <2>3. Meaning(msg) = <<Update(<<<<"t", b>>>>)>>
    BY <1>4, <1>7, <2>2 DEF Meaning, Update, LabelAtoms
  <2>4. b \in {0, 1}
    BY <2>2
  <2>5. Means(Packet("t", <<b>>), <<Update(<<<<"t", b>>>>)>>)
    BY <2>4, ToggleMeans
  <2> QED BY <2>1, <2>3, <2>5, Zenon DEF msg
<1>8. CASE m_type = "s"
  <2>1. m_float(h) = m_symbol(to_string(h))
    BY <1>8 DEF m_float
  <2>2. Meaning(msg) = <<Update(<<<<"s", to_string(h)>>>>)>>
    BY <1>4, <1>8 DEF Meaning, Update, LabelAtoms
  <2>3. Means(m_symbol(to_string(h)), <<Update(<<<<"s", to_string(h)>>>>)>>)
    BY <1>2, <1>8, SymbolMeans
  <2> QED BY <2>1, <2>2, <2>3, Zenon DEF msg
<1>9. CASE m_type = "b"
  <2>1. m_float(h) = <<>> /\ Meaning(msg) = <<>>
    BY <1>4, <1>9 DEF m_float, Meaning
  <2> QED BY <2>1, Zenon DEF Means, msg
<1> QED BY <1>1, <1>5, <1>6, <1>7, <1>8, <1>9

LEMMA FormattedMeans ==
    ASSUME ~CharIsSigned, FormatInv, OptionInv, NEW msg \in Message
    PROVE  Means(Formatted(msg), Meaning(msg))
<1>0. m_type \in {"auto", "i", "t", "f", "s", "b"}
  BY DEF FormatInv, PacketsTypeOK, Kind
<1>1. CASE msg = [kind |-> "b", arg |-> <<>>]
  <2>1. msg.kind = "b"
    BY <1>1
  <2>2. Formatted(msg) = m_bang
    BY <2>1 DEF Formatted
  <2>3. CASE m_type \in {"auto", "b"}
    <3>1. m_bang = Packet("b", <<>>)
      BY <2>3 DEF m_bang
    <3>2. Meaning(msg) = <<Update(<<>>)>>
      BY <2>1, <2>3 DEF Meaning, Update, LabelAtoms
    <3> QED BY <2>2, <3>1, <3>2, BangMeans, Zenon
  <2>4. CASE m_type \notin {"auto", "b"}
    <3>1. m_bang = <<>> /\ Meaning(msg) = <<>>
      BY <2>1, <2>4 DEF m_bang, Meaning
    <3> QED BY <2>2, <3>1, Zenon DEF Means
  <2> QED BY <2>3, <2>4
<1>2. CASE \E v \in IntArg : msg = [kind |-> "i", arg |-> <<v>>]
  <2>1. PICK v \in IntArg : msg = [kind |-> "i", arg |-> <<v>>]
    BY <1>2
  <2>2. Formatted(msg) = m_int(v)
    BY <2>1 DEF Formatted
  <2>3. Means(m_int(v), Meaning([kind |-> "i", arg |-> <<v>>]))
    BY IntMeans
  <2> QED BY <2>1, <2>2, <2>3, Zenon
<1>3. CASE \E h \in FloatArg : msg = [kind |-> "f", arg |-> <<h>>]
  <2>1. PICK h \in FloatArg : msg = [kind |-> "f", arg |-> <<h>>]
    BY <1>3
  <2>2. Formatted(msg) = m_float(h)
    BY <2>1 DEF Formatted
  <2>3. Means(m_float(h), Meaning([kind |-> "f", arg |-> <<h>>]))
    BY FloatMeans
  <2> QED BY <2>1, <2>2, <2>3, Zenon
<1>4. CASE \E s \in StringArg : msg = [kind |-> "s", arg |-> s]
  <2>1. PICK s \in StringArg : msg = [kind |-> "s", arg |-> s]
    BY <1>4
  <2>2. msg.kind = "s" /\ msg.arg = s
    BY <2>1
  <2>3. Formatted(msg) = m_symbol(s)
    BY <2>2 DEF Formatted
  <2>4. s \in Seq(Byte) /\ Len(s) + Base + 19 < Range32
    <3>1. s \in {<<>>} \cup StringArg \cup {to_string(h) : h \in FloatArg \cup {2 * v : v \in IntArg}}
      OBVIOUS
    <3>2. Len(s) + Base + 19 < Range32
      BY <3>1, NumbersAssumption, Zenon
    <3> QED BY <3>2, SymbolsAssumption
  <2>5. CASE m_type \in {"auto", "s"}
    <3>1. Meaning(msg) = <<Update(<<<<"s", s>>>>)>>
      BY <2>2, <2>5 DEF Meaning, Update, LabelAtoms
    <3>2. Means(m_symbol(s), <<Update(<<<<"s", s>>>>)>>)
      BY <2>4, <2>5, SymbolMeans
    <3> QED BY <2>3, <3>1, <3>2, Zenon
  <2>6. CASE m_type \notin {"auto", "s"}
    <3>1. m_symbol(s) = <<>>
      BY <2>6 DEF m_symbol
    <3>2. Meaning(msg) = <<>>
      BY <2>2, <2>6 DEF Meaning
    <3> QED BY <2>3, <3>1, <3>2, Zenon DEF Means
  <2> QED BY <2>5, <2>6
<1> QED BY <1>1, <1>2, <1>3, <1>4 DEF Message

-----------------------------------------------------------------------------
(* The invariant: what is gathered says what was meant, and so does what    *)
(* has been said with what is on its way, which is one packet at most; all   *)
(* but the sense of it also where a label is lost or cut.                   *)

Ready ==
    /\ stream = <<>> /\ said = <<>> /\ meant # <<>>
    /\ gathered \in Seq(Byte) /\ (LabelIsWhole => SaysThen(gathered, meant))
    /\ packets = 1 => Len(gathered) < Range32
Told(P) ==
    /\ LabelIsWhole => said \o m_lists(P) = meant
    /\ meant = <<>> => said = <<>> /\ P = <<>>
Arriving(P) ==
    /\ P \in Seq(Payload) /\ (P = <<>> \/ \E w \in Payload : P = <<w>>)
    /\ After(framing, Open, stream) = Decoder(<<>>, FALSE, P)
    /\ gathered = <<>> => Told(P)
TalkLine ==
    /\ stream \in Seq(Byte)
    /\ gathered = <<>> \/ Ready
    /\ \E P : Arriving(P)
Meanings ==
    /\ \E S : meant \in Seq(S)
    /\ LabelIsWhole => meant \in Seq(Said)
TalkInv ==
    /\ OptionInv /\ Meanings
    /\ said \in Seq(Said)
    /\ source = "rcp.server" => meant = <<>> /\ said = <<>>
    /\ source = "rcp.format" => TalkLine

LEMMA OpenType ==
    ASSUME FormatLine
    PROVE  Open \in State /\ Open.frame = frame /\ Open.escaped = escaped /\ Open.packets = <<>>
<1>1. <<>> \in Seq(Payload)
  OBVIOUS
<1> QED BY <1>1 DEF FormatLine, Open, Decoder, State

\* Nothing on the line is nothing in the decoder.
LEMMA LineEmpty ==
    ASSUME FormatLine, stream = <<>>, NEW P, Arriving(P)
    PROVE  P = <<>> /\ frame = <<>> /\ escaped = FALSE /\ Open = Decoder(<<>>, FALSE, <<>>)
<1>1. Open \in State
  BY OpenType
<1>2. After(framing, Open, <<>>) = Open
  <2>1. <<>> \in Seq(Byte)
    OBVIOUS
  <2> QED BY <1>1, <2>1, AfterType
<1>3. Open = Decoder(<<>>, FALSE, P)
  BY <1>2, Zenon DEF Arriving
<1>4. P = <<>> /\ frame = <<>> /\ escaped = FALSE
  <2>1. Decoder(<<>>, FALSE, P).packets = P /\ Decoder(<<>>, FALSE, P).frame = <<>>
        /\ Decoder(<<>>, FALSE, P).escaped = FALSE
    BY Zenon DEF Decoder
  <2> QED BY <1>3, <2>1, OpenType
<1> QED BY <1>3, <1>4

\* What is said of the packets on their way.
LEMMA ArrivingSays ==
    ASSUME NEW P \in Seq(Payload), P = <<>> \/ \E w \in Payload : P = <<w>>
    PROVE  m_lists(P) \in Seq(Said)
<1>1. CASE P = <<>>
  <2>1. <<>> \in Seq(Byte)
    OBVIOUS
  <2>2. m_lists(<<>>) = <<>>
    BY <2>1, ListsSay
  <2>3. <<>> \in Seq(Said)
    OBVIOUS
  <2> QED BY <1>1, <2>2, <2>3
<1>2. CASE \E w \in Payload : P = <<w>>
  <2>1. PICK w \in Payload : P = <<w>>
    BY <1>2
  <2>2. w \in Seq(Byte)
    BY DEF Payload
  <2> QED BY <2>1, <2>2, ListsSay
<1> QED BY <1>1, <1>2

LEMMA TalkInitial ==
    ASSUME PacketsInit
    PROVE  TalkInv
<1>1. FormatLine
  <2>1. <<>> \in Seq(Wire) /\ <<>> \in Seq(Byte)
    OBVIOUS
  <2> QED BY <2>1 DEF PacketsInit, Init, FormatLine
<1>2. /\ stream = <<>> /\ gathered = <<>> /\ meant = <<>> /\ said = <<>> /\ m_label = <<>>
      /\ frame = <<>> /\ escaped = FALSE
  BY DEF PacketsInit, Init
<1>3. <<>> \in Seq(Byte) /\ <<>> \in Seq(Said) /\ <<>> \in Seq(Payload)
  OBVIOUS
<1>4. After(framing, Open, stream) = Decoder(<<>>, FALSE, <<>>)
  <2>1. After(framing, Open, <<>>) = Open
    BY <1>1, <1>3, OpenType, AfterType
  <2> QED BY <1>2, <2>1, Zenon DEF Open
<1>5. said \o m_lists(<<>>) = meant
  <2>1. m_lists(<<>>) = <<>>
    BY <1>3, ListsSay
  <2>2. <<>> \o <<>> = <<>>
    OBVIOUS
  <2> QED BY <1>2, <2>1, <2>2, Zenon
<1>6. Arriving(<<>>)
  BY <1>2, <1>3, <1>4, <1>5 DEF Arriving, Told
<1>7. TalkLine
  BY <1>2, <1>3, <1>6 DEF TalkLine
<1> QED BY <1>2, <1>3, <1>7 DEF TalkInv, OptionInv, Meanings

\* A setting says nothing.
LEMMA SettingTalks ==
    ASSUME TalkInv, UNCHANGED <<vars, source, m_label, labelOption, gathered, packets, historyVars>>
    PROVE  TalkInv'
<1>1. /\ UNCHANGED <<framing, frame, escaped, stream, source, gathered, packets, meant, said>>
      /\ UNCHANGED <<m_label, labelOption>>
  BY DEF vars, historyVars
<1>2. \A P : Arriving(P) => Arriving(P)'
  BY <1>1 DEF Arriving, Open, Told, LabelIsWhole
<1>3. Ready => Ready'
  BY <1>1 DEF Ready, LabelIsWhole
<1>4. TalkLine => TalkLine'
  BY <1>1, <1>2, <1>3 DEF TalkLine
<1>5. Meanings' /\ OptionInv'
  BY <1>1 DEF TalkInv, Meanings, LabelIsWhole, OptionInv
<1> QED BY <1>1, <1>4, <1>5 DEF TalkInv

LEMMA LabelTalks ==
    ASSUME ~CharIsSigned, NEW label \in Label, setLabel(label)
    PROVE  OptionInv'
<1>1. Text(label) \in Seq(Byte) /\ Len(Text(label)) < Base
  <2>1. label \in Seq(Byte)
    BY SymbolsAssumption
  <2> QED BY <2>1, TextType
<1>2. m_label' = label /\ labelOption' \in {<<>>, Numbers(OptionOf(Text(label)))}
  BY Zenon DEF setLabel, OptionOf, rcp_option_write, Text
<1>3. Numbers(OptionOf(Text(label))) = OptionOf(Text(label))
  <2>1. OptionOf(Text(label)) \in Seq(Byte)
    BY <1>1, OptionType
  <2> QED BY <2>1, NumbersAreBytes
<1> QED BY <1>1, <1>2, <1>3 DEF OptionInv

LEMMA FormatTalks ==
    ASSUME ~CharIsSigned, FormatInv, FormatLine, TalkInv, NEW msg \in Message, Format(msg)
    PROVE  TalkInv'
<1> DEFINE lists == Formatted(msg)
           outs == Meaning(msg)
<1>1. /\ source = "rcp.format" /\ stream = <<>> /\ said = <<>> /\ meant' = meant \o outs
      /\ UNCHANGED <<framing, frame, escaped, stream, source, m_label, labelOption, said>>
  BY DEF Format, vars, formatVars
<1>2. TalkLine /\ OptionInv /\ Meanings /\ said \in Seq(Said) /\ (gathered = <<>> => meant = <<>>)
  BY <1>1 DEF TalkInv, Format
<1>a. PICK S : meant \in Seq(S)
  BY <1>2 DEF Meanings
<1>b. LabelIsWhole' <=> LabelIsWhole
  BY <1>1 DEF LabelIsWhole
<1>3. PICK P : Arriving(P)
  BY <1>2 DEF TalkLine
<1>4. P = <<>>
  BY <1>1, <1>3, LineEmpty
<1>5. gathered \in Seq(Byte) /\ (LabelIsWhole => SaysThen(gathered, meant))
  <2>1. CASE gathered = <<>>
    <3>1. <<>> \in Seq(Byte)
      OBVIOUS
    <3> QED BY <1>2, <2>1, <3>1, NothingSaid
  <2>2. CASE gathered # <<>>
    BY <1>2, <2>2 DEF TalkLine, Ready
  <2> QED BY <2>1, <2>2
<1>6. gathered = <<>> <=> packets = 0
  BY DEF FormatInv, PacketsTypeOK
<1>7. packets \in Nat
  BY DEF FormatInv
<1>8. Means(lists, outs)
  BY <1>2, FormattedMeans
<1>9. OptionInv'
  BY <1>1, <1>2 DEF OptionInv
<1> HIDE DEF lists, outs
<1>10. CASE lists = <<>>
  <2>1. gathered' = gathered /\ packets' = packets
    <3>1. ~\E list : lists = <<list>>
      BY <1>10
    <3> QED BY <3>1, GatheredMore DEF lists
  <2>2. outs = <<>>
    BY <1>8, <1>10 DEF Means
  <2>3. meant' = meant
    BY <1>1, <1>a, <2>2, NothingAdded
  <2> QED BY <1>1, <2>1, <2>3, SettingTalks DEF vars, historyVars, FormatLine, Format
<1>11. CASE lists # <<>>
  <2>1. PICK list, o : /\ lists = <<list>> /\ outs = <<o>>
                       /\ Conveys(Filled(list), o) /\ Len(Filled(list)) < Range32
    BY <1>8, <1>11 DEF Means
  <2> DEFINE a == Filled(list)
  <2>2. gathered' = gathered \o a /\ packets' = packets + 1
    <3>1. PICK one : lists = <<one>> /\ gathered' = gathered \o Filled(one) /\ packets' = packets + 1
      BY <1>11, GatheredMore DEF lists
    <3>2. one = list
      BY <2>1, <3>1
    <3> QED BY <3>1, <3>2
  <2>3. (LabelIsWhole => Reads(a, o)) /\ Len(a) < Range32 /\ a \in Seq(Byte) /\ a # <<>>
    BY <2>1 DEF Conveys, Payload
  <2> HIDE DEF a
  <2>4. LabelIsWhole => SaysThen(gathered', meant')
    <3>1. LabelIsWhole => SaysThen(gathered \o a, meant \o <<o>>)
      BY <1>5, <2>3, OneMoreSaid
    <3> QED BY <1>1, <2>1, <2>2, <3>1, Zenon
  <2>5. gathered \in Seq(Byte) /\ gathered' \in Seq(Byte)
    BY <1>5, <2>2, <2>3
  <2>a. meant' # <<>> /\ Meanings'
    <3> DEFINE T == S \cup {o}
    <3>1. meant \in Seq(T) /\ <<o>> \in Seq(T)
      BY <1>a
    <3> HIDE DEF T
    <3>2. meant' \in Seq(T) /\ meant' # <<>>
      <4>1. meant \o <<o>> \in Seq(T) /\ Len(meant \o <<o>>) = Len(meant) + 1 /\ Len(meant) \in Nat
        BY <3>1
      <4>2. meant \o <<o>> # <<>>
        BY <4>1
      <4> QED BY <1>1, <2>1, <4>1, <4>2
    <3>3. LabelIsWhole => meant' \in Seq(Said)
      BY <2>4 DEF SaysThen
    <3> QED BY <1>b, <3>2, <3>3 DEF Meanings
  <2>6. gathered' # <<>>
    BY <2>2, <2>3, <2>5
  <2>7. packets' = 1 => Len(gathered') < Range32
    <3>1. packets' = 1 => gathered = <<>>
      BY <1>6, <1>7, <2>2
    <3>2. gathered = <<>> => gathered' = a
      BY <2>2, <2>3
    <3> QED BY <2>3, <3>1, <3>2
  <2>8. Ready'
    BY <1>1, <1>b, <2>4, <2>5, <2>7, <2>a DEF Ready
  <2>9. Arriving(P)'
    BY <1>1, <1>3, <2>6 DEF Arriving, Open
  <2>10. TalkLine'
    BY <1>1, <1>2, <2>8, <2>9 DEF TalkLine
  <2> QED BY <1>1, <1>2, <1>9, <2>a, <2>10 DEF TalkInv
<1> QED BY <1>10, <1>11

\* What is gathered and leaves says what was meant.
LEMMA GatheredSays ==
    ASSUME FormatInv, FormatLine, TalkInv, gathered # <<>>
    PROVE  /\ source = "rcp.format" /\ stream = <<>> /\ said = <<>> /\ frame = <<>> /\ escaped = FALSE
           /\ gathered \in Payload /\ m_list(gathered) \in Seq(Said) /\ meant # <<>>
           /\ LabelIsWhole => m_list(gathered) = meant
           /\ packets = 1 => Len(gathered) < Range32
<1>1. source = "rcp.format"
  BY DEF FormatInv, PacketsTypeOK
<1>2. TalkLine
  BY <1>1 DEF TalkInv
<1>3. Ready
  BY <1>2 DEF TalkLine
<1>4. /\ stream = <<>> /\ said = <<>> /\ meant # <<>> /\ gathered \in Seq(Byte)
      /\ LabelIsWhole => SaysThen(gathered, meant)
      /\ packets = 1 => Len(gathered) < Range32
  BY <1>3 DEF Ready
<1>5. frame = <<>> /\ escaped = FALSE
  BY <1>2, <1>4, LineEmpty DEF TalkLine
<1>6. gathered \in Payload /\ m_list(gathered) \in Seq(Said)
  BY <1>4, ListsSay DEF Payload
<1>7. LabelIsWhole => m_list(gathered) = meant
  BY <1>4, ListSays
<1> QED BY <1>1, <1>2, <1>4, <1>5, <1>6, <1>7

LEMMA ToParseTalks ==
    ASSUME FormatInv, FormatLine, TalkInv, ToParse
    PROVE  TalkInv'
<1>1. /\ gathered # <<>> /\ said' = said \o m_list(gathered) /\ gathered' = <<>>
      /\ UNCHANGED <<framing, frame, escaped, stream, source, m_label, labelOption, meant>>
  BY DEF ToParse, vars, formatVars
<1>2. /\ source = "rcp.format" /\ stream = <<>> /\ said = <<>>
      /\ m_list(gathered) \in Seq(Said) /\ meant # <<>> /\ (LabelIsWhole => m_list(gathered) = meant)
  BY <1>1, GatheredSays
<1>3. said' = m_list(gathered)
  BY <1>1, <1>2, NothingAdded
<1>4. TalkLine /\ OptionInv' /\ Meanings' /\ (LabelIsWhole' <=> LabelIsWhole)
  BY <1>1, <1>2 DEF TalkInv, OptionInv, Meanings, LabelIsWhole
<1>5. PICK P : Arriving(P)
  BY <1>4 DEF TalkLine
<1>6. P = <<>>
  BY <1>2, <1>5, LineEmpty
<1>7. m_lists(P) = <<>>
  <2>1. <<>> \in Seq(Byte)
    OBVIOUS
  <2>2. m_lists(<<>>) = <<>>
    BY <2>1, ListsSay
  <2> QED BY <1>6, <2>2
<1>8. Told(P)'
  <2>1. said' \o m_lists(P) = m_list(gathered)
    BY <1>2, <1>3, <1>7, NothingAdded
  <2> QED BY <1>1, <1>2, <1>4, <2>1 DEF Told
<1>9. Arriving(P)'
  BY <1>1, <1>5, <1>8 DEF Arriving, Open
<1>10. TalkLine'
  BY <1>1, <1>4, <1>9 DEF TalkLine
<1> QED BY <1>1, <1>2, <1>3, <1>4, <1>10 DEF TalkInv

LEMMA ToLineTalks ==
    ASSUME ~CharIsSigned, FormatInv, FormatLine, TalkInv, ToLine
    PROVE  TalkInv'
<1> DEFINE start == Decoder(<<>>, FALSE, <<>>)
<1>1. /\ gathered # <<>> /\ packets = 1 /\ gathered' = <<>>
      /\ UNCHANGED <<framing, frame, escaped, source, m_label, labelOption, meant>>
  BY DEF ToLine, formatVars
<1>2. /\ source = "rcp.format" /\ stream = <<>> /\ said = <<>> /\ frame = <<>> /\ escaped = FALSE
      /\ gathered \in Payload /\ Len(gathered) < Range32 /\ m_list(gathered) \in Seq(Said)
      /\ meant # <<>> /\ (LabelIsWhole => m_list(gathered) = meant)
  BY <1>1, GatheredSays
<1>3. gathered \in Seq(Byte) /\ <<>> \in Seq(Payload) /\ <<>> \in Seq(Byte)
  BY <1>2 DEF Payload
<1>4. m_lists(<<gathered>>) = m_list(gathered) /\ m_lists(<<>>) = <<>>
  BY <1>2, <1>3, ListsSay
<1>5. /\ OptionInv' /\ Meanings' /\ (LabelIsWhole' <=> LabelIsWhole)
      /\ <<>> \o m_list(gathered) = m_list(gathered) /\ m_list(gathered) \o <<>> = m_list(gathered)
  BY <1>1, <1>2, NothingAdded DEF TalkInv, OptionInv, Meanings, LabelIsWhole
<1>6. Open' = start
  BY <1>1, <1>2, Zenon DEF Open
<1> HIDE DEF start
<1>7. Append(<<>>, gathered) = <<gathered>> /\ <<gathered>> \in Seq(Payload)
  BY <1>2
<1>8. ASSUME stream' \in Seq(Byte), said' = said, After(framing, start, stream') = Decoder(<<>>, FALSE, <<gathered>>)
      PROVE  TalkInv'
  <2> PICK P : P = <<gathered>>
    OBVIOUS
  <2>1. P \in Seq(Payload) /\ \E w \in Payload : P = <<w>>
    BY <1>2, <1>7
  <2>2. Told(P)'
    <3>1. said' \o m_lists(P) = m_list(gathered)
      BY <1>2, <1>4, <1>5, <1>8
    <3> QED BY <1>1, <1>2, <1>5, <3>1 DEF Told
  <2>3. After(framing', Open', stream') = Decoder(<<>>, FALSE, P)
    BY <1>1, <1>6, <1>8, Zenon
  <2>4. Arriving(P)'
    BY <2>1, <2>2, <2>3, Zenon DEF Arriving
  <2>5. TalkLine'
    BY <1>1, <1>8, <2>4 DEF TalkLine
  <2>6. said' \in Seq(Said)
    BY <1>8 DEF TalkInv
  <2> QED BY <1>1, <1>2, <1>5, <2>5, <2>6 DEF TalkInv
<1>9. CASE framing = "slip" /\ stream' = slipencoder(gathered) /\ UNCHANGED said
  <2>1. Bytes(gathered) = gathered
    BY <1>3, AllBytes
  <2>2. /\ slipencoder(gathered) \in Seq(Byte)
        /\ After("slip", start, slipencoder(gathered)) = Decoder(<<>>, FALSE, Append(<<>>, gathered))
    BY <1>1, <1>3, <2>1, SlipArrives DEF start
  <2> QED BY <1>7, <1>8, <1>9, <2>2
<1>10. CASE framing = "size" /\ stream' = sizeprefix(gathered) /\ UNCHANGED said
  <2> DEFINE head == SizeBytes(Len(gathered))
  <2>1. Len(gathered) \in Nat /\ Len(gathered) < Base * Base * Base * Base
    BY <1>2, <1>3 DEF Range32
  <2>2. Numbers(head) = head
    <3>1. head \in Seq(Byte)
      BY <2>1, SizeIsRead
    <3> QED BY <3>1, NumbersAreBytes
  <2>3. sizeprefix(gathered) = head \o gathered
    BY <2>2, Zenon DEF sizeprefix
  <2>4. /\ head \o gathered \in Seq(Byte)
        /\ After("size", start, head \o gathered) = Decoder(<<>>, FALSE, Append(<<>>, gathered))
    BY <1>2, <1>3, <2>1, SizeArrives DEF start
  <2> QED BY <1>7, <1>8, <1>10, <2>3, <2>4
<1>11. CASE /\ framing = "ws" /\ UNCHANGED stream
            /\ LET messages == WebsocketSends(gathered) IN
               said' = said \o m_lists([i \in DOMAIN messages |-> Numbers(messages[i])])
  <2>1. WebsocketSends(gathered) = <<gathered>>
    <3>1. \A i \in DOMAIN gathered : IsByte(gathered[i])
      BY <1>3 DEF IsByte
    <3> QED BY <3>1, Zenon DEF WebsocketSends
  <2>2. [i \in DOMAIN <<gathered>> |-> Numbers(<<gathered>>[i])] = <<gathered>>
    <3>1. DOMAIN <<gathered>> = {1} /\ <<gathered>>[1] = gathered /\ Numbers(gathered) = gathered
      BY <1>3, NumbersAreBytes
    <3>2. \A i \in DOMAIN <<gathered>> : Numbers(<<gathered>>[i]) = gathered
      BY <3>1
    <3>3. [i \in DOMAIN <<gathered>> |-> gathered] = <<gathered>>
      OBVIOUS
    <3> QED BY <3>2, <3>3, Zenon
  <2>3. said' = m_list(gathered)
    BY <1>2, <1>4, <1>5, <1>11, <2>1, <2>2, Zenon
  <2>4. After(framing', Open', stream') = Decoder(<<>>, FALSE, <<>>)
    <3>1. start \in State
      BY <1>3 DEF start, Decoder, State
    <3>2. After(framing, start, <<>>) = start
      BY <1>3, <3>1, AfterType
    <3> QED BY <1>1, <1>2, <1>6, <1>11, <3>2, Zenon DEF start
  <2>5. Told(<<>>)'
    <3>1. said' \o m_lists(<<>>) = m_list(gathered)
      BY <1>4, <1>5, <2>3, Zenon
    <3> QED BY <1>1, <1>2, <1>5, <3>1 DEF Told
  <2>6. Arriving(<<>>)'
    BY <1>3, <2>4, <2>5 DEF Arriving
  <2>7. TalkLine'
    BY <1>1, <1>2, <1>3, <1>11, <2>6 DEF TalkLine
  <2> QED BY <1>1, <1>2, <1>5, <2>3, <2>7 DEF TalkInv
<1> QED BY <1>9, <1>10, <1>11 DEF ToLine

LEMMA DeliverTalks ==
    ASSUME ~CharIsSigned, FormatInv, FormatLine, TalkInv, NEW n \in 1 .. Len(stream), DeliverToParse(n)
    PROVE  TalkInv'
<1> DEFINE a == SubSeq(stream, 1, n)
           b == SubSeq(stream, n + 1, Len(stream))
           s == Decoded(a)
           left == Decoder(s.frame, s.escaped, <<>>)
           t == After(framing, left, b)
<1>1. /\ source = "rcp.format" /\ said' = said \o m_lists(s.packets)
      /\ frame' = s.frame /\ escaped' = s.escaped /\ stream' = b
      /\ UNCHANGED <<framing, source, m_label, labelOption, gathered, meant>>
  BY DEF DeliverToParse, formatVars
<1>2. /\ TalkLine /\ OptionInv' /\ Meanings' /\ said \in Seq(Said)
      /\ LabelIsWhole' <=> LabelIsWhole
  BY <1>1 DEF TalkInv, OptionInv, Meanings, LabelIsWhole
<1>3. a \in Seq(Byte) /\ b \in Seq(Byte) /\ stream = a \o b /\ stream # <<>>
  BY <1>2 DEF TalkLine
<1>4. gathered = <<>>
  BY <1>2, <1>3 DEF TalkLine, Ready
<1>5. PICK P : Arriving(P)
  BY <1>2 DEF TalkLine
<1>6. Told(P) /\ P \in Seq(Payload) /\ (P = <<>> \/ \E w \in Payload : P = <<w>>)
  BY <1>4, <1>5, Zenon DEF Arriving
<1>7. s = After(framing, Open, a) /\ s \in State
  <2>1. LineTypes
    <3>1. <<>> \in Seq(Payload)
      OBVIOUS
    <3> QED BY <1>2, <3>1 DEF FormatLine, LineTypes, TalkLine
  <2> QED BY <1>3, <2>1, Delivered
<1> HIDE DEF a, b, s
<1>8. s.packets \in Seq(Payload) /\ left \in State /\ s = Shift(s.packets, left)
  <2>1. s.frame \in Seq(Byte) /\ s.escaped \in BOOLEAN /\ s.packets \in Seq(Payload)
    BY <1>7 DEF State
  <2>2. <<>> \in Seq(Payload)
    OBVIOUS
  <2>3. left \in State /\ left.frame = s.frame /\ left.escaped = s.escaped /\ left.packets = <<>>
    BY <2>1, <2>2 DEF Decoder, State
  <2>4. s = Decoder(s.frame, s.escaped, s.packets)
    BY <1>7 DEF Decoder, State
  <2>5. s.packets \o <<>> = s.packets
    BY <2>1
  <2> HIDE DEF left
  <2>6. s = Shift(s.packets, left)
    BY <2>3, <2>4, <2>5, Zenon DEF Shift
  <2> QED BY <2>1, <2>3, <2>6
<1> HIDE DEF left
<1>9. t \in State /\ After(framing, s, b) = Shift(s.packets, t)
  <2>1. t \in State
    BY <1>3, <1>8, AfterType
  <2>2. \A done \in Seq(Payload), start \in State :
          After(framing, Shift(done, start), b) = Shift(done, After(framing, start, b))
    BY <1>3, AfterShift
  <2>3. After(framing, Shift(s.packets, left), b) = Shift(s.packets, t)
    BY <1>8, <2>2, Zenon
  <2> QED BY <1>8, <2>1, <2>3, Zenon
<1>10. Shift(s.packets, t) = Decoder(<<>>, FALSE, P)
  <2>1. After(framing, Open, stream) = Decoder(<<>>, FALSE, P)
    BY <1>5, Zenon DEF Arriving
  <2>2. After(framing, Open, a \o b) = After(framing, After(framing, Open, a), b)
    BY <1>3, OpenType, AfterBoth
  <2> QED BY <1>3, <1>7, <1>9, <2>1, <2>2, Zenon
<1> HIDE DEF t
<1> DEFINE Q == t.packets
<1>11. Q \in Seq(Payload) /\ s.packets \o Q = P /\ t = Decoder(<<>>, FALSE, Q)
  <2>1. Decoder(t.frame, t.escaped, s.packets \o Q) = Decoder(<<>>, FALSE, P)
    BY <1>10 DEF Shift
  <2>2. s.packets \o Q = P /\ t.frame = <<>> /\ t.escaped = FALSE
    BY <2>1 DEF Decoder
  <2>3. t = Decoder(t.frame, t.escaped, Q) /\ Q \in Seq(Payload)
    BY <1>9 DEF Decoder, State
  <2> QED BY <2>2, <2>3, Zenon
<1> HIDE DEF Q
<1>12. (s.packets = <<>> /\ Q = P) \/ (s.packets = P /\ Q = <<>>)
  <2> DEFINE x == s.packets
  <2>0. Len(P) <= 1
    <3>1. \A w \in Payload : Len(<<w>>) = 1
      OBVIOUS
    <3>2. CASE P = <<>>
      <4>1. Len(<<>>) <= 1
        OBVIOUS
      <4> QED BY <3>2, <4>1
    <3>3. CASE \E w \in Payload : P = <<w>>
      <4>1. PICK w \in Payload : P = <<w>>
        BY <3>3
      <4>2. Len(P) = 1
        BY <3>1, <4>1, Zenon
      <4> QED BY <4>2
    <3> QED BY <1>6, <3>2, <3>3
  <2>1. x \in Seq(Payload) /\ Q \in Seq(Payload) /\ x \o Q = P /\ Len(P) <= 1
    BY <1>8, <1>11, <2>0, Zenon
  <2> HIDE DEF x
  <2>2. Len(x \o Q) = Len(x) + Len(Q) /\ Len(x) \in Nat /\ Len(Q) \in Nat
    BY <2>1
  <2>3. Len(x) = 0 \/ Len(Q) = 0
    BY <2>1, <2>2
  <2>4. x = <<>> \/ Q = <<>>
    BY <2>1, <2>3
  <2>5. x = <<>> => x \o Q = Q
    BY <2>1
  <2>6. Q = <<>> => x \o Q = x
    BY <2>1
  <2>7. (x = <<>> /\ Q = P) \/ (x = P /\ Q = <<>>)
    BY <2>1, <2>4, <2>5, <2>6, Zenon
  <2> QED BY <2>7 DEF x
<1>13. m_lists(<<>>) = <<>> /\ said \o <<>> = said /\ <<>> \in Seq(Said)
  <2>1. <<>> \in Seq(Byte)
    OBVIOUS
  <2>2. m_lists(<<>>) = <<>>
    BY <2>1, ListsSay
  <2>3. said \o <<>> = said /\ <<>> \in Seq(Said)
    BY <1>2, NothingAdded
  <2> QED BY <2>2, <2>3
<1>17. PICK R : R = Q
  OBVIOUS
<1>14. Told(R)' /\ said' \in Seq(Said)
  <2>0. ASSUME LabelIsWhole => said' \o m_lists(R) = meant, meant = <<>> => said' = <<>> /\ R = <<>>
        PROVE  Told(R)'
    <3>1. meant' = meant /\ (LabelIsWhole' <=> LabelIsWhole)
      BY <1>1, <1>2
    <3> QED BY <2>0, <3>1 DEF Told
  <2>1. CASE s.packets = <<>> /\ Q = P
    <3>1. said' = said
      BY <1>1, <1>13, <2>1, Zenon
    <3>2. Told(P) /\ R = P
      BY <1>6, <1>17, <2>1
    <3> QED BY <1>2, <2>0, <3>1, <3>2 DEF Told
  <2>2. CASE s.packets = P /\ Q = <<>>
    <3> DEFINE x == m_lists(P)
    <3>1. x \in Seq(Said) /\ said' = said \o x /\ (P = <<>> => x = <<>>)
      BY <1>1, <1>6, <1>13, <2>2, ArrivingSays
    <3>2. (LabelIsWhole => said \o x = meant) /\ (meant = <<>> => said = <<>> /\ x = <<>>)
      BY <1>6, <3>1 DEF Told
    <3> HIDE DEF x
    <3>3. said' \in Seq(Said)
      BY <1>2, <3>1
    <3>4. said' \o <<>> = said'
      BY <3>3, NothingAdded
    <3>5. meant = <<>> => said' = <<>>
      BY <1>13, <3>1, <3>2
    <3>6. R = <<>>
      BY <1>17, <2>2
    <3>7. said' \o m_lists(R) = said'
      BY <1>13, <3>4, <3>6
    <3> QED BY <2>0, <3>1, <3>2, <3>3, <3>5, <3>6, <3>7
  <2> QED BY <1>12, <2>1, <2>2
<1>15. After(framing', Open', stream') = Decoder(<<>>, FALSE, Q)
  BY <1>1, <1>11, Zenon DEF Open, t, left
<1>16. Q = <<>> \/ \E w \in Payload : Q = <<w>>
  BY <1>6, <1>12
<1>18. Arriving(R)'
  BY <1>11, <1>14, <1>15, <1>16, <1>17, Zenon DEF Arriving
<1>19. TalkLine'
  BY <1>1, <1>3, <1>4, <1>18 DEF TalkLine
<1> QED BY <1>1, <1>2, <1>14, <1>19 DEF TalkInv

\* What the lists of a user say, as they are written.
Understood == \A g \in Given : m_list(g.list) = g.says

\* With nothing on the line, what is said and what is meant may become anything that
\* is the same.
LEMMA SameTalks ==
    ASSUME FormatLine, TalkInv, OptionInv', source = "rcp.format", gathered = <<>>, stream = <<>>,
           said' \in Seq(Said), said' = meant', UNCHANGED <<vars, source, gathered, packets>>
    PROVE  TalkInv'
<1>1. UNCHANGED <<framing, frame, escaped, stream, source, gathered, packets>>
  BY DEF vars
<1>2. TalkLine /\ Meanings'
  BY <1>1 DEF TalkInv, Meanings
<1>3. PICK P : Arriving(P)
  BY <1>2 DEF TalkLine
<1>4. P = <<>>
  BY <1>3, LineEmpty
<1>5. Told(P)'
  <2>1. <<>> \in Seq(Byte)
    OBVIOUS
  <2>2. m_lists(<<>>) = <<>>
    BY <2>1, ListsSay
  <2>3. said' \o <<>> = said'
    BY NothingAdded
  <2> QED BY <1>4, <2>2, <2>3 DEF Told
<1>6. Arriving(P)'
  BY <1>1, <1>3, <1>5 DEF Arriving, Open
<1>7. TalkLine'
  BY <1>1, <1>2, <1>6 DEF TalkLine
<1> QED BY <1>1, <1>2, <1>7 DEF TalkInv

LEMMA TalkStep ==
    ASSUME ~CharIsSigned, Understood, BothInv, TalkInv, [PacketsNext]_packetVars
    PROVE  TalkInv'
<1>0. FormatInv /\ (source = "rcp.format" => FormatLine) /\ source \in {"rcp.server", "rcp.format"}
  BY DEF BothInv, FormatInv, PacketsTypeOK
<1>1. CASE source = "rcp.server" /\ Next /\ UNCHANGED <<source, formatVars, gathered, packets, historyVars>>
  BY <1>1 DEF TalkInv, OptionInv, Meanings, LabelIsWhole, formatVars, historyVars
<1>2. ASSUME Setting, UNCHANGED <<m_label, labelOption>>
      PROVE  TalkInv'
  BY <1>2, SettingTalks DEF Setting
<1>a. ASSUME Setting, OptionInv'
      PROVE  TalkInv'
  <2>1. /\ source = "rcp.format" /\ gathered = <<>> /\ stream = <<>> /\ meant = <<>>
        /\ UNCHANGED <<vars, source, gathered, packets, meant, said>>
    BY <1>a DEF Setting, Quiet, historyVars
  <2>2. PICK P : Arriving(P)
    BY <2>1 DEF TalkInv, TalkLine
  <2>3. said = <<>> /\ said \in Seq(Said)
    BY <2>1, <2>2 DEF Arriving, Told, TalkInv
  <2>4. said' \in Seq(Said) /\ said' = meant'
    BY <2>1, <2>3
  <2> QED BY <1>0, <1>a, <2>1, <2>4, SameTalks
<1>b. OptionInv /\ (UNCHANGED formatVars => OptionInv')
  BY DEF TalkInv, OptionInv, formatVars
<1>3. ASSUME NEW n \in IdArgs, m_setId(n)
      PROVE  TalkInv'
  BY <1>2, <1>3 DEF m_setId
<1>4. ASSUME NEW t \in Kind \cup {"auto"}, setType(t)
      PROVE  TalkInv'
  BY <1>2, <1>4 DEF setType
<1>5. ASSUME NEW label \in Label, setLabel(label)
      PROVE  TalkInv'
  <2>1. Setting
    BY <1>5 DEF setLabel
  <2> QED BY <1>5, <1>a, <2>1, LabelTalks
<1>6. CASE clearLabel
  <2>1. Setting /\ m_label' = <<>>
    BY <1>6 DEF clearLabel
  <2>2. OptionInv'
    BY <2>1 DEF OptionInv
  <2> QED BY <1>a, <2>1, <2>2
<1>7. ASSUME NEW msg \in Message, Format(msg)
      PROVE  TalkInv'
  <2>1. source = "rcp.format"
    BY <1>7 DEF Format
  <2> QED BY <1>0, <1>7, <2>1, FormatTalks
<1>8. ASSUME gathered # <<>>
      PROVE  source = "rcp.format"
  BY <1>0, <1>8 DEF FormatInv
<1>9. CASE ToParse
  <2>1. gathered # <<>>
    BY <1>9 DEF ToParse
  <2> QED BY <1>0, <1>8, <1>9, <2>1, ToParseTalks
<1>10. CASE ToLine
  <2>1. gathered # <<>>
    BY <1>10 DEF ToLine
  <2> QED BY <1>0, <1>8, <1>10, <2>1, ToLineTalks
<1>11. ASSUME NEW n \in 1 .. Len(stream), DeliverToParse(n)
       PROVE  TalkInv'
  <2>1. source = "rcp.format"
    BY <1>11 DEF DeliverToParse
  <2> QED BY <1>0, <1>11, <2>1, DeliverTalks
<1>12. ASSUME NEW g \in Given, ParseGiven(g)
       PROVE  TalkInv'
  <2>1. /\ source = "rcp.format" /\ gathered = <<>> /\ stream = <<>>
        /\ said' = m_list(g.list) /\ meant' = g.says
        /\ UNCHANGED <<vars, source, formatVars, gathered, packets>>
    BY <1>12 DEF ParseGiven, Quiet
  <2>2. m_list(g.list) \in Seq(Said) /\ m_list(g.list) = g.says
    BY GivenAssumption, ListSaysType DEF Understood
  <2>3. said' \in Seq(Said) /\ said' = meant'
    BY <2>1, <2>2, Zenon
  <2> QED BY <1>0, <1>b, <2>1, <2>3, SameTalks
<1>13. CASE Forget
  <2>1. /\ source = "rcp.format" /\ gathered = <<>> /\ stream = <<>> /\ said' = <<>> /\ meant' = <<>>
        /\ UNCHANGED <<vars, source, formatVars, gathered, packets>>
    BY <1>13 DEF Forget
  <2>2. said' \in Seq(Said) /\ said' = meant'
    BY <2>1
  <2> QED BY <1>0, <1>b, <2>1, <2>2, SameTalks
<1>14. CASE UNCHANGED packetVars
  BY <1>14, SettingTalks DEF packetVars, formatVars
<1> QED BY <1>1, <1>3, <1>4, <1>5, <1>6, <1>7, <1>9, <1>10, <1>11, <1>12, <1>13, <1>14 DEF PacketsNext

LEMMA TalkSays ==
    ASSUME BothInv, TalkInv
    PROVE  SaysWhatWasMeant
<1> SUFFICES ASSUME LabelIsWhole
             PROVE  /\ IsPrefix(said, meant)
                    /\ source = "rcp.format" /\ gathered = <<>> /\ stream = <<>> => said = meant
  BY DEF SaysWhatWasMeant
<1>0. source \in {"rcp.server", "rcp.format"} /\ said \in Seq(Said) /\ meant \in Seq(Said)
  BY DEF BothInv, FormatInv, PacketsTypeOK, TalkInv, Meanings
<1>1. ASSUME NEW y \in Seq(Said), said \o y = meant
      PROVE  IsPrefix(said, meant)
  <2>1. Len(meant) = Len(said) + Len(y) /\ \A i \in 1 .. Len(said) : meant[i] = said[i]
    BY <1>0, <1>1, Together
  <2> QED BY <1>0, <2>1 DEF IsPrefix
<1>2. said = <<>> => IsPrefix(said, meant)
  <2>1. <<>> \o meant = meant
    BY <1>0, NothingAdded
  <2> QED BY <1>0, <1>1, <2>1
<1>3. CASE source = "rcp.server"
  BY <1>2, <1>3 DEF TalkInv
<1>4. CASE source = "rcp.format"
  <2>1. TalkLine /\ FormatLine
    BY <1>4 DEF TalkInv, BothInv
  <2>2. CASE gathered # <<>>
    <3>1. said = <<>>
      BY <2>1, <2>2 DEF TalkLine, Ready
    <3> QED BY <1>2, <2>2, <3>1
  <2>3. CASE gathered = <<>>
    <3>1. PICK P : Arriving(P)
      BY <2>1 DEF TalkLine
    <3>2. said \o m_lists(P) = meant /\ m_lists(P) \in Seq(Said)
      BY <2>3, <3>1, ArrivingSays DEF Arriving, Told
    <3>3. IsPrefix(said, meant)
      BY <1>1, <3>2
    <3>4. ASSUME stream = <<>>
          PROVE  said = meant
      <4>1. P = <<>>
        BY <2>1, <3>1, <3>4, LineEmpty
      <4>2. <<>> \in Seq(Byte)
        OBVIOUS
      <4>3. m_lists(<<>>) = <<>> /\ said \o <<>> = said
        BY <1>0, <4>2, ListsSay, NothingAdded
      <4> QED BY <3>2, <4>1, <4>3, Zenon
    <3> QED BY <3>3, <3>4
  <2> QED BY <2>2, <2>3
<1> QED BY <1>0, <1>3, <1>4

\* Whatever id and type are in force, with no label or one that could be written and
\* fits in its option, whatever the value that fits in a packet, in however many
\* packets, and however the list travels: rcp.parse says what was sent to rcp.format,
\* nothing else, in order, and all of it once nothing is on its way
\* (RcpFormat.cpp:130-354, RcpParse.cpp:60-235), if it says of the lists of a user
\* what they mean.
THEOREM FormatIsParsed == ASSUME ~CharIsSigned, Understood PROVE PacketsSpec => []SaysWhatWasMeant
<1>1. PacketsInit => TalkInv
  BY TalkInitial
<1>2. BothInv /\ TalkInv /\ [PacketsNext]_packetVars => TalkInv'
  BY TalkStep
<1>3. BothInv /\ TalkInv => SaysWhatWasMeant
  BY TalkSays
<1> QED BY <1>1, <1>2, <1>3, BothInvariant, PTL DEF PacketsSpec
=============================================================================
