------------------------------ MODULE Recursion ------------------------------
(* Facts about recursive functions on numbers, for the models that define   *)
(* something along a list.  What is proved by induction is stated of a set, *)
(* and a step of the recursion is a function.                               *)
EXTENDS Integers, SequencesExt, WellFoundedInduction, TLAPS

\* A set with 0, and with k + 1 whenever it has k, has every number.
LEMMA AllNaturals ==
    ASSUME NEW S, 0 \in S, \A k \in Nat : k \in S => k + 1 \in S
    PROVE  Nat \subseteq S
<1> DEFINE less == OpToRel(<, Nat)
           others == Nat \ S
<1>1. less = {p \in Nat \X Nat : p[1] < p[2]}
  BY DEF OpToRel
<1>2. IsWellFoundedOn(less, Nat)
  BY NatLessThanWellFounded
<1> HIDE DEF less
<1> SUFFICES ASSUME others # {} PROVE FALSE
  OBVIOUS
<1>3. PICK x \in others : \A y \in others : ~(<<y, x>> \in less)
  <2>1. others \subseteq Nat
    OBVIOUS
  <2> HIDE DEF others
  <2> QED BY <1>2, <2>1, WFMin
<1>4. x # 0 /\ x - 1 \in Nat
  OBVIOUS
<1>5. x - 1 \notin S
  BY <1>4
<1>6. <<x - 1, x>> \in less
  BY <1>1, <1>4
<1> QED BY <1>3, <1>4, <1>5, <1>6

\* The same up to a bound.
LEMMA UpTo ==
    ASSUME NEW n \in Nat, NEW S, 0 \in S, \A k \in 0 .. n - 1 : k \in S => k + 1 \in S
    PROVE  0 .. n \subseteq S
<1> DEFINE T == {k \in Nat : k <= n => k \in S}
<1>1. 0 \in T /\ \A k \in Nat : k \in T => k + 1 \in T
  OBVIOUS
<1> HIDE DEF T
<1>2. Nat \subseteq T
  BY <1>1, AllNaturals
<1> QED BY <1>2 DEF T

\* f follows from base by steps.
Follows(f, n, base, step) == f[0] = base /\ \A k \in 1 .. n : f[k] = step[k][f[k - 1]]

LEMMA RecursionExists ==
    ASSUME NEW X, NEW n \in Nat, NEW base \in X, NEW step \in [1 .. n -> [X -> X]]
    PROVE  \E f \in [0 .. n -> X] : Follows(f, n, base, step)
<1> DEFINE Good(m) == \E f \in [0 .. m -> X] : Follows(f, m, base, step)
           S == {m \in 0 .. n : Good(m)}
<1>1. 0 \in S
  <2>1. [i \in 0 .. 0 |-> base] \in [0 .. 0 -> X] /\ Follows([i \in 0 .. 0 |-> base], 0, base, step)
    BY DEF Follows
  <2> QED BY <2>1
<1>2. ASSUME NEW m \in 0 .. n - 1, m \in S
      PROVE  m + 1 \in S
  <2>1. PICK f \in [0 .. m -> X] : Follows(f, m, base, step)
    BY <1>2
  <2> DEFINE g == [i \in 0 .. m + 1 |-> IF i = m + 1 THEN step[i][f[i - 1]] ELSE f[i]]
  <2>2. m + 1 \in 1 .. n /\ step[m + 1] \in [X -> X] /\ f[m] \in X
    OBVIOUS
  <2>3. step[m + 1][f[m]] \in X
    BY <2>2
  <2>4. g \in [0 .. m + 1 -> X]
    BY <2>3
  <2>5. Follows(g, m + 1, base, step)
    BY <2>1 DEF Follows
  <2> QED BY <2>4, <2>5
<1> HIDE DEF S
<1>3. 0 .. n \subseteq S
  BY <1>1, <1>2, UpTo
<1> QED BY <1>3 DEF S

LEMMA RecursionUnique ==
    ASSUME NEW n \in Nat, NEW base, NEW step, NEW f, NEW g,
           Follows(f, n, base, step), Follows(g, n, base, step)
    PROVE  \A k \in 0 .. n : f[k] = g[k]
<1> DEFINE S == {k \in 0 .. n : f[k] = g[k]}
<1>1. 0 \in S /\ \A k \in 0 .. n - 1 : k \in S => k + 1 \in S
  BY DEF Follows
<1> HIDE DEF S
<1>2. 0 .. n \subseteq S
  BY <1>1, UpTo
<1> QED BY <1>2 DEF S

-----------------------------------------------------------------------------
\* A sequence of sequences is put together from the left.
LEMMA FlattenFollows ==
    ASSUME NEW X, NEW ss \in Seq(Seq(X)), Len(ss) > 0
    PROVE  \E f \in [1 .. Len(ss) -> Seq(X)] :
              /\ f[1] = ss[1]
              /\ \A k \in 2 .. Len(ss) : f[k] = f[k - 1] \o ss[k]
              /\ FlattenSeq(ss) = f[Len(ss)]
<1> DEFINE n == Len(ss)
           Y == Seq(X)
           step == [k \in 1 .. n |-> [s \in Y |-> s \o ss[k]]]
           flat(f) == f = [i \in 1 .. n |-> IF i = 1 THEN ss[i] ELSE f[i - 1] \o ss[i]]
<1>0. n \in Nat /\ n > 0 /\ 1 \in 1 .. n /\ \A k \in 1 .. n : ss[k] \in Y
  OBVIOUS
<1>1. step \in [1 .. n -> [Y -> Y]] /\ <<>> \in Y
  OBVIOUS
<1>2. PICK f \in [0 .. n -> Y] : Follows(f, n, <<>>, step)
  <2> HIDE DEF n, Y, step
  <2> QED BY <1>0, <1>1, RecursionExists
<1>3. ASSUME NEW k \in 1 .. n
      PROVE  f[k] = f[k - 1] \o ss[k]
  <2>1. k - 1 \in 0 .. n /\ f[k] = step[k][f[k - 1]]
    <3> HIDE DEF step, Y
    <3> QED BY <1>2 DEF Follows
  <2>2. f[k - 1] \in Y
    BY <2>1
  <2> QED BY <2>1, <2>2
<1>4. f[1] = ss[1]
  <2>1. f[1] = f[1 - 1] \o ss[1] /\ f[0] = <<>>
    <3> HIDE DEF step, n, Y
    <3> QED BY <1>0, <1>2, <1>3 DEF Follows
  <2> HIDE DEF step, n
  <2>2. ss[1] \in Seq(X)
    BY <1>0
  <2>3. <<>> \o ss[1] = ss[1]
    BY <2>2
  <2>4. 1 - 1 = 0
    OBVIOUS
  <2> QED BY <2>1, <2>3, <2>4, Zenon
<1> DEFINE g == [i \in 1 .. n |-> f[i]]
<1>5. flat(g)
  <2>1. ASSUME NEW i \in 1 .. n
        PROVE  f[i] = IF i = 1 THEN ss[i] ELSE g[i - 1] \o ss[i]
    <3> HIDE DEF step, Y
    <3>1. CASE i = 1
      BY <3>1, <1>4
    <3>2. CASE i # 1
      <4>1. g[i - 1] = f[i - 1]
        BY <3>2
      <4> QED BY <3>2, <4>1, <1>3
    <3> QED BY <3>1, <3>2
  <2> QED BY <2>1
<1> DEFINE h == CHOOSE f1 : flat(f1)
<1>6. flat(h)
  <2> HIDE DEF flat
  <2> QED BY <1>5
<1>7. FlattenSeq(ss) = h[n]
  BY DEF FlattenSeq
<1> HIDE DEF h, step, Y
<1>8. h[1] = ss[1] /\ \A k \in 2 .. n : h[k] = h[k - 1] \o ss[k]
  <2>1. \A k \in 1 .. n : h[k] = IF k = 1 THEN ss[k] ELSE h[k - 1] \o ss[k]
    BY <1>6
  <2>2. \A k \in 2 .. n : k \in 1 .. n /\ k # 1
    OBVIOUS
  <2> HIDE DEF n
  <2> QED BY <1>0, <2>1, <2>2, Zenon
<1>9. h \in [1 .. n -> Y]
  <2> DEFINE S == {k \in 0 .. n : k > 0 => h[k] = f[k]}
  <2>1. 0 \in S /\ \A k \in 0 .. n - 1 : k \in S => k + 1 \in S
    <3> SUFFICES ASSUME NEW k \in 0 .. n - 1, k \in S PROVE k + 1 \in S
      OBVIOUS
    <3>1. CASE k = 0
      BY <3>1, <1>8, <1>4
    <3>2. CASE k > 0
      <4>1. h[k + 1] = h[k] \o ss[k + 1] /\ f[k + 1] = f[k] \o ss[k + 1]
        <5>1. k + 1 \in 2 .. n /\ k + 1 \in 1 .. n /\ (k + 1) - 1 = k
          BY <1>0, <3>2
        <5> HIDE DEF n
        <5> QED BY <5>1, <1>8, <1>3, Zenon
      <4>2. h[k] = f[k] /\ k + 1 \in 0 .. n
        BY <1>0, <3>2
      <4> HIDE DEF n
      <4> QED BY <4>1, <4>2, Zenon
    <3> QED BY <3>1, <3>2
  <2>2. 0 .. n \subseteq S
    <3> HIDE DEF S
    <3>1. n \in Nat
      OBVIOUS
    <3> HIDE DEF n
    <3> QED BY <2>1, <3>1, UpTo
  <2> HIDE DEF n
  <2>3. \A k \in 1 .. n : h[k] = f[k]
    BY <1>0, <2>2
  <2>4. h = [i \in 1 .. n |-> h[i]]
    BY <1>6
  <2>5. \A k \in 1 .. n : f[k] \in Y
    BY <1>0
  <2> QED BY <2>3, <2>4, <2>5
<1> QED BY <1>7, <1>8, <1>9 DEF Y

\* What is appended to the sequences comes at the end.
LEMMA FlattenAppend ==
    ASSUME NEW X, NEW ss \in Seq(Seq(X)), NEW s \in Seq(X)
    PROVE  /\ FlattenSeq(<<>>) = <<>>
           /\ FlattenSeq(ss) \in Seq(X)
           /\ FlattenSeq(Append(ss, s)) = FlattenSeq(ss) \o s
<1> DEFINE n == Len(ss)
           tt == Append(ss, s)
<1>1. FlattenSeq(<<>>) = <<>>
  <2>1. Len(<<>>) = 0
    OBVIOUS
  <2> QED BY <2>1, Zenon DEF FlattenSeq
<1>2. tt \in Seq(Seq(X)) /\ Len(tt) = n + 1 /\ n \in Nat /\ tt[n + 1] = s
  OBVIOUS
<1>3. \A k \in 1 .. n : tt[k] = ss[k]
  OBVIOUS
<1> HIDE DEF tt, n
<1>4. PICK g \in [1 .. n + 1 -> Seq(X)] :
         /\ g[1] = tt[1]
         /\ \A k \in 2 .. n + 1 : g[k] = g[k - 1] \o tt[k]
         /\ FlattenSeq(tt) = g[n + 1]
  <2>1. Len(tt) > 0
    BY <1>2
  <2>2. \E g \in [1 .. Len(tt) -> Seq(X)] :
           /\ g[1] = tt[1]
           /\ \A k \in 2 .. Len(tt) : g[k] = g[k - 1] \o tt[k]
           /\ FlattenSeq(tt) = g[Len(tt)]
    BY <1>2, <2>1, FlattenFollows
  <2>3. Len(tt) = n + 1
    BY <1>2
  <2> HIDE DEF tt
  <2> QED BY <2>2, <2>3, Zenon
<1>5. CASE n = 0
  <2>1. ss = <<>>
    BY <1>5 DEF n
  <2>2. <<>> \o s = s /\ <<>> \in Seq(X)
    OBVIOUS
  <2>3. FlattenSeq(tt) = s
    BY <1>2, <1>4, <1>5
  <2> QED BY <1>1, <2>1, <2>2, <2>3 DEF tt
<1>6. CASE n > 0
  <2>1. PICK f \in [1 .. n -> Seq(X)] :
           /\ f[1] = ss[1]
           /\ \A k \in 2 .. n : f[k] = f[k - 1] \o ss[k]
           /\ FlattenSeq(ss) = f[n]
    <3>1. Len(ss) > 0
      BY <1>6 DEF n
    <3> QED BY <3>1, FlattenFollows DEF n
  <2> DEFINE S == {k \in 0 .. n : k > 0 => g[k] = f[k]}
  <2>2. 0 \in S
    BY <1>2
  <2>3. ASSUME NEW k \in 0 .. n - 1, k \in S
        PROVE  k + 1 \in S
    <3>1. k + 1 \in 0 .. n /\ k + 1 \in 1 .. n /\ tt[k + 1] = ss[k + 1]
      BY <1>2, <1>3
    <3>2. CASE k = 0
      <4>1. k + 1 = 1
        BY <3>2
      <4> QED BY <1>4, <2>1, <3>1, <4>1, Zenon
    <3>3. CASE k > 0
      <4>0. g[k] = f[k]
        BY <2>3, <3>3
      <4>1. g[k] = f[k] /\ k + 1 \in 2 .. n /\ k + 1 \in 2 .. n + 1 /\ (k + 1) - 1 = k
        BY <1>2, <3>3, <4>0
      <4>2. g[k + 1] = f[k + 1]
        BY <1>4, <2>1, <3>1, <4>1, Zenon
      <4> QED BY <3>1, <4>2, Zenon
    <3> QED BY <3>2, <3>3
  <2> HIDE DEF S
  <2>4. 0 .. n \subseteq S
    BY <1>2, <2>2, <2>3, UpTo
  <2>5. g[n] = f[n]
    BY <1>2, <1>6, <2>4 DEF S
  <2>6. n + 1 \in 2 .. n + 1 /\ (n + 1) - 1 = n /\ n \in 1 .. n
    BY <1>2, <1>6
  <2>7. g[n + 1] = g[n] \o tt[n + 1]
    BY <1>4, <2>6, Zenon
  <2>8. FlattenSeq(ss) \in Seq(X)
    BY <2>1, <2>6
  <2> QED BY <1>1, <1>2, <1>4, <2>1, <2>5, <2>7, <2>8, Zenon DEF tt
<1> QED BY <1>2, <1>5, <1>6
=============================================================================
