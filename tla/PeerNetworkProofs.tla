-------------------------- MODULE PeerNetworkProofs --------------------------
(***************************************************************************)
(* The chains of the imaginary network, for every set of peers, every      *)
(* production rule, every fixture and every order of steps.                *)
(*                                                                         *)
(* The two loops of the model (Filter, Production) are recursive           *)
(* functions.  Each is shown once to satisfy its own equation; what it     *)
(* computes is then shown from one position to the next.                   *)
(***************************************************************************)
EXTENDS PeerNetwork, FiniteSetTheorems, WellFoundedInduction, TLAPS

-----------------------------------------------------------------------------
(* Positions and sequences.                                                *)

\* A non-empty set of natural numbers has a least element.
LEMMA LeastPosition ==
    ASSUME NEW T, T \subseteq Nat, T # {}
    PROVE  \E x \in T : \A y \in T : x <= y
  <1> DEFINE R == OpToRel(<, Nat)
  <1>1. IsWellFoundedOn(R, Nat)
    BY NatLessThanWellFounded, Zenon
  <1>2. ASSUME NEW y \in Nat, NEW x \in Nat, ~(<<y, x>> \in R)
        PROVE  x <= y
    BY <1>2 DEF OpToRel
  <1>3. PICK x \in T : \A y \in T : ~(<<y, x>> \in R)
    <2> HIDE DEF R
    <2> QED
      BY <1>1, WFMin
  <1> QED
    BY <1>2, <1>3

\* A set of positions that holds 0, and each position after one it holds,
\* holds them all.
LEMMA PositionInduction ==
    ASSUME NEW n \in Nat, NEW T, 0 \in T, \A i \in 1..n : i - 1 \in T => i \in T
    PROVE  0..n \subseteq T
  <1> DEFINE Bad == (0..n) \ T
  <1>1. SUFFICES ASSUME Bad # {} PROVE FALSE
    OBVIOUS
  <1>2. Bad \subseteq Nat
    OBVIOUS
  <1>3. PICK x \in Bad : \A y \in Bad : x <= y
    <2> HIDE DEF Bad
    <2> QED
      BY <1>1, <1>2, LeastPosition
  <1>4. x \in 1..n /\ x \notin T
    OBVIOUS
  <1>5. x - 1 \in 0..n /\ ~(x <= x - 1)
    BY <1>4
  <1>6. x - 1 \notin Bad
    <2> HIDE DEF Bad
    <2> QED
      BY <1>3, <1>5
  <1> QED
    BY <1>4, <1>5, <1>6

\* The parts of a sequence with one more element.
LEMMA AppendParts ==
    ASSUME NEW S, NEW s \in Seq(S), NEW x \in S
    PROVE  /\ Append(s, x) \in Seq(S)
           /\ Append(s, x) # <<>>
           /\ Len(Append(s, x)) = Len(s) + 1
           /\ \A i \in 1..Len(s) : Append(s, x)[i] = s[i]
           /\ Append(s, x)[Len(s) + 1] = x
           /\ Last(Append(s, x)) = x
           /\ Front(Append(s, x)) = s
  <1>1. /\ Append(s, x) \in Seq(S)
        /\ Append(s, x) # <<>>
        /\ Len(Append(s, x)) = Len(s) + 1
        /\ \A i \in 1..Len(s) : Append(s, x)[i] = s[i]
        /\ Append(s, x)[Len(s) + 1] = x
    OBVIOUS
  <1>2. Last(Append(s, x)) = x
    BY <1>1 DEF Last
  <1>3. Front(Append(s, x)) = s
    <2>1. Front(Append(s, x)) = SubSeq(Append(s, x), 1, Len(s))
      BY <1>1 DEF Front
    <2>2. SubSeq(Append(s, x), 1, Len(s)) = s
      OBVIOUS
    <2> QED
      BY <2>1, <2>2
  <1> QED
    BY <1>1, <1>2, <1>3

\* A sequence is empty when its length is 0, and its elements have its type.
LEMMA SeqParts ==
    ASSUME NEW S, NEW s \in Seq(S)
    PROVE  /\ Len(s) \in Nat
           /\ Len(s) = 0 <=> s = <<>>
           /\ \A i \in 1..Len(s) : s[i] \in S
           /\ ToSet(s) = {s[i] : i \in 1..Len(s)}
           /\ s \in Seq(ToSet(s))
           /\ s # <<>> => Last(s) = s[Len(s)] /\ Len(s) \in 1..Len(s)
  <1>1. DOMAIN s = 1..Len(s)
    OBVIOUS
  <1>2. ToSet(s) = {s[i] : i \in 1..Len(s)}
    BY <1>1, Zenon DEF ToSet
  <1>3. s \in Seq(ToSet(s))
    <2>1. \A i \in 1..Len(s) : s[i] \in ToSet(s)
      BY <1>2
    <2> QED
      BY <2>1
  <1> QED
    BY <1>2, <1>3 DEF Last

\* A function on the first positions is a sequence.
LEMMA FunctionIsSeq ==
    ASSUME NEW S, NEW n \in Nat, NEW s \in [1..n -> S]
    PROVE  s \in Seq(S) /\ Len(s) = n
  OBVIOUS

\* Sequences that agree everywhere are equal.
LEMMA SameSeq ==
    ASSUME NEW S, NEW s \in Seq(S), NEW t \in Seq(S), Len(s) = Len(t),
           \A i \in 1..Len(s) : s[i] = t[i]
    PROVE  s = t
  OBVIOUS

\* IsPrefix, position by position.
LEMMA PrefixByPosition ==
    ASSUME NEW S, NEW s \in Seq(S), NEW t \in Seq(S)
    PROVE  IsPrefix(s, t) <=> Len(s) <= Len(t) /\ \A i \in 1..Len(s) : s[i] = t[i]
  <1>1. SubSeq(s, 1, Len(s)) = s
    OBVIOUS
  <1>2. CASE Len(s) <= Len(t)
    <2> DEFINE u == SubSeq(t, 1, Len(s))
    <2>1. u \in Seq(S) /\ Len(u) = Len(s) /\ \A i \in 1..Len(s) : u[i] = t[i]
      BY <1>2
    <2>2. IsPrefix(s, t) <=> s = u
      BY <1>1, <1>2 DEF IsPrefix
    <2> HIDE DEF u
    <2>3. s = u <=> \A i \in 1..Len(s) : s[i] = t[i]
      BY <2>1, SameSeq
    <2> QED
      BY <1>2, <2>2, <2>3
  <1>3. CASE ~(Len(s) <= Len(t))
    BY <1>3 DEF IsPrefix
  <1> QED
    BY <1>2, <1>3
-----------------------------------------------------------------------------
(* Filter.                                                                 *)

\* The loop of Filter exists.
LEMMA FilterExists ==
    ASSUME NEW U, NEW s \in Seq(U), NEW S
    PROVE  \E f : f = [i \in 0..Len(s) |->
                          IF i = 0 THEN <<>>
                          ELSE IF s[i] \in S THEN Append(f[i - 1], s[i]) ELSE f[i - 1]]
  <1> DEFINE OK(k) == \E f : f = [i \in 0..k |->
                          IF i = 0 THEN <<>>
                          ELSE IF s[i] \in S THEN Append(f[i - 1], s[i]) ELSE f[i - 1]]
             T == {k \in 0..Len(s) : OK(k)}
  <1>1. 0 \in T
    <2> DEFINE f == [i \in 0..0 |-> <<>>]
    <2>1. f = [i \in 0..0 |->
                  IF i = 0 THEN <<>>
                  ELSE IF s[i] \in S THEN Append(f[i - 1], s[i]) ELSE f[i - 1]]
      OBVIOUS
    <2>2. OK(0)
      BY <2>1, Zenon
    <2> HIDE DEF OK
    <2> QED
      BY <2>2
  <1>2. ASSUME NEW k \in 1..Len(s), k - 1 \in T
        PROVE  k \in T
    <2>1. PICK f : f = [i \in 0..(k - 1) |->
                  IF i = 0 THEN <<>>
                  ELSE IF s[i] \in S THEN Append(f[i - 1], s[i]) ELSE f[i - 1]]
      BY <1>2
    <2> DEFINE g == [i \in 0..k |->
                  IF i = k THEN IF s[k] \in S THEN Append(f[k - 1], s[k]) ELSE f[k - 1]
                  ELSE f[i]]
    <2>2. \A i \in 0..(k - 1) :
              f[i] = IF i = 0 THEN <<>>
                     ELSE IF s[i] \in S THEN Append(f[i - 1], s[i]) ELSE f[i - 1]
      BY <2>1
    <2>3. \A i \in 0..k : i # k => i \in 0..(k - 1)
      OBVIOUS
    <2>4. \A i \in 0..k : i # 0 => i - 1 \in 0..k /\ i - 1 # k
      OBVIOUS
    <2>5. \A i \in 0..k :
              g[i] = IF i = 0 THEN <<>>
                     ELSE IF s[i] \in S THEN Append(g[i - 1], s[i]) ELSE g[i - 1]
      BY <2>2, <2>3, <2>4
    <2>6. g = [i \in 0..k |->
                  IF i = 0 THEN <<>>
                  ELSE IF s[i] \in S THEN Append(g[i - 1], s[i]) ELSE g[i - 1]]
      BY <2>5
    <2>7. OK(k)
      BY <2>6, Zenon
    <2> HIDE DEF OK
    <2> QED
      BY <2>7
  <1>3. 0..Len(s) \subseteq T
    <2> HIDE DEF T
    <2>1. Len(s) \in Nat /\ \A k \in 1..Len(s) : k - 1 \in T => k \in T
      BY <1>2
    <2> QED
      BY <1>1, <2>1, PositionInduction
  <1>4. OK(Len(s))
    <2>1. Len(s) \in T
      <3> HIDE DEF T
      <3> QED
        BY <1>3
    <2> HIDE DEF OK
    <2> QED
      BY <2>1
  <1> QED
    BY <1>4

\* Filter keeps an element at a time.
LEMMA FilterLoop ==
    ASSUME NEW U, NEW s \in Seq(U), NEW S
    PROVE  \E f : /\ Filter(s, S) = f[Len(s)]
                  /\ f[0] = <<>>
                  /\ \A i \in 1..Len(s) :
                        f[i] = IF s[i] \in S THEN Append(f[i - 1], s[i]) ELSE f[i - 1]
  <1> DEFINE Is(f) == f = [i \in 0..Len(s) |->
                          IF i = 0 THEN <<>>
                          ELSE IF s[i] \in S THEN Append(f[i - 1], s[i]) ELSE f[i - 1]]
             f0 == CHOOSE f : Is(f)
  <1>2. \E f : Is(f)
    BY FilterExists, ZenonT(60)
  <1>3. Is(f0)
    <2> HIDE DEF Is
    <2> QED
      BY <1>2, Zenon
  <1>4. Filter(s, S) = f0[Len(s)]
    BY Zenon DEF Filter
  <1> HIDE DEF f0
  <1>5. /\ f0[0] = <<>>
        /\ \A i \in 1..Len(s) :
              f0[i] = IF s[i] \in S THEN Append(f0[i - 1], s[i]) ELSE f0[i - 1]
    <2>1. \A i \in 0..Len(s) :
              f0[i] = IF i = 0 THEN <<>>
                      ELSE IF s[i] \in S THEN Append(f0[i - 1], s[i]) ELSE f0[i - 1]
      BY <1>3
    <2>2. 0 \in 0..Len(s) /\ \A i \in 1..Len(s) : i \in 0..Len(s) /\ i # 0
      OBVIOUS
    <2> QED
      BY <2>1, <2>2
  <1> QED
    BY <1>4, <1>5, Zenon

\* What Filter keeps: the elements of S, no others, in a sequence of their type.
LEMMA FilterKeeps ==
    ASSUME NEW U, NEW s \in Seq(U), NEW S
    PROVE  /\ Filter(s, S) \in Seq(U)
           /\ ToSet(Filter(s, S)) = {x \in ToSet(s) : x \in S}
  <1>1. PICK f : /\ Filter(s, S) = f[Len(s)]
                 /\ f[0] = <<>>
                 /\ \A i \in 1..Len(s) :
                       f[i] = IF s[i] \in S THEN Append(f[i - 1], s[i]) ELSE f[i - 1]
    BY FilterLoop
  <1> DEFINE T == {k \in 0..Len(s) :
                      /\ f[k] \in Seq(U)
                      /\ \A i \in 1..Len(f[k]) : \E j \in 1..k : f[k][i] = s[j] /\ s[j] \in S
                      /\ \A j \in 1..k : s[j] \in S => \E i \in 1..Len(f[k]) : f[k][i] = s[j]}
  <1>2. 0 \in T
    <2>1. 0 \in 0..Len(s) /\ <<>> \in Seq(U) /\ 1..Len(<<>>) = {} /\ 1..0 = {}
      OBVIOUS
    <2> QED
      BY <1>1, <2>1
  <1>3. ASSUME NEW k \in 1..Len(s), k - 1 \in T
        PROVE  k \in T
    <2> DEFINE c == f[k - 1]
               d == f[k]
    <2>1. /\ c \in Seq(U)
          /\ \A i \in 1..Len(c) : \E j \in 1..(k - 1) : c[i] = s[j] /\ s[j] \in S
          /\ \A j \in 1..(k - 1) : s[j] \in S => \E i \in 1..Len(c) : c[i] = s[j]
      BY <1>3
    <2>2. d = IF s[k] \in S THEN Append(c, s[k]) ELSE c
      BY <1>1
    <2>3. s[k] \in U /\ k \in 1..k /\ Len(c) \in Nat
      BY <2>1
    <2>4. \A j \in 1..(k - 1) : j \in 1..k
      OBVIOUS
    <2>5. \A j \in 1..k : j \in 1..(k - 1) \/ j = k
      OBVIOUS
    <2> HIDE DEF c, d
    <2>6. /\ d \in Seq(U)
          /\ \A i \in 1..Len(d) : \E j \in 1..k : d[i] = s[j] /\ s[j] \in S
          /\ \A j \in 1..k : s[j] \in S => \E i \in 1..Len(d) : d[i] = s[j]
      <3>1. CASE s[k] \in S
        <4>1. /\ d \in Seq(U) /\ Len(d) = Len(c) + 1 /\ d[Len(c) + 1] = s[k]
              /\ \A i \in 1..Len(c) : d[i] = c[i]
          BY <2>1, <2>2, <2>3, <3>1, AppendParts
        <4>2. \A i \in 1..Len(d) : i \in 1..Len(c) \/ i = Len(c) + 1
          BY <2>3, <4>1
        <4>3. \A i \in 1..Len(c) : i \in 1..Len(d)
          BY <2>3, <4>1
        <4>4. Len(c) + 1 \in 1..Len(d)
          BY <2>3, <4>1
        <4>5. ASSUME NEW i \in 1..Len(d)
              PROVE  \E j \in 1..k : d[i] = s[j] /\ s[j] \in S
          <5>1. CASE i \in 1..Len(c)
            <6>1. PICK j \in 1..(k - 1) : c[i] = s[j] /\ s[j] \in S
              BY <2>1, <5>1
            <6> QED
              BY <2>4, <4>1, <5>1, <6>1
          <5>2. CASE i = Len(c) + 1
            BY <2>3, <3>1, <4>1, <5>2
          <5> QED
            BY <4>2, <5>1, <5>2
        <4>6. ASSUME NEW j \in 1..k, s[j] \in S
              PROVE  \E i \in 1..Len(d) : d[i] = s[j]
          BY <2>1, <2>5, <4>1, <4>3, <4>4, <4>6
        <4> QED
          BY <4>1, <4>5, <4>6
      <3>2. CASE s[k] \notin S
        BY <2>1, <2>2, <2>4, <2>5, <3>2
      <3> QED
        BY <3>1, <3>2
    <2> QED
      BY <2>6 DEF d
  <1>4. 0..Len(s) \subseteq T
    <2> HIDE DEF T
    <2>1. Len(s) \in Nat /\ \A k \in 1..Len(s) : k - 1 \in T => k \in T
      BY <1>3
    <2> QED
      BY <1>2, <2>1, PositionInduction
  <1>5. /\ f[Len(s)] \in Seq(U)
        /\ \A i \in 1..Len(f[Len(s)]) :
              \E j \in 1..Len(s) : f[Len(s)][i] = s[j] /\ s[j] \in S
        /\ \A j \in 1..Len(s) : s[j] \in S =>
              \E i \in 1..Len(f[Len(s)]) : f[Len(s)][i] = s[j]
    <2>1. Len(s) \in T
      <3> HIDE DEF T
      <3> QED
        BY <1>4
    <2> QED
      BY <2>1
  <1> DEFINE g == Filter(s, S)
  <1>6. /\ g \in Seq(U)
        /\ \A i \in 1..Len(g) : \E j \in 1..Len(s) : g[i] = s[j] /\ s[j] \in S
        /\ \A j \in 1..Len(s) : s[j] \in S => \E i \in 1..Len(g) : g[i] = s[j]
    BY <1>1, <1>5
  <1> HIDE DEF g
  <1>7. ToSet(g) = {g[i] : i \in 1..Len(g)} /\ ToSet(s) = {s[i] : i \in 1..Len(s)}
    <2>1. g \in Seq(U)
      BY <1>6
    <2> QED
      BY <2>1, SeqParts
  <1>8. ToSet(g) = {x \in ToSet(s) : x \in S}
    <2>1. ASSUME NEW x \in ToSet(g) PROVE x \in ToSet(s) /\ x \in S
      <3>1. PICK i \in 1..Len(g) : x = g[i]
        BY <1>7, <2>1
      <3>2. PICK j \in 1..Len(s) : g[i] = s[j] /\ s[j] \in S
        BY <1>6
      <3> QED
        BY <1>7, <3>1, <3>2
    <2>2. ASSUME NEW x \in ToSet(s), x \in S PROVE x \in ToSet(g)
      <3>1. PICK j \in 1..Len(s) : x = s[j]
        BY <1>7, <2>2
      <3>2. PICK i \in 1..Len(g) : g[i] = s[j]
        BY <1>6, <2>2, <3>1
      <3> QED
        BY <1>7, <3>1, <3>2
    <2> QED
      BY <2>1, <2>2
  <1> QED
    BY <1>6, <1>8 DEF g

\* Numbers in increasing order, as slots_in_range returns them.
Ordered(s) == \A i \in 2..Len(s) : s[i - 1] < s[i]

\* In an ordered sequence an earlier position holds a smaller number.
LEMMA OrderedAll ==
    ASSUME NEW s \in Seq(Int), Ordered(s)
    PROVE  \A j \in 1..Len(s) : \A i \in 1..(j - 1) : s[i] < s[j]
  <1> DEFINE T == {k \in 0..Len(s) : \A j \in 1..k : \A i \in 1..(j - 1) : s[i] < s[j]}
  <1>1. 0 \in T
    OBVIOUS
  <1>2. ASSUME NEW k \in 1..Len(s), k - 1 \in T
        PROVE  k \in T
    <2>1. \A j \in 1..(k - 1) : \A i \in 1..(j - 1) : s[i] < s[j]
      BY <1>2
    <2>2. ASSUME NEW i \in 1..(k - 1)
          PROVE  s[i] < s[k]
      <3>1. k \in 2..Len(s) /\ k - 1 \in 1..(k - 1) /\ k - 1 \in 1..Len(s) /\ i \in 1..Len(s)
        OBVIOUS
      <3>2. s[k - 1] < s[k]
        BY <3>1 DEF Ordered
      <3>3. i = k - 1 \/ i \in 1..((k - 1) - 1)
        OBVIOUS
      <3>4. i = k - 1 \/ s[i] < s[k - 1]
        BY <2>1, <3>1, <3>3
      <3>5. s[i] \in Int /\ s[k - 1] \in Int /\ s[k] \in Int
        BY <3>1
      <3> QED
        BY <3>2, <3>4, <3>5
    <2>3. \A j \in 1..k : j \in 1..(k - 1) \/ j = k
      OBVIOUS
    <2>4. \A j \in 1..k : \A i \in 1..(j - 1) : s[i] < s[j]
      BY <2>1, <2>2, <2>3
    <2> QED
      BY <2>4
  <1>3. 0..Len(s) \subseteq T
    <2> HIDE DEF T
    <2>1. Len(s) \in Nat /\ \A k \in 1..Len(s) : k - 1 \in T => k \in T
      BY <1>2
    <2> QED
      BY <1>1, <2>1, PositionInduction
  <1>4. Len(s) \in T
    <2> HIDE DEF T
    <2> QED
      BY <1>3
  <1> QED
    BY <1>4

\* Filter keeps the order.
LEMMA FilterOrdered ==
    ASSUME NEW s \in Seq(Int), NEW S, Ordered(s)
    PROVE  Ordered(Filter(s, S))
  <1>1. PICK f : /\ Filter(s, S) = f[Len(s)]
                 /\ f[0] = <<>>
                 /\ \A i \in 1..Len(s) :
                       f[i] = IF s[i] \in S THEN Append(f[i - 1], s[i]) ELSE f[i - 1]
    BY FilterLoop
  <1> DEFINE T == {k \in 0..Len(s) :
                      /\ f[k] \in Seq(Int)
                      /\ Ordered(f[k])
                      /\ \A i \in 1..Len(f[k]) : \E j \in 1..k : f[k][i] = s[j]}
  <1>2. 0 \in T
    <2>1. 0 \in 0..Len(s) /\ <<>> \in Seq(Int) /\ 1..Len(<<>>) = {} /\ Ordered(<<>>)
      BY DEF Ordered
    <2> QED
      BY <1>1, <2>1
  <1>3. ASSUME NEW k \in 1..Len(s), k - 1 \in T
        PROVE  k \in T
    <2> DEFINE c == f[k - 1]
               d == f[k]
    <2>1. /\ c \in Seq(Int)
          /\ Ordered(c)
          /\ \A i \in 1..Len(c) : \E j \in 1..(k - 1) : c[i] = s[j]
      BY <1>3
    <2>2. d = IF s[k] \in S THEN Append(c, s[k]) ELSE c
      BY <1>1
    <2>3. s[k] \in Int /\ k \in 1..k /\ Len(c) \in Nat
      BY <2>1
    <2>4. \A j \in 1..(k - 1) : j \in 1..k
      OBVIOUS
    <2> HIDE DEF c, d
    <2>6. /\ d \in Seq(Int)
          /\ Ordered(d)
          /\ \A i \in 1..Len(d) : \E j \in 1..k : d[i] = s[j]
      <3>1. CASE s[k] \in S
        <4>1. /\ d \in Seq(Int) /\ Len(d) = Len(c) + 1 /\ d[Len(c) + 1] = s[k]
              /\ \A i \in 1..Len(c) : d[i] = c[i]
          BY <2>1, <2>2, <2>3, <3>1, AppendParts
        <4>2. \A i \in 1..Len(d) : i \in 1..Len(c) \/ i = Len(c) + 1
          BY <2>3, <4>1
        <4>3. ASSUME NEW i \in 1..Len(d)
              PROVE  \E j \in 1..k : d[i] = s[j]
          BY <2>1, <2>3, <2>4, <3>1, <4>1, <4>2
        <4>4. \A j \in 1..(k - 1) : s[j] < s[k]
          BY OrderedAll
        <4>5. \A i \in 1..Len(c) : d[i] < s[k]
          BY <2>1, <4>1, <4>4
        <4>6. ASSUME NEW i \in 2..Len(d)
              PROVE  d[i - 1] < d[i]
          <5>1. CASE i = Len(c) + 1
            <6>1. i - 1 \in 1..Len(c)
              BY <2>3, <5>1
            <6> QED
              BY <4>1, <4>5, <5>1, <6>1
          <5>2. CASE i # Len(c) + 1
            <6>1. i \in 2..Len(c) /\ i \in 1..Len(c) /\ i - 1 \in 1..Len(c)
              BY <2>3, <4>1, <5>2
            <6> QED
              BY <2>1, <4>1, <6>1 DEF Ordered
          <5> QED
            BY <5>1, <5>2
        <4> QED
          BY <4>1, <4>3, <4>6 DEF Ordered
      <3>2. CASE s[k] \notin S
        BY <2>1, <2>2, <2>4, <3>2
      <3> QED
        BY <3>1, <3>2
    <2> QED
      BY <2>6 DEF d
  <1>4. 0..Len(s) \subseteq T
    <2> HIDE DEF T
    <2>1. Len(s) \in Nat /\ \A k \in 1..Len(s) : k - 1 \in T => k \in T
      BY <1>3
    <2> QED
      BY <1>2, <2>1, PositionInduction
  <1>5. Len(s) \in T
    <2> HIDE DEF T
    <2> QED
      BY <1>4
  <1> QED
    BY <1>1, <1>5

\* Where S holds what comes before each of its elements, Filter takes a prefix.
LEMMA FilterPrefix ==
    ASSUME NEW U, NEW s \in Seq(U), NEW S,
           \A i \in 2..Len(s) : s[i] \in S => s[i - 1] \in S
    PROVE  /\ Len(Filter(s, S)) <= Len(s)
           /\ \A i \in 1..Len(Filter(s, S)) : Filter(s, S)[i] = s[i]
           /\ \A i \in 1..Len(s) : i <= Len(Filter(s, S)) <=> s[i] \in S
  <1>1. PICK f : /\ Filter(s, S) = f[Len(s)]
                 /\ f[0] = <<>>
                 /\ \A i \in 1..Len(s) :
                       f[i] = IF s[i] \in S THEN Append(f[i - 1], s[i]) ELSE f[i - 1]
    BY FilterLoop
  <1> DEFINE T == {k \in 0..Len(s) :
                      /\ f[k] \in Seq(U)
                      /\ Len(f[k]) <= k
                      /\ \A i \in 1..Len(f[k]) : f[k][i] = s[i]
                      /\ \A i \in 1..k : i <= Len(f[k]) <=> s[i] \in S}
  <1>2. 0 \in T
    <2>1. 0 \in 0..Len(s) /\ <<>> \in Seq(U) /\ Len(<<>>) = 0 /\ 1..0 = {}
      OBVIOUS
    <2>2. f[0] \in Seq(U) /\ Len(f[0]) = 0
      BY <1>1, <2>1
    <2>3. Len(f[0]) <= 0 /\ 1..Len(f[0]) = {}
      BY <2>1, <2>2
    <2> QED
      BY <2>1, <2>2, <2>3
  <1>3. ASSUME NEW k \in 1..Len(s), k - 1 \in T
        PROVE  k \in T
    <2> DEFINE c == f[k - 1]
               d == f[k]
    <2>1. /\ c \in Seq(U)
          /\ Len(c) <= k - 1
          /\ \A i \in 1..Len(c) : c[i] = s[i]
          /\ \A i \in 1..(k - 1) : i <= Len(c) <=> s[i] \in S
      BY <1>3
    <2>2. d = IF s[k] \in S THEN Append(c, s[k]) ELSE c
      BY <1>1
    <2>3. s[k] \in U /\ Len(c) \in Nat
      BY <2>1
    <2>4. \A i \in 1..k : i = k \/ i \in 1..(k - 1)
      OBVIOUS
    <2> HIDE DEF c, d
    <2>6. /\ d \in Seq(U)
          /\ Len(d) <= k
          /\ \A i \in 1..Len(d) : d[i] = s[i]
          /\ \A i \in 1..k : i <= Len(d) <=> s[i] \in S
      <3>1. CASE s[k] \in S
        <4>1. /\ d \in Seq(U) /\ Len(d) = Len(c) + 1 /\ d[Len(c) + 1] = s[k]
              /\ \A i \in 1..Len(c) : d[i] = c[i]
          BY <2>1, <2>2, <2>3, <3>1, AppendParts
        <4>2. Len(c) = k - 1
          <5>1. CASE k = 1
            BY <2>1, <2>3, <5>1
          <5>2. CASE k # 1
            <6>1. k \in 2..Len(s) /\ k - 1 \in 1..(k - 1)
              BY <5>2
            <6>2. s[k - 1] \in S
              BY <3>1, <6>1
            <6> QED
              BY <2>1, <2>3, <6>1, <6>2
          <5> QED
            BY <5>1, <5>2
        <4>3. \A i \in 1..k : s[i] \in S
          BY <2>1, <2>4, <3>1, <4>2
        <4>4. Len(d) = k /\ \A i \in 1..k : i <= k
          BY <4>1, <4>2
        <4>5. \A i \in 1..Len(d) : d[i] = s[i]
          BY <2>1, <2>4, <4>1, <4>2, <4>4
        <4> QED
          BY <4>1, <4>3, <4>4, <4>5
      <3>2. CASE s[k] \notin S
        <4>1. ~(k <= Len(c)) /\ Len(c) <= k
          BY <2>1, <2>3
        <4> QED
          BY <2>1, <2>2, <2>4, <3>2, <4>1
      <3> QED
        BY <3>1, <3>2
    <2> QED
      BY <2>6 DEF d
  <1>4. 0..Len(s) \subseteq T
    <2> HIDE DEF T
    <2>1. Len(s) \in Nat /\ \A k \in 1..Len(s) : k - 1 \in T => k \in T
      BY <1>3
    <2> QED
      BY <1>2, <2>1, PositionInduction
  <1>5. Len(s) \in T
    <2> HIDE DEF T
    <2> QED
      BY <1>4
  <1> QED
    BY <1>1, <1>5

-----------------------------------------------------------------------------
(* One slot of a production rule.                                          *)

Sources == {"fixture", "explicit", "production_rule"}

\* Everything that is ever hashed, and the entries and chains made of it.
SeedParts == UNION {UNION {ToSet(Seeds[p][i].hash) : i \in 1..Len(Seeds[p])} : p \in Peers}
WrongParts ==
    UNION {ToSet(Rules[p].wrong) : p \in {q \in Peers : Rules[q].kind = "broken_prev_hash"}}
RuleParts == {<<HashLabel(p, s), s>> : p \in Peers, s \in Slots}
ExplicitParts == {<<<<"explicit">>, s>> : s \in Slots}
Parts == SeedParts \cup WrongParts \cup RuleParts \cup ExplicitParts
Hash == Seq(Parts)
Entry == [slot : Slots, number : Slots, hash : Hash, source : Sources]

\* The slots of a u64.
LEMMA SlotsAreNatural ==
    /\ U64 \in Nat /\ U64 > 0
    /\ \A s : s \in Slots <=> s \in Nat /\ s < U64
  BY NetworkAssumption DEF Slots

\* The rules have the fields their kind needs.
LEMMA RuleFields ==
    ASSUME NEW p \in Peers
    PROVE  RuleType(Rules[p])
  BY NetworkAssumption

\* A wrong_hash is a hash like any other.
LEMMA WrongIsHash ==
    ASSUME NEW p \in Peers, Rules[p].kind = "broken_prev_hash"
    PROVE  Rules[p].wrong \in Hash /\ Rules[p].break \in Slots
  <1> DEFINE w == Rules[p].wrong
  <1>1. w \in Seq(ToSet(w)) /\ Rules[p].break \in Slots
    BY RuleFields DEF RuleType, IsHash
  <1>2. ToSet(w) \subseteq Parts
    <2>1. p \in {q \in Peers : Rules[q].kind = "broken_prev_hash"}
      OBVIOUS
    <2>2. ToSet(w) \subseteq WrongParts
      BY <2>1, Zenon DEF WrongParts
    <2> QED
      BY <2>2, Zenon DEF Parts
  <1> HIDE DEF w
  <1>3. w \in Seq(Parts)
    BY <1>1, <1>2
  <1> QED
    BY <1>1, <1>3 DEF w, Hash

\* What a rule hashes is hashed.
LEMMA LabelIsPart ==
    ASSUME NEW p \in Peers, NEW s \in Slots
    PROVE  <<HashLabel(p, s), s>> \in Parts
  <1>1. <<HashLabel(p, s), s>> \in RuleParts
    BY DEF RuleParts
  <1> QED
    BY <1>1, Zenon DEF Parts

\* What the block at position i is chained to.
PrevHash(p, chain, i) ==
    IF Rules[p].kind = "broken_prev_hash" /\ chain[i].slot >= Rules[p].break
    THEN Rules[p].wrong
    ELSE IF i > 1 THEN chain[i - 1].hash ELSE <<>>

\* The block at position i is one the rule of p puts after the block before it.
Linked(p, chain, i) ==
    LET e == chain[i] IN
    /\ e.source = "production_rule"
    /\ i > 1 => chain[i - 1].slot < e.slot
    /\ e.number = IF i > 1 THEN (chain[i - 1].number + 1) % U64 ELSE 0
    /\ e.hash = Append(PrevHash(p, chain, i), <<HashLabel(p, e.slot), e.slot>>)

\* The parts of an entry.
LEMMA EntryParts ==
    ASSUME NEW e \in Entry
    PROVE  /\ e.slot \in Slots /\ e.slot \in Nat /\ e.slot < U64
           /\ e.number \in Slots /\ e.hash \in Hash /\ e.source \in Sources
  <1>1. e.slot \in Slots /\ e.number \in Slots /\ e.hash \in Hash /\ e.source \in Sources
    BY DEF Entry
  <1> QED
    BY <1>1, SlotsAreNatural

\* The tip of a chain.
LEMMA TipParts ==
    ASSUME NEW c \in Seq(Entry)
    PROVE  /\ c = <<>> => chain_tip_slot(c) = -1
           /\ c # <<>> => /\ Len(c) \in 1..Len(c) /\ Last(c) = c[Len(c)]
                          /\ Last(c) \in Entry
                          /\ chain_tip_slot(c) = c[Len(c)].slot
           /\ chain_tip_slot(c) \in Int
           /\ chain_tip_slot(c) >= -1
           /\ chain_tip_slot(c) < U64
  <1>1. CASE c = <<>>
    BY <1>1, SlotsAreNatural DEF chain_tip_slot
  <1>2. CASE c # <<>>
    <2>1. Len(c) \in 1..Len(c) /\ Last(c) = c[Len(c)] /\ c[Len(c)] \in Entry
      BY <1>2, SeqParts
    <2>2. c[Len(c)].slot \in Nat /\ c[Len(c)].slot < U64
      BY <2>1, EntryParts
    <2>3. chain_tip_slot(c) = c[Len(c)].slot
      BY <1>2, <2>1 DEF chain_tip_slot
    <2> QED
      BY <1>2, <2>1, <2>2, <2>3
  <1> QED
    BY <1>1, <1>2

\* The block that production puts on a chain is an entry.
LEMMA BlockParts ==
    ASSUME NEW p \in Peers, NEW c \in Seq(Entry), NEW s \in Slots
    PROVE  /\ Block(p, c, s) \in Entry
           /\ Block(p, c, s).slot = s
           /\ Block(p, c, s).source = "production_rule"
           /\ Block(p, c, s).number = IF c = <<>> THEN 0 ELSE (c[Len(c)].number + 1) % U64
           /\ Block(p, c, s).hash = Append(HashPrev(p, c, s), <<HashLabel(p, s), s>>)
           /\ HashPrev(p, c, s) \in Hash
  <1> DEFINE n == IF c = <<>> THEN 0 ELSE (Last(c).number + 1) % U64
             h == Append(HashPrev(p, c, s), <<HashLabel(p, s), s>>)
             b == Block(p, c, s)
  <1>1. c # <<>> => Last(c) = c[Len(c)] /\ Last(c).hash \in Hash /\ Last(c).number \in Slots
    BY TipParts, EntryParts
  <1>2. HashPrev(p, c, s) \in Hash
    <2>1. CASE Rules[p].kind = "broken_prev_hash" /\ s >= Rules[p].break
      BY <2>1, WrongIsHash DEF HashPrev
    <2>2. CASE ~(Rules[p].kind = "broken_prev_hash" /\ s >= Rules[p].break)
      <3>1. <<>> \in Hash
        BY DEF Hash
      <3>2. HashPrev(p, c, s) = IF c = <<>> THEN <<>> ELSE Last(c).hash
        BY <2>2, Zenon DEF HashPrev
      <3> QED
        BY <1>1, <3>1, <3>2
    <2> QED
      BY <2>1, <2>2
  <1>3. n \in Slots
    BY <1>1, SlotsAreNatural
  <1>4. h \in Hash
    BY <1>2, LabelIsPart, AppendParts DEF Hash
  <1>5. b = [slot |-> s, number |-> n, hash |-> h, source |-> "production_rule"]
    BY Zenon DEF Block, synthetic_hash
  <1>6. n = IF c = <<>> THEN 0 ELSE (c[Len(c)].number + 1) % U64
    BY <1>1
  <1> HIDE DEF n, h, b
  <1>7. b \in Entry
    BY <1>3, <1>4, <1>5 DEF Entry, Sources
  <1>8. b.slot = s /\ b.number = n /\ b.hash = h /\ b.source = "production_rule"
    BY <1>5
  <1> QED
    BY <1>2, <1>6, <1>7, <1>8 DEF b, h

\* One slot: the tip covers it already, or its block is put on the chain.
LEMMA ProduceStep ==
    ASSUME NEW p \in Peers, NEW c \in Seq(Entry), NEW s \in Slots, NEW d,
           d = produce(p, c, s)
    PROVE  \/ chain_tip_slot(c) >= s /\ d = c
           \/ /\ chain_tip_slot(c) < s /\ chain_tip_slot(d) = s
              /\ d \in Seq(Entry) /\ Len(d) = Len(c) + 1
              /\ \A i \in 1..Len(c) : d[i] = c[i]
              /\ d[Len(d)].slot = s
              /\ Linked(p, d, Len(d))
  <1>1. chain_tip_slot(c) \in Int /\ s \in Int /\ Len(c) \in Nat
    BY TipParts, SlotsAreNatural
  <1>2. CASE chain_tip_slot(c) >= s
    BY <1>2 DEF produce
  <1>3. CASE ~(chain_tip_slot(c) >= s)
    <2> DEFINE b == Block(p, c, s)
    <2>1. d = Append(c, b)
      BY <1>3 DEF produce
    <2>2. /\ b \in Entry /\ b.slot = s /\ b.source = "production_rule"
          /\ b.number = IF c = <<>> THEN 0 ELSE (c[Len(c)].number + 1) % U64
          /\ b.hash = Append(HashPrev(p, c, s), <<HashLabel(p, s), s>>)
      BY BlockParts
    <2> HIDE DEF b
    <2>3. /\ d \in Seq(Entry) /\ d # <<>> /\ Len(d) = Len(c) + 1
          /\ \A i \in 1..Len(c) : d[i] = c[i]
          /\ d[Len(c) + 1] = b
      BY <2>1, <2>2, AppendParts
    <2>4. d[Len(d)] = b /\ chain_tip_slot(d) = s
      BY <2>2, <2>3, TipParts
    <2>5. Len(d) > 1 <=> c # <<>>
      BY <1>1, <2>3, SeqParts
    <2>6. ASSUME c # <<>>
          PROVE  /\ Len(d) - 1 = Len(c) /\ d[Len(d) - 1] = c[Len(c)] /\ Last(c) = c[Len(c)]
                 /\ c[Len(c)].slot < s
      <3>1. Len(c) \in 1..Len(c) /\ Last(c) = c[Len(c)] /\ chain_tip_slot(c) = c[Len(c)].slot
        BY <2>6, TipParts
      <3> QED
        BY <1>1, <1>3, <2>3, <3>1
    <2>7. Len(d) > 1 => d[Len(d) - 1].slot < s
      BY <2>5, <2>6
    <2>8. b.number = IF Len(d) > 1 THEN (d[Len(d) - 1].number + 1) % U64 ELSE 0
      BY <2>2, <2>5, <2>6
    <2>9. HashPrev(p, c, s) = PrevHash(p, d, Len(d))
      <3>1. (IF c = <<>> THEN <<>> ELSE Last(c).hash)
              = (IF Len(d) > 1 THEN d[Len(d) - 1].hash ELSE <<>>)
        BY <2>5, <2>6, Zenon
      <3> QED
        BY <2>2, <2>4, <3>1, Zenon DEF HashPrev, PrevHash
    <2>10. Linked(p, d, Len(d))
      BY <2>2, <2>4, <2>7, <2>8, <2>9, Zenon DEF Linked
    <2> QED
      BY <1>1, <1>3, <2>2, <2>3, <2>4, <2>10
  <1> QED
    BY <1>2, <1>3

-----------------------------------------------------------------------------
(* The loop of a production rule.                                          *)

\* f is the loop over s.
IsProduction(p, c, s, f) ==
    f = [i \in 0..Len(s) |-> IF i = 0 THEN c ELSE produce(p, f[i - 1], s[i])]

\* The loop exists.
LEMMA ProductionExists ==
    ASSUME NEW p, NEW c, NEW U, NEW s \in Seq(U)
    PROVE  \E f : IsProduction(p, c, s, f)
  <1> DEFINE OK(k) ==
                \E f : f = [i \in 0..k |-> IF i = 0 THEN c ELSE produce(p, f[i - 1], s[i])]
             T == {k \in 0..Len(s) : OK(k)}
  <1>1. 0 \in T
    <2> DEFINE f == [i \in 0..0 |-> c]
    <2>1. f = [i \in 0..0 |-> IF i = 0 THEN c ELSE produce(p, f[i - 1], s[i])]
      OBVIOUS
    <2>2. OK(0)
      BY <2>1, Zenon
    <2> HIDE DEF OK
    <2> QED
      BY <2>2
  <1>2. ASSUME NEW k \in 1..Len(s), k - 1 \in T
        PROVE  k \in T
    <2>1. PICK f : f = [i \in 0..(k - 1) |->
                            IF i = 0 THEN c ELSE produce(p, f[i - 1], s[i])]
      BY <1>2
    <2> DEFINE g == [i \in 0..k |-> IF i = k THEN produce(p, f[k - 1], s[k]) ELSE f[i]]
    <2>2. \A i \in 0..(k - 1) : f[i] = IF i = 0 THEN c ELSE produce(p, f[i - 1], s[i])
      BY <2>1
    <2>3. \A i \in 0..k : i # k => i \in 0..(k - 1)
      OBVIOUS
    <2>4. \A i \in 0..k : i # 0 => i - 1 \in 0..k /\ i - 1 # k
      OBVIOUS
    <2>5. \A i \in 0..k : g[i] = IF i = 0 THEN c ELSE produce(p, g[i - 1], s[i])
      BY <2>2, <2>3, <2>4
    <2>6. g = [i \in 0..k |-> IF i = 0 THEN c ELSE produce(p, g[i - 1], s[i])]
      BY <2>5
    <2>7. OK(k)
      BY <2>6, Zenon
    <2> HIDE DEF OK
    <2> QED
      BY <2>7
  <1>3. 0..Len(s) \subseteq T
    <2> HIDE DEF T
    <2>1. Len(s) \in Nat /\ \A k \in 1..Len(s) : k - 1 \in T => k \in T
      BY <1>2
    <2> QED
      BY <1>1, <2>1, PositionInduction
  <1>4. OK(Len(s))
    <2>1. Len(s) \in T
      <3> HIDE DEF T
      <3> QED
        BY <1>3
    <2> HIDE DEF OK
    <2> QED
      BY <2>1
  <1> QED
    BY <1>4, Zenon DEF IsProduction

\* It takes a slot at a time.
LEMMA ProductionLoop ==
    ASSUME NEW p, NEW c, NEW U, NEW s \in Seq(U)
    PROVE  /\ Production(p, c, s)[0] = c
           /\ \A i \in 1..Len(s) :
                 Production(p, c, s)[i] = produce(p, Production(p, c, s)[i - 1], s[i])
  <1> DEFINE f0 == CHOOSE f : IsProduction(p, c, s, f)
  <1>1. \E f : IsProduction(p, c, s, f)
    BY ProductionExists
  <1>2. IsProduction(p, c, s, f0)
    BY <1>1, Zenon
  <1>3. Production(p, c, s) = f0
    BY Zenon DEF Production, IsProduction
  <1> HIDE DEF f0
  <1>4. f0[0] = c /\ \A i \in 1..Len(s) : f0[i] = produce(p, f0[i - 1], s[i])
    <2>1. \A i \in 0..Len(s) : f0[i] = IF i = 0 THEN c ELSE produce(p, f0[i - 1], s[i])
      BY <1>2 DEF IsProduction
    <2>2. 0 \in 0..Len(s) /\ \A i \in 1..Len(s) : i \in 0..Len(s) /\ i # 0
      OBVIOUS
    <2> QED
      BY <2>1, <2>2
  <1> QED
    BY <1>3, <1>4, Zenon

\* d is c with blocks of the rule of p at slots of S after it.
Grown(p, c, d, S) ==
    /\ d \in Seq(Entry)
    /\ Len(c) <= Len(d)
    /\ \A i \in 1..Len(c) : d[i] = c[i]
    /\ \A i \in (Len(c) + 1)..Len(d) : d[i].slot \in S /\ Linked(p, d, i)

\* Positions of a longer chain: a block stays linked when the chain grows.
LEMMA LinkedStays ==
    ASSUME NEW p, NEW c \in Seq(Entry), NEW d, Len(c) <= Len(d),
           \A i \in 1..Len(c) : d[i] = c[i], NEW i \in 1..Len(c), Linked(p, c, i)
    PROVE  Linked(p, d, i)
  <1>1. d[i] = c[i] /\ (i > 1 => d[i - 1] = c[i - 1])
    OBVIOUS
  <1>2. PrevHash(p, d, i) = PrevHash(p, c, i)
    BY <1>1 DEF PrevHash
  <1> QED
    BY <1>1, <1>2, Zenon DEF Linked

\* One more slot.
LEMMA GrownStep ==
    ASSUME NEW p \in Peers, NEW c \in Seq(Entry), NEW d, NEW S, Grown(p, c, d, S),
           NEW s \in Slots, NEW e, e = produce(p, d, s), s \in S
    PROVE  Grown(p, c, e, S)
  <1>1. /\ d \in Seq(Entry) /\ Len(c) <= Len(d) /\ \A i \in 1..Len(c) : d[i] = c[i]
        /\ \A i \in (Len(c) + 1)..Len(d) : d[i].slot \in S /\ Linked(p, d, i)
    BY DEF Grown
  <1>2. CASE chain_tip_slot(d) >= s /\ e = d
    BY <1>2
  <1>3. CASE /\ chain_tip_slot(d) < s /\ chain_tip_slot(e) = s
             /\ e \in Seq(Entry) /\ Len(e) = Len(d) + 1
             /\ \A i \in 1..Len(d) : e[i] = d[i]
             /\ e[Len(e)].slot = s
             /\ Linked(p, e, Len(e))
    <2>1. Len(c) \in Nat /\ Len(d) \in Nat
      BY <1>1
    <2>2. Len(c) <= Len(e) /\ \A i \in 1..Len(c) : i \in 1..Len(d)
      BY <1>1, <1>3, <2>1
    <2>3. \A i \in 1..Len(c) : e[i] = c[i]
      BY <1>1, <1>3, <2>2
    <2>4. ASSUME NEW i \in (Len(c) + 1)..Len(e)
          PROVE  e[i].slot \in S /\ Linked(p, e, i)
      <3>1. CASE i = Len(e)
        BY <1>3, <3>1
      <3>2. CASE i # Len(e)
        <4>1. i \in (Len(c) + 1)..Len(d) /\ i \in 1..Len(d) /\ Len(d) <= Len(e)
          BY <1>3, <2>1, <3>2
        <4>2. Linked(p, d, i) /\ d[i].slot \in S /\ e[i] = d[i]
          BY <1>1, <1>3, <4>1
        <4> QED
          BY <1>1, <1>3, <4>1, <4>2, LinkedStays
      <3> QED
        BY <3>1, <3>2
    <2> QED
      BY <1>3, <2>2, <2>3, <2>4 DEF Grown
  <1> QED
    BY <1>1, <1>2, <1>3, ProduceStep

\* What the loop has done after each slot.
LEMMA ProductionGrows ==
    ASSUME NEW p \in Peers, NEW c \in Seq(Entry), NEW s \in Seq(Slots)
    PROVE  \A k \in 0..Len(s) : Grown(p, c, Production(p, c, s)[k], ToSet(s))
  <1> DEFINE f == Production(p, c, s)
             T == {k \in 0..Len(s) : Grown(p, c, f[k], ToSet(s))}
  <1>1. f[0] = c /\ \A i \in 1..Len(s) : f[i] = produce(p, f[i - 1], s[i])
    BY ProductionLoop
  <1>2. \A i \in 1..Len(s) : s[i] \in Slots /\ s[i] \in ToSet(s)
    BY SeqParts
  <1> HIDE DEF f
  <1>3. 0 \in T
    <2>1. 0 \in 0..Len(s) /\ Len(c) \in Nat
      OBVIOUS
    <2>2. Len(c) <= Len(c) /\ (Len(c) + 1)..Len(c) = {}
      BY <2>1
    <2>3. Grown(p, c, c, ToSet(s))
      BY <2>2 DEF Grown
    <2> QED
      BY <1>1, <2>1, <2>3
  <1>4. ASSUME NEW k \in 1..Len(s), k - 1 \in T
        PROVE  k \in T
    <2>1. Grown(p, c, f[k - 1], ToSet(s))
      BY <1>4
    <2>2. Grown(p, c, f[k], ToSet(s))
      BY <1>1, <1>2, <2>1, GrownStep
    <2> QED
      BY <2>2
  <1>5. 0..Len(s) \subseteq T
    <2> HIDE DEF T
    <2>1. Len(s) \in Nat /\ \A k \in 1..Len(s) : k - 1 \in T => k \in T
      BY <1>4
    <2> QED
      BY <1>3, <2>1, PositionInduction
  <1> QED
    BY <1>5 DEF f

\* A slot of an ordered schedule that got no block was covered before.
LEMMA ProductionCovers ==
    ASSUME NEW p \in Peers, NEW c \in Seq(Entry), NEW s \in Seq(Slots), Ordered(s), NEW d,
           d = Production(p, c, s)[Len(s)]
    PROVE  \A k \in 1..Len(s) :
              \/ chain_tip_slot(c) >= s[k]
              \/ \E j \in (Len(c) + 1)..Len(d) : d[j].slot = s[k]
  <1> DEFINE f == Production(p, c, s)
             Tip(k) == chain_tip_slot(f[k])
             T == {k \in 0..Len(s) :
                      /\ Tip(k) = chain_tip_slot(c) \/ \E m \in 1..k : Tip(k) = s[m]
                      /\ \A m \in 1..k :
                            \/ chain_tip_slot(c) >= s[m]
                            \/ \E j \in (Len(c) + 1)..Len(f[k]) : f[k][j].slot = s[m]}
  <1>1. f[0] = c /\ \A i \in 1..Len(s) : f[i] = produce(p, f[i - 1], s[i])
    BY ProductionLoop
  <1>2. \A k \in 0..Len(s) : Grown(p, c, f[k], ToSet(s))
    BY ProductionGrows
  <1>3. s \in Seq(Int) /\ \A k \in 1..Len(s) : s[k] \in Int /\ s[k] \in Slots
    BY SlotsAreNatural
  <1>4. \A k \in 1..Len(s) : \A m \in 1..(k - 1) : s[m] < s[k]
    BY <1>3, OrderedAll
  <1>5. chain_tip_slot(c) \in Int
    BY TipParts
  <1> HIDE DEF f
  <1>6. 0 \in T
    <2>1. 0 \in 0..Len(s) /\ 1..0 = {} /\ Tip(0) = chain_tip_slot(c)
      BY <1>1
    <2> HIDE DEF Tip
    <2> QED
      BY <2>1
  <1>7. ASSUME NEW k \in 1..Len(s), k - 1 \in T
        PROVE  k \in T
    <2> DEFINE a == f[k - 1]
               b == f[k]
    <2>1. /\ chain_tip_slot(a) = chain_tip_slot(c) \/ \E m \in 1..(k - 1) : chain_tip_slot(a) = s[m]
          /\ \A m \in 1..(k - 1) :
                \/ chain_tip_slot(c) >= s[m]
                \/ \E j \in (Len(c) + 1)..Len(a) : a[j].slot = s[m]
      BY <1>7
    <2>2. k - 1 \in 0..Len(s) /\ k \in 1..k /\ \A m \in 1..(k - 1) : m \in 1..k
      OBVIOUS
    <2>3. a \in Seq(Entry) /\ Len(c) <= Len(a) /\ Len(a) \in Nat /\ Len(c) \in Nat
      BY <1>2, <2>2 DEF Grown
    <2>4. b = produce(p, a, s[k])
      BY <1>1
    <2>5. \A m \in 1..k : m = k \/ m \in 1..(k - 1)
      OBVIOUS
    <2>6. s[k] \in Slots /\ s[k] \in Int
      BY <1>3
    <2> HIDE DEF a, b
    <2>7. /\ chain_tip_slot(b) = chain_tip_slot(c) \/ \E m \in 1..k : chain_tip_slot(b) = s[m]
          /\ \A m \in 1..k :
                \/ chain_tip_slot(c) >= s[m]
                \/ \E j \in (Len(c) + 1)..Len(b) : b[j].slot = s[m]
      <3>1. CASE chain_tip_slot(a) >= s[k] /\ b = a
        <4>1. ~ \E m \in 1..(k - 1) : chain_tip_slot(a) = s[m]
          BY <1>3, <1>4, <2>6, <3>1
        <4>2. chain_tip_slot(c) >= s[k]
          BY <2>1, <3>1, <4>1
        <4>3. chain_tip_slot(b) = chain_tip_slot(c)
          BY <2>1, <3>1, <4>1
        <4> QED
          BY <2>1, <2>5, <3>1, <4>2, <4>3
      <3>2. CASE /\ chain_tip_slot(a) < s[k] /\ chain_tip_slot(b) = s[k]
                 /\ b \in Seq(Entry) /\ Len(b) = Len(a) + 1
                 /\ \A i \in 1..Len(a) : b[i] = a[i]
                 /\ b[Len(b)].slot = s[k]
                 /\ Linked(p, b, Len(b))
        <4>1. Len(b) \in (Len(c) + 1)..Len(b)
          BY <2>3, <3>2
        <4>2. \A j \in (Len(c) + 1)..Len(a) : j \in (Len(c) + 1)..Len(b) /\ b[j] = a[j]
          BY <2>3, <3>2
        <4>3. ASSUME NEW m \in 1..k
              PROVE  \/ chain_tip_slot(c) >= s[m]
                     \/ \E j \in (Len(c) + 1)..Len(b) : b[j].slot = s[m]
          <5>1. CASE m = k
            BY <3>2, <4>1, <5>1
          <5>2. CASE m \in 1..(k - 1)
            BY <2>1, <4>2, <5>2
          <5> QED
            BY <2>5, <5>1, <5>2
        <4> QED
          BY <2>2, <3>2, <4>3
      <3> QED
        BY <2>3, <2>4, <2>6, <3>1, <3>2, ProduceStep
    <2> QED
      BY <2>7 DEF b
  <1>8. 0..Len(s) \subseteq T
    <2> HIDE DEF T
    <2>1. Len(s) \in Nat /\ \A k \in 1..Len(s) : k - 1 \in T => k \in T
      BY <1>7
    <2> QED
      BY <1>6, <2>1, PositionInduction
  <1>9. Len(s) \in T
    <2> HIDE DEF T
    <2> QED
      BY <1>8
  <1>10. d = f[Len(s)]
    BY DEF f
  <1> QED
    BY <1>9, <1>10

\* Entries with the same fields are equal.
LEMMA SameEntry ==
    ASSUME NEW e \in Entry, NEW f \in Entry, e.slot = f.slot, e.number = f.number,
           e.hash = f.hash, e.source = f.source
    PROVE  e = f
  BY DEF Entry

\* Two chains of the same slots and numbers, equal before the fork.
Twins(fork, c, d) ==
    /\ Len(c) = Len(d)
    /\ \A i \in 1..Len(c) :
          /\ c[i].slot = d[i].slot /\ c[i].number = d[i].number
          /\ c[i].slot < fork => c[i] = d[i]

\* Before the fork two rules with the same timing hash the same label.
LEMMA SharedLabel ==
    ASSUME NEW p \in Peers, NEW q \in Peers, SameTiming(Rules[p], Rules[q]), NEW s \in Slots,
           s < Rules[p].fork
    PROVE  HashLabel(p, s) = HashLabel(q, s)
  <1>1. /\ Rules[p].kind = "forked_from_slot" /\ Rules[q].kind = "forked_from_slot"
        /\ Rules[p].first = Rules[q].first /\ Rules[p].interval = Rules[q].interval
        /\ Rules[p].fork = Rules[q].fork
    BY DEF SameTiming
  <1> QED
    BY <1>1 DEF HashLabel

\* One slot keeps twins twins.
LEMMA TwinsStep ==
    ASSUME NEW p \in Peers, NEW q \in Peers, SameTiming(Rules[p], Rules[q]),
           NEW c \in Seq(Entry), NEW d \in Seq(Entry), Twins(Rules[p].fork, c, d),
           NEW s \in Slots, NEW a, a = produce(p, c, s), NEW b, b = produce(q, d, s)
    PROVE  Twins(Rules[p].fork, a, b)
  <1> DEFINE fork == Rules[p].fork
  <1>1. /\ Len(c) = Len(d) /\ Len(c) \in Nat
        /\ \A i \in 1..Len(c) : /\ c[i].slot = d[i].slot /\ c[i].number = d[i].number
                                /\ c[i].slot < fork => c[i] = d[i]
    BY DEF Twins
  <1>2. chain_tip_slot(c) = chain_tip_slot(d)
    BY <1>1, TipParts
  <1>3. chain_tip_slot(c) \in Int /\ s \in Int
    BY TipParts, SlotsAreNatural
  <1>4. /\ Rules[p].kind = "forked_from_slot" /\ Rules[q].kind = "forked_from_slot"
        /\ fork \in Slots
    BY RuleFields DEF SameTiming, RuleType
  <1>5. \/ chain_tip_slot(c) >= s /\ a = c
        \/ /\ chain_tip_slot(c) < s
           /\ a \in Seq(Entry) /\ Len(a) = Len(c) + 1
           /\ \A i \in 1..Len(c) : a[i] = c[i]
           /\ a[Len(a)].slot = s /\ Linked(p, a, Len(a))
    BY ProduceStep
  <1>6. \/ chain_tip_slot(d) >= s /\ b = d
        \/ /\ chain_tip_slot(d) < s
           /\ b \in Seq(Entry) /\ Len(b) = Len(d) + 1
           /\ \A i \in 1..Len(d) : b[i] = d[i]
           /\ b[Len(b)].slot = s /\ Linked(q, b, Len(b))
    BY ProduceStep
  <1>7. CASE chain_tip_slot(c) >= s
    <2>1. a = c /\ b = d
      BY <1>2, <1>3, <1>5, <1>6, <1>7
    <2> QED
      BY <2>1
  <1>8. CASE ~(chain_tip_slot(c) >= s)
    <2>1. /\ a \in Seq(Entry) /\ Len(a) = Len(c) + 1
          /\ \A i \in 1..Len(c) : a[i] = c[i]
          /\ a[Len(a)].slot = s /\ Linked(p, a, Len(a))
      BY <1>5, <1>8
    <2>2. /\ b \in Seq(Entry) /\ Len(b) = Len(d) + 1
          /\ \A i \in 1..Len(d) : b[i] = d[i]
          /\ b[Len(b)].slot = s /\ Linked(q, b, Len(b))
      BY <1>2, <1>6, <1>8
    <2> DEFINE n == Len(c) + 1
    <2>3. n \in 1..n /\ Len(a) = n /\ Len(b) = n /\ a[n] \in Entry /\ b[n] \in Entry
      BY <1>1, <2>1, <2>2
    <2>4. \A i \in 1..n : i = n \/ i \in 1..Len(c)
      BY <1>1
    <2>5. n > 1 => /\ n - 1 \in 1..Len(c) /\ a[n - 1] = c[n - 1] /\ b[n - 1] = d[n - 1]
                   /\ c[n - 1].slot \in Int
      <3>1. n > 1 => n - 1 \in 1..Len(c)
        BY <1>1
      <3>2. \A i \in 1..Len(c) : c[i].slot \in Int
        BY EntryParts
      <3> QED
        BY <1>1, <2>1, <2>2, <3>1, <3>2
    <2> HIDE DEF n
    <2>6. /\ a[n].source = "production_rule" /\ b[n].source = "production_rule"
          /\ n > 1 => a[n - 1].slot < s
          /\ a[n].number = IF n > 1 THEN (a[n - 1].number + 1) % U64 ELSE 0
          /\ b[n].number = IF n > 1 THEN (b[n - 1].number + 1) % U64 ELSE 0
          /\ a[n].hash = Append(PrevHash(p, a, n), <<HashLabel(p, s), s>>)
          /\ b[n].hash = Append(PrevHash(q, b, n), <<HashLabel(q, s), s>>)
      BY <2>1, <2>2, <2>3, Zenon DEF Linked
    <2>7. a[n].slot = s /\ b[n].slot = s /\ a[n].number = b[n].number
      BY <1>1, <2>1, <2>2, <2>3, <2>5, <2>6
    <2>8. ASSUME s < fork
          PROVE  a[n] = b[n]
      <3>1. n > 1 => a[n - 1].hash = b[n - 1].hash
        <4>1. SUFFICES ASSUME n > 1 PROVE a[n - 1].hash = b[n - 1].hash
          OBVIOUS
        <4>2. c[n - 1].slot < s /\ c[n - 1].slot \in Int /\ fork \in Int
          BY <1>4, <2>5, <2>6, <4>1, SlotsAreNatural
        <4>3. c[n - 1].slot < fork
          BY <1>3, <2>8, <4>2
        <4> QED
          BY <1>1, <2>5, <4>1, <4>3
      <3>2. PrevHash(p, a, n) = PrevHash(q, b, n)
        BY <1>4, <3>1 DEF PrevHash
      <3>3. HashLabel(p, s) = HashLabel(q, s)
        BY <2>8, SharedLabel
      <3> QED
        BY <2>3, <2>6, <2>7, <3>2, <3>3, SameEntry
    <2>9. ASSUME NEW i \in 1..Len(a)
          PROVE  /\ a[i].slot = b[i].slot /\ a[i].number = b[i].number
                 /\ a[i].slot < fork => a[i] = b[i]
      <3>1. CASE i = n
        BY <2>7, <2>8, <3>1
      <3>2. CASE i \in 1..Len(c)
        <4>1. a[i] = c[i] /\ b[i] = d[i]
          BY <1>1, <2>1, <2>2, <3>2
        <4> QED
          BY <1>1, <3>2, <4>1
      <3> QED
        BY <2>3, <2>4, <3>1, <3>2
    <2> QED
      BY <2>3, <2>9 DEF Twins
  <1> QED
    BY <1>7, <1>8

\* The loops of two rules with the same timing keep twins twins.
LEMMA ProductionTwins ==
    ASSUME NEW p \in Peers, NEW q \in Peers, SameTiming(Rules[p], Rules[q]),
           NEW c \in Seq(Entry), NEW d \in Seq(Entry), Twins(Rules[p].fork, c, d),
           NEW s \in Seq(Slots)
    PROVE  Twins(Rules[p].fork, Production(p, c, s)[Len(s)], Production(q, d, s)[Len(s)])
  <1> DEFINE f == Production(p, c, s)
             g == Production(q, d, s)
             T == {k \in 0..Len(s) : Twins(Rules[p].fork, f[k], g[k])}
  <1>1. f[0] = c /\ \A i \in 1..Len(s) : f[i] = produce(p, f[i - 1], s[i])
    BY ProductionLoop
  <1>2. g[0] = d /\ \A i \in 1..Len(s) : g[i] = produce(q, g[i - 1], s[i])
    BY ProductionLoop
  <1>3. \A k \in 0..Len(s) : f[k] \in Seq(Entry) /\ g[k] \in Seq(Entry)
    BY ProductionGrows DEF Grown
  <1> HIDE DEF f, g
  <1>4. 0 \in T
    BY <1>1, <1>2
  <1>5. ASSUME NEW k \in 1..Len(s), k - 1 \in T
        PROVE  k \in T
    <2>1. k - 1 \in 0..Len(s) /\ Twins(Rules[p].fork, f[k - 1], g[k - 1])
      BY <1>5
    <2>2. s[k] \in Slots
      OBVIOUS
    <2>3. PICK a \in Seq(Entry), b \in Seq(Entry) : a = f[k - 1] /\ b = g[k - 1]
      BY <1>3, <2>1
    <2>4. f[k] = produce(p, a, s[k]) /\ g[k] = produce(q, b, s[k])
      BY <1>1, <1>2, <2>3
    <2>5. Twins(Rules[p].fork, f[k], g[k])
      BY <2>1, <2>2, <2>3, <2>4, TwinsStep
    <2> QED
      BY <2>5
  <1>6. 0..Len(s) \subseteq T
    <2> HIDE DEF T
    <2>1. Len(s) \in Nat /\ \A k \in 1..Len(s) : k - 1 \in T => k \in T
      BY <1>5
    <2> QED
      BY <1>4, <2>1, PositionInduction
  <1>7. Len(s) \in T
    <2> HIDE DEF T
    <2> QED
      BY <1>6
  <1> QED
    BY <1>7 DEF f, g

-----------------------------------------------------------------------------
(* Slot arithmetic and the schedule of a rule.                             *)

\* Multiplying by an interval keeps the order.
LEMMA MultiplesInOrder ==
    ASSUME NEW d \in Nat \ {0}, NEW m \in Int, NEW k \in Int
    PROVE  m <= k <=> m * d <= k * d
  <1>1. ASSUME m <= k PROVE m * d <= k * d
    <2>1. k * d = m * d + (k - m) * d
      OBVIOUS
    <2>2. (k - m) * d >= 0
      BY <1>1
    <2> QED
      BY <2>1, <2>2
  <1>2. ASSUME k < m PROVE k * d < m * d
    <2>1. m * d = k * d + (m - k - 1) * d + d
      OBVIOUS
    <2>2. (m - k - 1) * d >= 0
      BY <1>2
    <2> QED
      BY <2>1, <2>2
  <1> QED
    BY <1>1, <1>2

\* Quotient and remainder.
LEMMA Division ==
    ASSUME NEW d \in Nat \ {0}, NEW a \in Nat
    PROVE  /\ a \div d \in Nat
           /\ (a \div d) * d <= a
           /\ a < (a \div d) * d + d
           /\ a % d = a - (a \div d) * d
  <1>1. a \div d \in Int /\ a % d \in 0..(d - 1)
    OBVIOUS
  <1>2. a = d * (a \div d) + (a % d)
    OBVIOUS
  <1>3. d * (a \div d) = (a \div d) * d
    BY <1>1
  <1>4. a \div d \in Nat
    OBVIOUS
  <1> QED
    BY <1>1, <1>2, <1>3, <1>4

\* A multiple has no remainder.
LEMMA MultipleDivides ==
    ASSUME NEW d \in Nat \ {0}, NEW m \in Nat
    PROVE  (m * d) % d = 0 /\ (m * d) \div d = m
  OBVIOUS

\* A multiple that fits is at most the quotient.
LEMMA QuotientIsLargest ==
    ASSUME NEW d \in Nat \ {0}, NEW a \in Nat, NEW m \in Int
    PROVE  m * d <= a <=> m <= a \div d
  <1> DEFINE q == a \div d
  <1>1. q \in Nat /\ q * d <= a /\ a < q * d + d
    BY Division
  <1> HIDE DEF q
  <1>2. m <= q => m * d <= a
    <2>1. m <= q => m * d <= q * d
      BY <1>1, MultiplesInOrder
    <2>2. m * d \in Int /\ q * d \in Int
      BY <1>1
    <2> QED
      BY <1>1, <2>1, <2>2
  <1>3. ~(m <= q) => ~(m * d <= a)
    <2>1. ~(m <= q) => q + 1 <= m
      BY <1>1
    <2>2. ~(m <= q) => (q + 1) * d <= m * d
      BY <1>1, <2>1, MultiplesInOrder
    <2>3. (q + 1) * d = q * d + d /\ m * d \in Int /\ q * d \in Int
      BY <1>1
    <2> QED
      BY <1>1, <2>2, <2>3
  <1> QED
    BY <1>2, <1>3 DEF q

\* The slots from begin to `to', an interval apart.
IsStep(begin, d, to, x) == \E k \in Nat : x = begin + k * d /\ x <= to

\* The sequence of them.
LEMMA Stepping ==
    ASSUME NEW d \in Nat \ {0}, NEW begin \in Nat, NEW to \in Slots, begin <= to, NEW s,
           s = [i \in 1..((to - begin) \div d + 1) |-> begin + (i - 1) * d]
    PROVE  /\ s \in Seq(Slots)
           /\ Ordered(s)
           /\ \A x : x \in ToSet(s) <=> IsStep(begin, d, to, x)
  <1> DEFINE n == (to - begin) \div d
  <1>1. to \in Nat /\ to < U64 /\ U64 \in Nat
    BY SlotsAreNatural
  <1>2. to - begin \in Nat
    BY <1>1
  <1>3. n \in Nat
    BY <1>2, Division
  <1>4. \A k \in Int : k * d <= to - begin <=> k <= n
    BY <1>2, QuotientIsLargest
  <1> HIDE DEF n
  <1>5. s = [i \in 1..(n + 1) |-> begin + (i - 1) * d]
    BY DEF n
  <1>6. ASSUME NEW i \in 1..(n + 1)
        PROVE  begin + (i - 1) * d \in Slots
    <2>1. i - 1 \in Nat /\ i - 1 <= n
      BY <1>3
    <2>2. (i - 1) * d <= to - begin /\ (i - 1) * d \in Nat
      BY <1>4, <2>1
    <2> DEFINE m == (i - 1) * d
    <2>3. m <= to - begin /\ m \in Nat
      BY <2>2
    <2> HIDE DEF m
    <2>4. begin + m \in Nat /\ begin + m < U64
      BY <1>1, <2>3
    <2>5. begin + m \in Slots
      BY <2>4, SlotsAreNatural
    <2> QED
      BY <2>5 DEF m
  <1>7. s \in Seq(Slots) /\ Len(s) = n + 1
    <2>1. s \in [1..(n + 1) -> Slots]
      BY <1>5, <1>6
    <2>2. n + 1 \in Nat
      BY <1>3
    <2> QED
      BY <2>1, <2>2, FunctionIsSeq, Zenon
  <1>8. \A i \in 1..(n + 1) : s[i] = begin + (i - 1) * d
    BY <1>5
  <1>9. ASSUME NEW i \in 2..Len(s)
        PROVE  s[i - 1] < s[i]
    <2>0. i \in 2..(n + 1)
      BY <1>7
    <2>1. i \in 1..(n + 1) /\ i - 1 \in 1..(n + 1) /\ i \in Int
      BY <1>3, <2>0
    <2>2. s[i] = begin + (i - 1) * d /\ s[i - 1] = begin + ((i - 1) - 1) * d
      BY <1>8, <2>1
    <2>3. (i - 1) * d = ((i - 1) - 1) * d + d /\ ((i - 1) - 1) * d \in Int
      BY <2>1
    <2> QED
      BY <2>2, <2>3
  <1>10. ASSUME NEW x
         PROVE  x \in ToSet(s) <=> IsStep(begin, d, to, x)
    <2>1. x \in ToSet(s) <=> \E i \in 1..(n + 1) : x = begin + (i - 1) * d
      <3>1. ToSet(s) = {s[i] : i \in 1..(n + 1)}
        <4>1. DOMAIN s = 1..(n + 1)
          BY <1>5
        <4> QED
          BY <4>1, Zenon DEF ToSet
      <3> QED
        BY <1>8, <3>1
    <2>2. ASSUME NEW i \in 1..(n + 1), x = begin + (i - 1) * d
          PROVE  \E k \in Nat : x = begin + k * d /\ x <= to
      <3>1. i - 1 \in Nat /\ i - 1 <= n
        BY <1>3
      <3>2. (i - 1) * d <= to - begin /\ (i - 1) * d \in Nat
        BY <1>4, <3>1
      <3>3. x <= to
        BY <1>1, <2>2, <3>2
      <3> QED
        BY <2>2, <3>1, <3>3
    <2>3. ASSUME NEW k \in Nat, x = begin + k * d, x <= to
          PROVE  \E i \in 1..(n + 1) : x = begin + (i - 1) * d
      <3>1. k * d \in Nat
        OBVIOUS
      <3>2. k * d <= to - begin
        BY <1>1, <2>3, <3>1
      <3>3. k <= n
        BY <1>4, <3>2
      <3>4. k + 1 \in 1..(n + 1) /\ (k + 1) - 1 = k
        BY <1>3, <3>3
      <3> QED
        BY <2>3, <3>4
    <2>4. x \in ToSet(s) <=> \E k \in Nat : x = begin + k * d /\ x <= to
      BY <2>1, <2>2, <2>3
    <2> QED
      BY <2>4, Zenon DEF IsStep
  <1> QED
    BY <1>7, <1>9, <1>10 DEF Ordered

\* The slots of every_n_slots_range increase and are not after `to'.
LEMMA EveryType ==
    ASSUME NEW first \in Slots, NEW interval \in Slots, NEW from \in Slots, NEW to \in Slots
    PROVE  /\ every_n_slots_range(first, interval, from, to) \in Seq(Slots)
           /\ Ordered(every_n_slots_range(first, interval, from, to))
  <1> DEFINE skip == ((from - first + interval - 1) % U64) \div interval
             begin == IF first >= from THEN first ELSE (first + skip * interval) % U64
             s == [i \in 1..((to - begin) \div interval + 1) |-> begin + (i - 1) * interval]
             e == every_n_slots_range(first, interval, from, to)
  <1>1. e = IF interval = 0 \/ from > to \/ begin > to THEN <<>> ELSE s
    BY Zenon DEF every_n_slots_range
  <1>2. /\ first \in Nat /\ interval \in Nat /\ from \in Nat /\ to \in Nat
        /\ U64 \in Nat /\ U64 > 0
    BY SlotsAreNatural
  <1>3. CASE interval = 0 \/ from > to \/ begin > to
    <2>1. e = <<>>
      BY <1>1, <1>3
    <2>2. <<>> \in Seq(Slots) /\ Ordered(<<>>)
      BY DEF Ordered
    <2> QED
      BY <2>1, <2>2
  <1>4. CASE ~(interval = 0 \/ from > to \/ begin > to)
    <2>1. e = s
      BY <1>1, <1>4
    <2>2. interval \in Nat \ {0}
      BY <1>2, <1>4
    <2>3. begin \in Nat
      <3> DEFINE x == (from - first + interval - 1) % U64
      <3>1. x \in Nat
        BY <1>2
      <3>2. skip \in Nat
        <4> HIDE DEF x
        <4>1. x \div interval \in Nat
          BY <2>2, <3>1, Division
        <4> QED
          BY <4>1 DEF x
      <3> HIDE DEF skip
      <3>3. (first + skip * interval) % U64 \in Nat
        BY <1>2, <3>2
      <3> QED
        BY <1>2, <3>3
    <2>4. begin <= to
      BY <1>2, <1>4, <2>3
    <2> HIDE DEF begin
    <2> QED
      BY <2>1, <2>2, <2>3, <2>4, Stepping
  <1> QED
    BY <1>3, <1>4

\* Where the arithmetic does not wrap it returns the scheduled slots of the
\* range, and no others.
LEMMA EverySchedule ==
    ASSUME NEW first \in Slots, NEW interval \in Slots \ {0}, NEW from \in Slots,
           NEW to \in Slots, to + interval <= U64, NEW x
    PROVE  x \in ToSet(every_n_slots_range(first, interval, from, to)) <=>
              x \in from..to /\ x >= first /\ (x - first) % interval = 0
  <1> DEFINE skip == ((from - first + interval - 1) % U64) \div interval
             begin == IF first >= from THEN first ELSE (first + skip * interval) % U64
             s == [i \in 1..((to - begin) \div interval + 1) |-> begin + (i - 1) * interval]
             e == every_n_slots_range(first, interval, from, to)
             Scheduled == x \in from..to /\ x >= first /\ (x - first) % interval = 0
  <1>1. e = IF interval = 0 \/ from > to \/ begin > to THEN <<>> ELSE s
    BY Zenon DEF every_n_slots_range
  <1>2. /\ first \in Nat /\ interval \in Nat \ {0} /\ from \in Nat /\ to \in Nat
        /\ U64 \in Nat /\ U64 > 0 /\ to < U64
    BY SlotsAreNatural
  <1>3. CASE from > to
    <2>1. ~Scheduled
      BY <1>2, <1>3
    <2>2. e = <<>>
      BY <1>1, <1>3
    <2>3. ToSet(<<>>) = {}
      BY DEF ToSet
    <2> QED
      BY <2>1, <2>2, <2>3
  <1>4. CASE ~(from > to)
    \* the first scheduled slot that is not before from
    <2>1. PICK q \in Nat : /\ begin = first + q * interval
                           /\ from <= begin
                           /\ q > 0 => first + (q - 1) * interval < from
      <3>1. CASE first >= from
        <4>1. begin = first /\ first = first + 0 * interval
          BY <1>2, <3>1
        <4> QED
          BY <1>2, <3>1, <4>1
      <3>2. CASE ~(first >= from)
        <4> DEFINE a == from - first + interval - 1
        <4>1. a \in Nat /\ a < U64
          BY <1>2, <1>4, <3>2
        <4>2. a % U64 = a
          BY <1>2, <4>1
        <4>3. skip = a \div interval
          BY <4>2
        <4> HIDE DEF a
        <4>4. skip \in Nat /\ skip * interval <= a /\ a < skip * interval + interval
          BY <1>2, <4>1, <4>3, Division
        <4>5. begin = (first + skip * interval) % U64
          BY <3>2
        <4> HIDE DEF skip, begin
        <4> DEFINE m == skip * interval
        <4>6. m \in Nat /\ m <= a /\ a < m + interval /\ begin = (first + m) % U64
          BY <1>2, <4>4, <4>5
        <4> HIDE DEF m
        <4>7. first + m < U64 /\ first + m \in Nat /\ from <= first + m
              /\ first + m - interval < from
          BY <1>2, <1>4, <3>2, <4>6 DEF a
        <4>8. begin = first + m
          BY <1>2, <4>6, <4>7
        <4>9. (skip - 1) * interval = m - interval
          BY <1>2, <4>4 DEF m
        <4>10. first + (skip - 1) * interval < from
          BY <1>2, <4>6, <4>7, <4>9
        <4>11. begin = first + skip * interval /\ from <= begin
          BY <4>7, <4>8 DEF m
        <4> QED
          BY <4>4, <4>10, <4>11
      <3> QED
        BY <3>1, <3>2
    <2> HIDE DEF begin
    <2>2. begin \in Nat
      <3>1. q * interval \in Nat
        BY <1>2
      <3> QED
        BY <1>2, <2>1, <3>1
    \* a scheduled slot is one of the steps from there
    <2>3. ASSUME Scheduled
          PROVE  \E k \in Nat : x = begin + k * interval /\ x <= to
      <3> DEFINE j == (x - first) \div interval
      <3>1. x \in Nat /\ x - first \in Nat /\ from <= x /\ x <= to
        BY <1>2, <2>3
      <3>2. j \in Nat /\ (x - first) % interval = x - first - j * interval
        BY <1>2, <3>1, Division
      <3> HIDE DEF j
      <3>3. x = first + j * interval
        <4>1. j * interval \in Int
          BY <1>2, <3>2
        <4> QED
          BY <1>2, <2>3, <3>1, <3>2, <4>1
      <3>4. q <= j
        <4>1. CASE q = 0
          BY <3>2, <4>1
        <4>2. CASE q # 0
          <5>1. first + (q - 1) * interval < from
            BY <2>1, <4>2
          <5>2. (q - 1) * interval < j * interval
            <6>1. (q - 1) * interval \in Int /\ j * interval \in Int
              BY <1>2, <3>2
            <6> QED
              BY <1>2, <3>1, <3>3, <5>1, <6>1
          <5>3. ~(j <= q - 1)
            <6>1. j <= q - 1 <=> j * interval <= (q - 1) * interval
              BY <1>2, <3>2, MultiplesInOrder
            <6>2. (q - 1) * interval \in Int /\ j * interval \in Int
              BY <1>2, <3>2
            <6> QED
              BY <5>2, <6>1, <6>2
          <5> QED
            BY <3>2, <5>3
        <4> QED
          BY <4>1, <4>2
      <3>5. j - q \in Nat
        BY <3>2, <3>4
      <3>6. j * interval = q * interval + (j - q) * interval
        BY <1>2, <3>2
      <3>7. x = begin + (j - q) * interval
        <4>1. q * interval \in Int /\ (j - q) * interval \in Int
          BY <1>2, <3>2
        <4> QED
          BY <1>2, <2>1, <3>3, <3>6, <4>1
      <3> QED
        BY <3>1, <3>5, <3>7
    \* and each of the steps is scheduled
    <2>4. ASSUME NEW k \in Nat, x = begin + k * interval, x <= to
          PROVE  Scheduled
      <3>1. x = first + (q + k) * interval
        <4>1. (q + k) * interval = q * interval + k * interval
          BY <1>2
        <4>2. q * interval \in Int /\ k * interval \in Int
          BY <1>2
        <4> QED
          BY <1>2, <2>1, <2>4, <4>1, <4>2
      <3>2. (q + k) * interval \in Nat /\ k * interval \in Nat
        BY <1>2
      <3>3. x - first = (q + k) * interval /\ x \in Nat /\ x >= first /\ x >= begin
        BY <1>2, <2>2, <2>4, <3>1, <3>2
      <3>4. ((q + k) * interval) % interval = 0
        BY <1>2, MultipleDivides
      <3>5. (x - first) % interval = 0
        BY <3>3, <3>4
      <3> QED
        BY <1>2, <2>1, <2>2, <2>4, <3>3, <3>5
    <2>5. CASE begin > to
      <3>1. e = <<>>
        BY <1>1, <2>5 DEF begin
      <3>2. ToSet(<<>>) = {}
        BY DEF ToSet
      <3>3. ~ \E k \in Nat : x = begin + k * interval /\ x <= to
        <4>1. SUFFICES ASSUME NEW k \in Nat, x = begin + k * interval, x <= to PROVE FALSE
          OBVIOUS
        <4>2. k * interval \in Nat
          BY <1>2
        <4> QED
          BY <1>2, <2>2, <2>5, <4>1, <4>2
      <3>4. ~Scheduled
        BY <2>3, <3>3
      <3> QED
        BY <3>1, <3>2, <3>4
    <2>6. CASE ~(begin > to)
      <3>1. e = s
        BY <1>1, <1>2, <1>4, <2>6 DEF begin
      <3>2. begin <= to
        BY <1>2, <2>2, <2>6
      <3>5. s = [i \in 1..((to - begin) \div interval + 1) |-> begin + (i - 1) * interval]
        OBVIOUS
      <3> HIDE DEF s, Scheduled
      <3>6. x \in ToSet(s) <=> IsStep(begin, interval, to, x)
        BY <1>2, <2>2, <3>2, <3>5, Stepping
      <3>3. x \in ToSet(s) <=> \E k \in Nat : x = begin + k * interval /\ x <= to
        BY <3>6, Zenon DEF IsStep
      <3>4. x \in ToSet(s) <=> Scheduled
        BY <2>3, <2>4, <3>3
      <3> QED
        BY <3>1, <3>4 DEF Scheduled
    <2> QED
      BY <2>5, <2>6
  <1> QED
    BY <1>3, <1>4

\* The kinds of rule that fire at an interval.
Periodic(r) == r.kind \notin {"none", "at_slots"}

\* What slots_in_range computes, for each kind of rule.
LEMMA ScheduleCases ==
    ASSUME NEW p \in Peers, NEW from, NEW to
    PROVE  LET r == Rules[p]
               every == every_n_slots_range(r.first, r.interval, from, to)
           IN  \/ r.kind = "none" /\ slots_in_range(r, from, to) = <<>>
               \/ r.kind = "at_slots" /\ slots_in_range(r, from, to) = Filter(r.slots, from..to)
               \/ /\ Periodic(r) /\ r.kind # "skips_slots"
                  /\ slots_in_range(r, from, to) = every
               \/ /\ r.kind = "skips_slots" /\ Periodic(r)
                  /\ slots_in_range(r, from, to) = Filter(every,
                        {s \in ToSet(every) : (s - r.first) \div r.interval \notin r.skip})
  <1> DEFINE r == Rules[p]
  <1>1. r.kind \in Kinds
    BY RuleFields DEF RuleType
  <1>2. CASE r.kind = "none"
    BY <1>2 DEF slots_in_range
  <1>3. CASE r.kind = "at_slots"
    BY <1>3 DEF slots_in_range
  <1>4. CASE r.kind \in {"every_n_slots", "forked_from_slot", "broken_prev_hash"}
    BY <1>4 DEF slots_in_range, Periodic
  <1>5. CASE r.kind = "skips_slots"
    BY <1>5 DEF slots_in_range, Periodic
  <1> QED
    BY <1>1, <1>2, <1>3, <1>4, <1>5 DEF Kinds

\* The slots of a rule are slots, in order: at_slots lists are checked to be.
LEMMA ScheduleType ==
    ASSUME NEW p \in Peers, NEW from \in Slots, NEW to \in Slots, StartSlots # {}
    PROVE  /\ slots_in_range(Rules[p], from, to) \in Seq(Slots)
           /\ Ordered(slots_in_range(Rules[p], from, to))
  <1> DEFINE r == Rules[p]
             every == every_n_slots_range(r.first, r.interval, from, to)
             s == slots_in_range(r, from, to)
  <1>1. RuleType(r)
    BY RuleFields
  <1>2. \A x \in Seq(Slots) : x \in Seq(Int)
    BY SlotsAreNatural
  <1>3. CASE r.kind = "none" /\ s = <<>>
    <2>1. <<>> \in Seq(Slots) /\ Ordered(<<>>)
      BY DEF Ordered
    <2> QED
      BY <1>3, <2>1
  <1>4. CASE r.kind = "at_slots" /\ s = Filter(r.slots, from..to)
    <2>1. r.slots \in Seq(Slots)
      BY <1>1, <1>4 DEF RuleType
    <2>2. PICK st \in StartSlots : WellFormed(r, st)
      BY NetworkAssumption
    <2>3. Ordered(r.slots)
      BY <1>4, <2>2 DEF WellFormed, Ordered
    <2>4. s \in Seq(Slots)
      BY <1>4, <2>1, FilterKeeps
    <2>5. Ordered(s)
      BY <1>2, <1>4, <2>1, <2>3, FilterOrdered
    <2> QED
      BY <2>4, <2>5
  <1>5. ASSUME Periodic(r)
        PROVE  every \in Seq(Slots) /\ Ordered(every)
    <2>1. r.first \in Slots /\ r.interval \in Slots
      BY <1>1, <1>5 DEF RuleType, Periodic
    <2> QED
      BY <2>1, EveryType
  <1>6. CASE Periodic(r) /\ s = every
    BY <1>5, <1>6
  <1>7. CASE /\ Periodic(r)
             /\ s = Filter(every, {x \in ToSet(every) : (x - r.first) \div r.interval \notin r.skip})
    <2> DEFINE K == {x \in ToSet(every) : (x - r.first) \div r.interval \notin r.skip}
    <2>1. every \in Seq(Slots) /\ Ordered(every) /\ s = Filter(every, K)
      BY <1>5, <1>7
    <2> HIDE DEF every, K, s
    <2>2. s \in Seq(Slots)
      BY <2>1, FilterKeeps
    <2>3. Ordered(s)
      BY <1>2, <2>1, FilterOrdered
    <2> QED
      BY <2>2, <2>3 DEF s
  <1> QED
    BY <1>3, <1>4, <1>6, <1>7, ScheduleCases

\* Where the arithmetic does not wrap they are the slots of the range that the
\* rule schedules, and no others.
LEMMA ScheduleSlots ==
    ASSUME NEW p \in Peers, NEW from \in Slots, NEW to \in Slots, StartSlots # {},
           Periodic(Rules[p]) => to + Rules[p].interval <= U64, NEW x
    PROVE  x \in ToSet(slots_in_range(Rules[p], from, to)) <=>
              x \in from..to /\ OnSchedule(Rules[p], x)
  <1> DEFINE r == Rules[p]
             every == every_n_slots_range(r.first, r.interval, from, to)
             s == slots_in_range(r, from, to)
  <1>1. RuleType(r)
    BY RuleFields
  <1>2. CASE r.kind = "none" /\ s = <<>>
    <2>1. ToSet(<<>>) = {} /\ ~OnSchedule(r, x)
      BY <1>2 DEF ToSet, OnSchedule
    <2> QED
      BY <1>2, <2>1
  <1>3. CASE r.kind = "at_slots" /\ s = Filter(r.slots, from..to)
    <2>1. r.slots \in Seq(Slots)
      BY <1>1, <1>3 DEF RuleType
    <2> DEFINE t == r.slots
               R == from..to
    <2>4. t \in Seq(Slots) /\ s = Filter(t, R)
      BY <1>3, <2>1
    <2> HIDE DEF s, t, R
    <2>5. ToSet(s) = {y \in ToSet(t) : y \in R}
      BY <2>4, FilterKeeps
    <2>2. x \in ToSet(s) <=> x \in from..to /\ x \in ToSet(r.slots)
      BY <2>5 DEF t, R
    <2>3. OnSchedule(r, x) <=> x \in ToSet(r.slots)
      BY <1>3 DEF OnSchedule
    <2> QED
      BY <2>2, <2>3 DEF s
  <1>4. ASSUME Periodic(r)
        PROVE  /\ every \in Seq(Slots)
               /\ x \in ToSet(every) <=>
                     x \in from..to /\ x >= r.first /\ (x - r.first) % r.interval = 0
               /\ OnSchedule(r, x) <=>
                     /\ x >= r.first /\ (x - r.first) % r.interval = 0
                     /\ r.kind = "skips_slots" => (x - r.first) \div r.interval \notin r.skip
    <2>1. r.kind # "none" /\ r.kind # "at_slots"
      BY <1>4 DEF Periodic
    <2>2. r.first \in Slots /\ r.interval \in Slots
      BY <1>1, <2>1 DEF RuleType
    <2>3. PICK st \in StartSlots : WellFormed(r, st)
      BY NetworkAssumption
    <2>4. r.interval > 0
      BY <2>1, <2>3 DEF WellFormed
    <2>5. r.interval \in Slots \ {0}
      BY <2>2, <2>4, SlotsAreNatural
    <2>6. to + r.interval <= U64
      BY <1>4
    <2>7. every \in Seq(Slots)
      BY <2>2, EveryType
    <2>8. x \in ToSet(every) <=>
              x \in from..to /\ x >= r.first /\ (x - r.first) % r.interval = 0
      BY <2>2, <2>5, <2>6, EverySchedule
    <2>9. OnSchedule(r, x) <=>
              /\ x >= r.first /\ (x - r.first) % r.interval = 0
              /\ r.kind = "skips_slots" => (x - r.first) \div r.interval \notin r.skip
      BY <2>1, Zenon DEF OnSchedule
    <2> QED
      BY <2>7, <2>8, <2>9
  <1>5. CASE Periodic(r) /\ r.kind # "skips_slots" /\ s = every
    BY <1>4, <1>5
  <1>6. CASE /\ r.kind = "skips_slots" /\ Periodic(r)
             /\ s = Filter(every, {y \in ToSet(every) : (y - r.first) \div r.interval \notin r.skip})
    <2> DEFINE K == {y \in ToSet(every) : (y - r.first) \div r.interval \notin r.skip}
               A == x >= r.first /\ (x - r.first) % r.interval = 0
               B == (x - r.first) \div r.interval \notin r.skip
    <2>1. /\ every \in Seq(Slots) /\ s = Filter(every, K)
          /\ x \in ToSet(every) <=> x \in from..to /\ A
          /\ OnSchedule(r, x) <=> A /\ B
      BY <1>4, <1>6, Zenon
    <2>2. x \in ToSet(every) => (x \in K <=> B)
      OBVIOUS
    <2> HIDE DEF every, K, s, A, B
    <2>3. ToSet(s) = {y \in ToSet(every) : y \in K}
      BY <2>1, FilterKeeps
    <2>4. x \in ToSet(s) <=> x \in from..to /\ OnSchedule(r, x)
      BY <2>1, <2>2, <2>3
    <2> QED
      BY <2>4 DEF s
  <1> QED
    BY <1>2, <1>3, <1>5, <1>6, ScheduleCases

-----------------------------------------------------------------------------
(* Types, and the kinds of step.                                           *)

EventType == Slots \X BOOLEAN \X Nat \X Nat

\* The type invariant, with the types of what a chain is made of.
Types ==
    /\ start \in StartSlots
    /\ current_slot \in {NoClock} \cup Slots
    /\ chain_entries \in [Peers -> Seq(Entry)]
    /\ block_store = [p \in Peers |-> block_store[p]]
    /\ fired \in [Peers -> SUBSET EventType]
    /\ view \in [Peers -> Seq(Entry)]
    /\ bodies = [p \in Peers |-> bodies[p]]
    /\ \A p \in Peers : bodies[p] \subseteq block_store[p]
    /\ status \in {"running", "step_error", "serve_error", "stuck"}
    /\ steps \in 0..MaxSteps

\* The clock moves and every rule fires.
FireStep(new) ==
    /\ status = "running" /\ current_slot \in Slots /\ new \in Slots
    /\ current_slot' = new
    /\ apply_production_rules(current_slot, new)
    /\ UNCHANGED <<start, view, bodies, status>>

\* The clock moves to the last slot and every_n_slots_range never returns.
StuckStep(new) ==
    /\ status = "running" /\ current_slot \in Slots /\ new = U64 - 1
    /\ current_slot' = new /\ status' = "stuck"
    /\ UNCHANGED <<start, chain_entries, block_store, fired, view, bodies>>

\* The step fails.
StopStep ==
    /\ status = "running" /\ status' \in {"step_error", "serve_error"}
    /\ UNCHANGED <<start, current_slot, chain_entries, block_store, fired, view, bodies>>

\* The entry of peer_extends_chain.
Explicit(slot, number) ==
    [slot |-> slot, number |-> number, hash |-> <<<<<<"explicit">>, slot>>>>,
     source |-> "explicit"]

\* One chain gets one explicit block.
ExtendStep(p, slot, number) ==
    /\ status = "running" /\ slot > chain_tip_slot(chain_entries[p])
    /\ chain_entries' = [chain_entries EXCEPT ![p] = Append(@, Explicit(slot, number))]
    /\ block_store' \in {block_store,
            [block_store EXCEPT ![p] = @ \cup {<<slot, <<<<<<"explicit">>, slot>>>>>>}]}
    /\ UNCHANGED <<start, current_slot, fired, view, bodies, status>>

\* One peer offers what the clock shows.
ViewStep(p) ==
    /\ status = "running"
    /\ view' = [view EXCEPT ![p] = filtered_fixture_chain(p)]
    /\ UNCHANGED <<start, current_slot, chain_entries, block_store, fired, bodies, status>>

\* One peer offers its blocks.
BodiesStep(p) ==
    /\ status = "running"
    /\ bodies' = [bodies EXCEPT ![p] = block_store[p]]
    /\ UNCHANGED <<start, current_slot, chain_entries, block_store, fired, view, status>>

\* Moving the clock fires the rules or gets stuck.
LEMMA MoveClockCases ==
    ASSUME status = "running", current_slot \in Slots, NEW new \in Slots,
           MoveClock(new), UNCHANGED start
    PROVE  FireStep(new) \/ StuckStep(new)
  <1>1. CASE \E p \in Peers : Diverges(Rules[p], new)
    BY <1>1, Zenon DEF MoveClock, StuckStep, Diverges
  <1>2. CASE ~ \E p \in Peers : Diverges(Rules[p], new)
    BY <1>2, Zenon DEF MoveClock, FireStep
  <1> QED
    BY <1>1, <1>2

\* Every step is one of these.
LEMMA StepCases ==
    ASSUME Types, Next
    PROVE  /\ steps' \in 0..MaxSteps
           /\ \/ \E new \in Slots : FireStep(new) \/ StuckStep(new)
              \/ StopStep
              \/ \E p \in Peers, slot \in Slots, number \in Slots : ExtendStep(p, slot, number)
              \/ \E p \in Peers : ViewStep(p) \/ BodiesStep(p)
  <1>1. MaxSteps \in Nat /\ Targets \subseteq Slots /\ Ticks \subseteq Slots /\ Numbers \subseteq Slots
    BY NetworkAssumption
  <1>2. ASSUME Running, Took
        PROVE  /\ status = "running" /\ UNCHANGED start /\ steps' \in 0..MaxSteps
    <2>1. steps \in Nat /\ steps < MaxSteps /\ steps' = steps + 1
      BY <1>1, <1>2 DEF Types, Running, Took
    <2> QED
      BY <1>1, <1>2, <2>1 DEF Running, Took
  <1>3. current_slot # NoClock => current_slot \in Slots
    BY DEF Types
  <1>4. ASSUME NEW new \in Targets, AdvanceToSlot(new)
        PROVE  /\ steps' \in 0..MaxSteps
               /\ FireStep(new) \/ StuckStep(new) \/ StopStep
    <2>1. status = "running" /\ UNCHANGED start /\ steps' \in 0..MaxSteps
      BY <1>2, <1>4 DEF AdvanceToSlot
    <2>2. CASE current_slot # NoClock /\ MoveClock(new)
      BY <1>1, <1>3, <2>1, <2>2, MoveClockCases
    <2>3. CASE Stop("step_error")
      BY <2>1, <2>3, Zenon DEF Stop, StopStep
    <2> QED
      BY <1>4, <2>1, <2>2, <2>3 DEF AdvanceToSlot
  <1>5. ASSUME NEW count \in Ticks, TickSlots(count)
        PROVE  /\ steps' \in 0..MaxSteps
               /\ \/ \E new \in Slots : FireStep(new) \/ StuckStep(new)
                  \/ StopStep
    <2>1. status = "running" /\ UNCHANGED start /\ steps' \in 0..MaxSteps
      BY <1>2, <1>5 DEF TickSlots
    <2>2. CASE current_slot # NoClock /\ MoveClock((current_slot + count) % U64)
      <3> DEFINE new == (current_slot + count) % U64
      <3>1. current_slot \in Slots /\ count \in Nat /\ current_slot \in Nat
        BY <1>1, <1>3, <2>2, SlotsAreNatural
      <3>2. new \in Nat /\ new < U64
        BY <3>1, SlotsAreNatural
      <3>3. new \in Slots
        BY <3>2, SlotsAreNatural
      <3>4. MoveClock(new)
        BY <2>2
      <3> HIDE DEF new
      <3> QED
        BY <2>1, <3>1, <3>3, <3>4, MoveClockCases
    <2>3. CASE Stop("step_error")
      BY <2>1, <2>3, Zenon DEF Stop, StopStep
    <2> QED
      BY <1>5, <2>1, <2>2, <2>3 DEF TickSlots
  <1>6. ASSUME NEW p \in Peers, NEW slot \in Targets, NEW number \in Numbers,
               NEW body \in BOOLEAN, PeerExtendsChain(p, slot, number, body)
        PROVE  /\ steps' \in 0..MaxSteps
               /\ StopStep \/ ExtendStep(p, slot, number)
    <2>1. status = "running" /\ UNCHANGED start /\ steps' \in 0..MaxSteps
      BY <1>2, <1>6 DEF PeerExtendsChain
    <2>2. CASE Stop("step_error")
      BY <2>1, <2>2, Zenon DEF Stop, StopStep
    <2>3. CASE ~Stop("step_error")
      <3>1. /\ slot > chain_tip_slot(chain_entries[p])
            /\ chain_entries' = [chain_entries EXCEPT ![p] = Append(@, Explicit(slot, number))]
            /\ block_store' = IF body
                    THEN [block_store EXCEPT ![p] = @ \cup {<<slot, <<<<<<"explicit">>, slot>>>>>>}]
                    ELSE block_store
            /\ UNCHANGED <<current_slot, fired, view, bodies, status>>
        BY <1>6, <2>3, Zenon DEF PeerExtendsChain, Explicit
      <3>2. block_store' \in {block_store,
              [block_store EXCEPT ![p] = @ \cup {<<slot, <<<<<<"explicit">>, slot>>>>>>}]}
        BY <3>1, Zenon
      <3> QED
        BY <2>1, <3>1, <3>2, Zenon DEF ExtendStep
    <2> QED
      BY <2>1, <2>2, <2>3
  <1>7. ASSUME NEW p \in Peers, ServeChainSync(p)
        PROVE  /\ steps' \in 0..MaxSteps
               /\ StopStep \/ ViewStep(p)
    <2>1. status = "running" /\ UNCHANGED start /\ steps' \in 0..MaxSteps
      BY <1>2, <1>7 DEF ServeChainSync
    <2>2. CASE Stop("serve_error")
      BY <2>1, <2>2, Zenon DEF Stop, StopStep
    <2>3. CASE ~Stop("serve_error")
      BY <1>7, <2>1, <2>3, Zenon DEF ServeChainSync, ViewStep
    <2> QED
      BY <2>1, <2>2, <2>3
  <1>8. ASSUME NEW p \in Peers, ServeBlockFetch(p)
        PROVE  /\ steps' \in 0..MaxSteps
               /\ BodiesStep(p)
    <2>1. status = "running" /\ UNCHANGED start /\ steps' \in 0..MaxSteps
      BY <1>2, <1>8 DEF ServeBlockFetch
    <2> QED
      BY <1>8, <2>1, Zenon DEF ServeBlockFetch, BodiesStep
  <1>9. CASE \E new \in Targets : AdvanceToSlot(new)
    BY <1>1, <1>4, <1>9, Zenon
  <1>10. CASE \E count \in Ticks : TickSlots(count)
    BY <1>5, <1>10, Zenon
  <1>11. CASE \E p \in Peers, slot \in Targets, number \in Numbers, body \in BOOLEAN :
                  PeerExtendsChain(p, slot, number, body)
    BY <1>1, <1>6, <1>11, Zenon
  <1>12. CASE \E p \in Peers : ServeChainSync(p)
    BY <1>7, <1>12, Zenon
  <1>13. CASE \E p \in Peers : ServeBlockFetch(p)
    BY <1>8, <1>13, Zenon
  <1> QED
    BY <1>9, <1>10, <1>11, <1>12, <1>13, Zenon DEF Next

-----------------------------------------------------------------------------
(* What a step does to the chain of a peer.                                *)

\* The slots the rule of p fires at when the clock moves from old to new.
Schedule(p, old, new) == slots_in_range(Rules[p], (old + 1) % U64, new)

\* The positions production fills.
Added(p) == (Len(chain_entries[p]) + 1)..Len(chain_entries'[p])

\* Firing the rules extends the chain of a peer by its loop.
LEMMA FireChain ==
    ASSUME Types, NEW new, FireStep(new), NEW p \in Peers, NEW s,
           s = Schedule(p, current_slot, new)
    PROVE  /\ s \in Seq(Slots) /\ Ordered(s)
           /\ chain_entries'[p] = Production(p, chain_entries[p], s)[Len(s)]
           /\ Grown(p, chain_entries[p], chain_entries'[p], ToSet(s))
  <1>1. new \in Slots /\ current_slot \in Slots /\ StartSlots # {} /\ chain_entries[p] \in Seq(Entry)
    BY DEF FireStep, Types
  <1>2. (current_slot + 1) % U64 \in Slots
    <2>1. current_slot \in Nat /\ U64 \in Nat /\ U64 > 0
      BY <1>1, SlotsAreNatural
    <2>2. (current_slot + 1) % U64 \in Nat /\ (current_slot + 1) % U64 < U64
      BY <2>1
    <2> QED
      BY <2>2, SlotsAreNatural
  <1>3. s \in Seq(Slots) /\ Ordered(s)
    BY <1>1, <1>2, ScheduleType DEF Schedule
  <1>4. chain_entries' = [q \in Peers |-> extended_chain(q, current_slot, new)]
    BY Zenon DEF FireStep, apply_production_rules
  <1>5. chain_entries'[p] = Production(p, chain_entries[p], s)[Len(s)]
    <2>1. chain_entries'[p] = extended_chain(p, current_slot, new)
      BY <1>4
    <2> QED
      BY <2>1, Zenon DEF extended_chain, Schedule
  <1>6. Grown(p, chain_entries[p], chain_entries'[p], ToSet(s))
    <2>1. Len(s) \in 0..Len(s)
      BY <1>3
    <2> QED
      BY <1>1, <1>3, <1>5, <2>1, ProductionGrows
  <1> QED
    BY <1>3, <1>5, <1>6

\* It stores the new blocks and records one event for each slot.
LEMMA FireParts ==
    ASSUME NEW new, FireStep(new), NEW p \in Peers, NEW s, s = Schedule(p, current_slot, new)
    PROVE  /\ block_store'[p] = block_store[p] \cup {Key(chain_entries'[p][i]) : i \in Added(p)}
           /\ fired'[p] = fired[p] \cup Events(p, s)
  <1>1. /\ block_store' = [q \in Peers |-> block_store[q] \cup
                {Key(chain_entries'[q][i]) : i \in Added(q)}]
        /\ fired' = [q \in Peers |-> fired[q] \cup Events(q, Schedule(q, current_slot, new))]
    BY Zenon DEF FireStep, apply_production_rules, Added, Schedule
  <1>2. block_store'[p] = block_store[p] \cup {Key(chain_entries'[p][i]) : i \in Added(p)}
    BY <1>1, Zenon
  <1>3. fired'[p] = fired[p] \cup Events(p, s)
    BY <1>1, Zenon
  <1> QED
    BY <1>2, <1>3

\* An explicit block is an entry.
LEMMA ExplicitIsEntry ==
    ASSUME NEW slot \in Slots, NEW number \in Slots
    PROVE  /\ Explicit(slot, number) \in Entry
           /\ Explicit(slot, number).slot = slot
           /\ Explicit(slot, number).source = "explicit"
  <1>1. <<<<"explicit">>, slot>> \in Parts
    <2>1. <<<<"explicit">>, slot>> \in ExplicitParts
      BY DEF ExplicitParts
    <2> QED
      BY <2>1, Zenon DEF Parts
  <1> DEFINE x == <<<<"explicit">>, slot>>
  <1> HIDE DEF x
  <1>2. x \in Parts
    BY <1>1 DEF x
  <1>3. <<x>> \in Hash
    BY <1>2 DEF Hash
  <1>4. Explicit(slot, number) = [slot |-> slot, number |-> number, hash |-> <<x>>, source |-> "explicit"]
    BY Zenon DEF Explicit, x
  <1> QED
    BY <1>3, <1>4 DEF Entry, Sources

\* An explicit extension, for one peer.
LEMMA ExtendStepParts ==
    ASSUME Types, NEW p \in Peers, NEW slot \in Slots, NEW number \in Slots,
           ExtendStep(p, slot, number), NEW q \in Peers
    PROVE  /\ block_store[q] \subseteq block_store'[q]
           /\ q # p => chain_entries'[q] = chain_entries[q]
           /\ q = p => chain_entries'[q] = Append(chain_entries[q], Explicit(slot, number))
  <1>1. chain_entries \in [Peers -> Seq(Entry)] /\ block_store = [r \in Peers |-> block_store[r]]
    BY DEF Types
  <1>2. chain_entries' = [chain_entries EXCEPT ![p] = Append(@, Explicit(slot, number))]
    BY DEF ExtendStep
  <1>3. \/ block_store' = block_store
        \/ block_store' = [block_store EXCEPT ![p] = @ \cup {<<slot, <<<<<<"explicit">>, slot>>>>>>}]
    BY DEF ExtendStep
  <1>4. block_store[q] \subseteq block_store'[q]
    <2> DEFINE k == {<<slot, <<<<<<"explicit">>, slot>>>>>>}
    <2>1. block_store' = block_store \/ block_store' = [block_store EXCEPT ![p] = @ \cup k]
      BY <1>3
    <2> HIDE DEF k
    <2> QED
      BY <1>1, <2>1
  <1> QED
    BY <1>1, <1>2, <1>4

\* A new block is produced and stored, or explicit; either way after the last.
Sound(p, i) ==
    LET d == chain_entries[p] IN
    \/ Linked(p, d, i) /\ Key(d[i]) \in block_store[p]
    \/ d[i].source = "explicit" /\ (i > 1 => d[i - 1].slot < d[i].slot)

\* How a step may change a chain: it only grows, by blocks that are sound.
LEMMA StepGrows ==
    ASSUME Types, [Next]_vars, NEW p \in Peers
    PROVE  /\ chain_entries'[p] \in Seq(Entry)
           /\ Len(chain_entries[p]) <= Len(chain_entries'[p])
           /\ \A i \in 1..Len(chain_entries[p]) : chain_entries'[p][i] = chain_entries[p][i]
           /\ block_store[p] \subseteq block_store'[p]
           /\ \A i \in Added(p) : Sound(p, i)'
  <1> DEFINE c == chain_entries[p]
             d == chain_entries'[p]
  <1>1. c \in Seq(Entry) /\ Len(c) \in Nat
    BY DEF Types
  <1>2. ASSUME UNCHANGED <<chain_entries, block_store>>
        PROVE  /\ d \in Seq(Entry) /\ Len(c) <= Len(d)
               /\ \A i \in 1..Len(c) : d[i] = c[i]
               /\ block_store[p] \subseteq block_store'[p]
               /\ \A i \in Added(p) : Sound(p, i)'
    <2>1. Added(p) = {}
      BY <1>1, <1>2 DEF Added
    <2> QED
      BY <1>1, <1>2, <2>1
  <1>3. ASSUME NEW new \in Slots, FireStep(new)
        PROVE  /\ d \in Seq(Entry) /\ Len(c) <= Len(d)
               /\ \A i \in 1..Len(c) : d[i] = c[i]
               /\ block_store[p] \subseteq block_store'[p]
               /\ \A i \in Added(p) : Sound(p, i)'
    <2> DEFINE s == Schedule(p, current_slot, new)
    <2>1. /\ Grown(p, c, d, ToSet(s))
          /\ block_store'[p] = block_store[p] \cup {Key(d[i]) : i \in Added(p)}
      BY <1>3, FireChain, FireParts
    <2> HIDE DEF s
    <2>2. /\ d \in Seq(Entry) /\ Len(c) <= Len(d)
          /\ \A i \in 1..Len(c) : d[i] = c[i]
          /\ \A i \in (Len(c) + 1)..Len(d) : Linked(p, d, i)
      BY <2>1 DEF Grown
    <2>3. ASSUME NEW i \in Added(p)
          PROVE  Sound(p, i)'
      <3>1. Linked(p, d, i)
        BY <2>2 DEF Added
      <3>2. Key(d[i]) \in block_store'[p]
        BY <2>1
      <3>3. Linked(p, chain_entries[p], i)'
        BY <3>1, Zenon DEF Linked, PrevHash
      <3> QED
        BY <3>2, <3>3, Zenon DEF Sound, Key
    <2> QED
      BY <2>1, <2>2, <2>3
  <1>4. ASSUME NEW q \in Peers, NEW slot \in Slots, NEW number \in Slots, ExtendStep(q, slot, number)
        PROVE  /\ d \in Seq(Entry) /\ Len(c) <= Len(d)
               /\ \A i \in 1..Len(c) : d[i] = c[i]
               /\ block_store[p] \subseteq block_store'[p]
               /\ \A i \in Added(p) : Sound(p, i)'
    <2>1. /\ block_store[p] \subseteq block_store'[p]
          /\ p # q => d = c
          /\ p = q => d = Append(c, Explicit(slot, number))
      BY <1>4, ExtendStepParts
    <2>2. CASE p # q
      <3>1. d = c
        BY <2>1, <2>2
      <3>2. Added(p) = {}
        BY <1>1, <3>1 DEF Added
      <3> QED
        BY <1>1, <2>1, <3>1, <3>2
    <2>3. CASE p = q
      <3> DEFINE x == Explicit(slot, number)
      <3>1. x \in Entry /\ x.slot = slot /\ x.source = "explicit"
        BY ExplicitIsEntry
      <3>2. d = Append(c, x) /\ slot > chain_tip_slot(c)
        BY <1>4, <2>1, <2>3 DEF ExtendStep
      <3> HIDE DEF x
      <3>3. /\ d \in Seq(Entry) /\ Len(d) = Len(c) + 1 /\ d[Len(c) + 1] = x
            /\ \A i \in 1..Len(c) : d[i] = c[i]
        BY <1>1, <3>1, <3>2, AppendParts
      <3>4. Len(c) > 0 => c[Len(c)].slot < slot /\ d[Len(c)] = c[Len(c)]
        <4>1. SUFFICES ASSUME Len(c) > 0 PROVE c[Len(c)].slot < slot /\ d[Len(c)] = c[Len(c)]
          OBVIOUS
        <4>2. c # <<>> /\ Len(c) \in 1..Len(c)
          BY <1>1, <4>1
        <4>3. chain_tip_slot(c) = c[Len(c)].slot /\ chain_tip_slot(c) \in Int /\ slot \in Int
          BY <1>1, <4>2, TipParts, SlotsAreNatural
        <4> QED
          BY <3>2, <3>3, <4>2, <4>3
      <3>5. ASSUME NEW i \in Added(p)
            PROVE  d[i].source = "explicit" /\ (i > 1 => d[i - 1].slot < d[i].slot)
        <4>1. i = Len(c) + 1
          BY <1>1, <3>3 DEF Added
        <4>2. d[i] = x
          BY <3>3, <4>1
        <4>3. i > 1 => i - 1 = Len(c) /\ Len(c) > 0
          BY <1>1, <4>1
        <4> QED
          BY <3>1, <3>4, <4>2, <4>3
      <3>6. \A i \in Added(p) : Sound(p, i)'
        BY <3>5, Zenon DEF Sound
      <3>7. Len(c) <= Len(d)
        BY <1>1, <3>3
      <3> QED
        BY <2>1, <3>3, <3>6, <3>7
    <2> QED
      BY <2>2, <2>3
  <1>5. CASE UNCHANGED vars
    BY <1>2, <1>5 DEF vars
  <1>6. CASE Next
    <2>1. \/ \E new \in Slots : FireStep(new) \/ StuckStep(new)
          \/ StopStep
          \/ \E q \in Peers, slot \in Slots, number \in Slots : ExtendStep(q, slot, number)
          \/ \E q \in Peers : ViewStep(q) \/ BodiesStep(q)
      BY <1>6, StepCases
    <2>2. ASSUME \/ \E new \in Slots : StuckStep(new)
                 \/ StopStep
                 \/ \E q \in Peers : ViewStep(q) \/ BodiesStep(q)
          PROVE  UNCHANGED <<chain_entries, block_store>>
      BY <2>2, Zenon DEF StuckStep, StopStep, ViewStep, BodiesStep
    <2> QED
      BY <1>2, <1>3, <1>4, <2>1, <2>2, Zenon
  <1> QED
    BY <1>5, <1>6

-----------------------------------------------------------------------------
(* Types.                                                                  *)

\* A fixture's chain is a chain.
LEMMA SeedsAreChains ==
    ASSUME NEW p \in Peers
    PROVE  /\ Seeds[p] \in Seq(Entry)
           /\ \A i \in 1..Len(Seeds[p]) : Seeds[p][i].source = "fixture"
  <1> DEFINE c == Seeds[p]
             H == {c[i].hash : i \in 1..Len(c)}
             R == [slot : Slots, number : Slots, source : {"fixture"}, hash : H]
  <1>1. /\ \A i \in 1..Len(c) : IsHash(c[i].hash)
        /\ c \in Seq(R)
    BY NetworkAssumption, Zenon DEF SeedType
  <1>2. ASSUME NEW i \in 1..Len(c)
        PROVE  c[i].hash \in Hash
    <2> DEFINE h == c[i].hash
    <2>1. h \in Seq(ToSet(h))
      BY <1>1 DEF IsHash
    <2>2. ToSet(h) \subseteq SeedParts
      BY DEF SeedParts
    <2>3. ToSet(h) \subseteq Parts
      BY <2>2, Zenon DEF Parts
    <2> HIDE DEF h
    <2>4. h \in Hash
      BY <2>1, <2>3 DEF Hash
    <2> QED
      BY <2>4 DEF h
  <1>3. H \subseteq Hash
    BY <1>2
  <1> HIDE DEF H
  <1>4. ASSUME NEW e \in R
        PROVE  e \in Entry /\ e.source = "fixture"
    BY <1>3 DEF Entry, Sources
  <1> HIDE DEF R, c
  <1>5. c \in Seq(Entry) /\ \A i \in 1..Len(c) : c[i].source = "fixture"
    BY <1>1, <1>4
  <1> QED
    BY <1>5 DEF c

\* Initially.
LEMMA TypesInit ==
    ASSUME Init
    PROVE  Types
  <1>1. Seeds \in [Peers -> Seq(Entry)]
    <2>1. Seeds = [p \in Peers |-> Seeds[p]]
      BY NetworkAssumption
    <2>2. \A p \in Peers : Seeds[p] \in Seq(Entry)
      BY SeedsAreChains
    <2> QED
      BY <2>1, <2>2
  <1>2. block_store = [p \in Peers |-> block_store[p]]
    BY NetworkAssumption DEF Init
  <1>3. start \in StartSlots /\ current_slot \in {NoClock} \cup Slots
    BY NetworkAssumption DEF Init
  <1>4. fired \in [Peers -> SUBSET EventType]
    BY DEF Init
  <1>5. view \in [Peers -> Seq(Entry)]
    BY DEF Init
  <1>6. bodies = [p \in Peers |-> bodies[p]] /\ \A p \in Peers : bodies[p] \subseteq block_store[p]
    BY DEF Init
  <1>7. steps \in 0..MaxSteps /\ status = "running"
    BY NetworkAssumption DEF Init
  <1> QED
    BY <1>1, <1>2, <1>3, <1>4, <1>5, <1>6, <1>7 DEF Types, Init

\* What the clock shows of a chain is a chain.
LEMMA ShownIsChain ==
    ASSUME Types, NEW p \in Peers
    PROVE  filtered_fixture_chain(p) \in Seq(Entry)
  <1> DEFINE c == chain_entries[p]
             S == {e \in ToSet(c) : current_slot = NoClock \/ e.slot <= current_slot}
  <1>1. c \in Seq(Entry) /\ filtered_fixture_chain(p) = Filter(c, S)
    BY DEF Types, filtered_fixture_chain
  <1> HIDE DEF c, S
  <1> QED
    BY <1>1, FilterKeeps

\* The rest of the types, where the chains keep theirs.
LEMMA TypesOfStep ==
    ASSUME Types, Next
    PROVE  /\ view' \in [Peers -> Seq(Entry)]
           /\ fired' \in [Peers -> SUBSET EventType]
           /\ bodies' = [q \in Peers |-> bodies'[q]]
           /\ \A p \in Peers : bodies'[p] \subseteq block_store'[p]
           /\ chain_entries' = [q \in Peers |-> chain_entries'[q]]
           /\ block_store' = [q \in Peers |-> block_store'[q]]
           /\ start' = start
           /\ current_slot' \in {NoClock} \cup Slots
           /\ status' \in {"running", "step_error", "serve_error", "stuck"}
  <1>1. /\ view \in [Peers -> Seq(Entry)]
        /\ fired \in [Peers -> SUBSET EventType]
        /\ bodies = [q \in Peers |-> bodies[q]]
        /\ \A p \in Peers : bodies[p] \subseteq block_store[p]
        /\ chain_entries = [q \in Peers |-> chain_entries[q]]
        /\ block_store = [q \in Peers |-> block_store[q]]
        /\ current_slot \in {NoClock} \cup Slots
        /\ status \in {"running", "step_error", "serve_error", "stuck"}
    BY DEF Types
  <1>2. \A p \in Peers : block_store[p] \subseteq block_store'[p]
    BY StepGrows
  <1>3. ASSUME NEW new \in Slots, FireStep(new)
        PROVE  /\ fired' \in [Peers -> SUBSET EventType]
               /\ chain_entries' = [q \in Peers |-> chain_entries'[q]]
               /\ block_store' = [q \in Peers |-> block_store'[q]]
               /\ current_slot' \in Slots
               /\ UNCHANGED <<start, view, bodies, status>>
    <2>1. /\ chain_entries' = [q \in Peers |-> chain_entries'[q]]
          /\ block_store' = [q \in Peers |-> block_store'[q]]
          /\ fired' = [q \in Peers |-> fired'[q]]
      BY <1>3 DEF FireStep, apply_production_rules
    <2>2. ASSUME NEW q \in Peers
          PROVE  fired'[q] \subseteq EventType
      <3> DEFINE s == Schedule(q, current_slot, new)
                 Skipped(x) == \A i \in Added(q) : chain_entries'[q][i].slot # x
      <3>1. s \in Seq(Slots) /\ fired'[q] = fired[q] \cup Events(q, s)
        BY <1>3, FireChain, FireParts
      <3>2. Events(q, s) = {<<s[i], Skipped(s[i]), steps, i>> : i \in 1..Len(s)}
        BY DEF Events, Added
      <3>3. \A i \in 1..Len(s) : s[i] \in Slots /\ i \in Nat
        BY <3>1
      <3>4. steps \in Nat /\ \A x : Skipped(x) \in BOOLEAN
        BY NetworkAssumption DEF Types
      <3> HIDE DEF s, Skipped
      <3>5. Events(q, s) \subseteq EventType
        BY <3>2, <3>3, <3>4 DEF EventType
      <3> QED
        BY <1>1, <3>1, <3>5
    <2> QED
      BY <1>3, <2>1, <2>2 DEF FireStep
  <1>4. ASSUME NEW new \in Slots, StuckStep(new)
        PROVE  /\ current_slot' \in Slots /\ status' = "stuck"
               /\ UNCHANGED <<start, view, bodies, chain_entries, block_store, fired>>
    BY <1>4 DEF StuckStep
  <1>5. ASSUME StopStep
        PROVE  /\ status' \in {"step_error", "serve_error"}
               /\ UNCHANGED <<start, view, bodies, chain_entries, block_store, fired, current_slot>>
    BY <1>5 DEF StopStep
  <1>6. ASSUME NEW q \in Peers, NEW slot \in Slots, NEW number \in Slots, ExtendStep(q, slot, number)
        PROVE  /\ chain_entries' = [r \in Peers |-> chain_entries'[r]]
               /\ block_store' = [r \in Peers |-> block_store'[r]]
               /\ UNCHANGED <<start, view, bodies, status, fired, current_slot>>
    <2> DEFINE k == <<slot, <<<<<<"explicit">>, slot>>>>>>
               x == Explicit(slot, number)
    <2>1. /\ chain_entries' = [chain_entries EXCEPT ![q] = Append(@, x)]
          /\ block_store' \in {block_store, [block_store EXCEPT ![q] = @ \cup {k}]}
          /\ UNCHANGED <<start, view, bodies, status, fired, current_slot>>
      BY <1>6, Zenon DEF ExtendStep
    <2> HIDE DEF k, x
    <2> QED
      BY <1>1, <2>1
  <1>7. ASSUME NEW q \in Peers, ViewStep(q)
        PROVE  /\ view' \in [Peers -> Seq(Entry)]
               /\ UNCHANGED <<start, bodies, status, chain_entries, block_store, fired, current_slot>>
    <2>1. filtered_fixture_chain(q) \in Seq(Entry)
      BY ShownIsChain
    <2> QED
      BY <1>1, <1>7, <2>1 DEF ViewStep
  <1>8. ASSUME NEW q \in Peers, BodiesStep(q)
        PROVE  /\ bodies' = [r \in Peers |-> bodies'[r]]
               /\ \A p \in Peers : bodies'[p] \subseteq block_store[p]
               /\ UNCHANGED <<start, view, status, chain_entries, block_store, fired, current_slot>>
    BY <1>1, <1>8 DEF BodiesStep
  <1>9. CASE \E new \in Slots : FireStep(new)
    BY <1>1, <1>2, <1>3, <1>9
  <1>10. CASE \E new \in Slots : StuckStep(new)
    BY <1>1, <1>2, <1>4, <1>10
  <1>11. CASE StopStep
    BY <1>1, <1>2, <1>5, <1>11
  <1>12. CASE \E q \in Peers, slot \in Slots, number \in Slots : ExtendStep(q, slot, number)
    BY <1>1, <1>2, <1>6, <1>12
  <1>13. CASE \E q \in Peers : ViewStep(q)
    BY <1>1, <1>2, <1>7, <1>13
  <1>14. CASE \E q \in Peers : BodiesStep(q)
    BY <1>1, <1>2, <1>8, <1>14
  <1> QED
    BY <1>9, <1>10, <1>11, <1>12, <1>13, <1>14, StepCases

\* Every step keeps the types.
LEMMA TypesStep ==
    ASSUME Types, [Next]_vars
    PROVE  Types'
  <1>1. CASE UNCHANGED vars
    BY <1>1 DEF vars, Types
  <1>2. CASE Next
    <2>1. steps' \in 0..MaxSteps
      BY <1>2, StepCases
    <2>2. \A p \in Peers : chain_entries'[p] \in Seq(Entry)
      BY StepGrows
    <2>3. /\ view' \in [Peers -> Seq(Entry)]
          /\ fired' \in [Peers -> SUBSET EventType]
          /\ bodies' = [q \in Peers |-> bodies'[q]]
          /\ \A p \in Peers : bodies'[p] \subseteq block_store'[p]
          /\ chain_entries' = [q \in Peers |-> chain_entries'[q]]
          /\ block_store' = [q \in Peers |-> block_store'[q]]
          /\ start' = start
          /\ current_slot' \in {NoClock} \cup Slots
          /\ status' \in {"running", "step_error", "serve_error", "stuck"}
      BY <1>2, TypesOfStep
    <2>4. chain_entries' \in [Peers -> Seq(Entry)]
      BY <2>2, <2>3
    <2>5. start \in StartSlots
      BY DEF Types
    <2> QED
      BY <2>1, <2>3, <2>4, <2>5 DEF Types
  <1> QED
    BY <1>1, <1>2

\* The entries of a chain have positions.
LEMMA EntryPositions ==
    ASSUME Types, NEW p \in Peers
    PROVE  /\ chain_entries[p] \in Seq(Entry)
           /\ Len(chain_entries[p]) \in Nat
           /\ \A e : e \in Entries(p) <=>
                 \E i \in 1..Len(chain_entries[p]) : e = chain_entries[p][i]
           /\ Entries(p) \subseteq Entry
  <1>1. chain_entries[p] \in Seq(Entry)
    BY DEF Types
  <1>2. Entries(p) = {chain_entries[p][i] : i \in 1..Len(chain_entries[p])}
    BY <1>1, SeqParts DEF Entries
  <1> QED
    BY <1>1, <1>2, SeqParts

\* Types is stronger than TypeOK.
LEMMA TypesGiveTypeOK ==
    ASSUME Types
    PROVE  TypeOK
  <1>1. ASSUME NEW p \in Peers
        PROVE  /\ \A e \in Entries(p) :
                    /\ e.slot \in Slots /\ e.number \in Slots
                    /\ e.source \in {"fixture", "explicit", "production_rule"}
               /\ \A f \in fired[p] : f[1] \in Slots /\ f[2] \in BOOLEAN
               /\ bodies[p] \subseteq block_store[p]
    <2>1. Entries(p) \subseteq Entry
      BY EntryPositions
    <2>2. fired[p] \subseteq EventType
      BY DEF Types
    <2>3. \A e \in Entry : /\ e.slot \in Slots /\ e.number \in Slots
                           /\ e.source \in {"fixture", "explicit", "production_rule"}
      BY EntryParts DEF Sources
    <2>4. \A f \in EventType : f[1] \in Slots /\ f[2] \in BOOLEAN
      BY DEF EventType
    <2>5. bodies[p] \subseteq block_store[p]
      BY DEF Types
    <2> QED
      BY <2>1, <2>2, <2>3, <2>4, <2>5
  <1> QED
    BY <1>1, Zenon DEF TypeOK, Types

(***************************************************************************)
(* Every reachable state is well typed: the clock and the slots of every   *)
(* chain fit a u64 however the ticks wrap, so do the block numbers, and    *)
(* serve_block_fetch never offers a block the store does not hold.         *)
(***************************************************************************)
THEOREM NetworkTypes == Spec => []TypeOK
  <1>1. Init => Types
    BY TypesInit
  <1>2. Types /\ [Next]_vars => Types'
    BY TypesStep
  <1>3. Types => TypeOK
    BY TypesGiveTypeOK
  <1> QED
    BY <1>1, <1>2, <1>3, PTL DEF Spec

-----------------------------------------------------------------------------
(* Order and links.                                                        *)

\* Every chain increases, and each produced block is linked and stored.
Links ==
    \A p \in Peers : \A i \in 1..Len(chain_entries[p]) :
        /\ i > 1 => chain_entries[p][i - 1].slot < chain_entries[p][i].slot
        /\ chain_entries[p][i].source = "production_rule" =>
              Linked(p, chain_entries[p], i) /\ Key(chain_entries[p][i]) \in block_store[p]

\* A fixture increases and holds no produced block.
LEMMA LinksInit ==
    ASSUME Init
    PROVE  Links
  <1> SUFFICES ASSUME NEW p \in Peers, NEW i \in 1..Len(Seeds[p])
               PROVE  /\ i > 1 => Seeds[p][i - 1].slot < Seeds[p][i].slot
                      /\ Seeds[p][i].source # "production_rule"
    BY Zenon DEF Links, Init
  <1>1. Increasing(Seeds[p])
    BY NetworkAssumption
  <1>2. Seeds[p][i].source = "fixture" /\ Len(Seeds[p]) \in Nat
    BY SeedsAreChains
  <1>3. i > 1 => i \in 2..Len(Seeds[p])
    BY <1>2
  <1> QED
    BY <1>1, <1>2, <1>3 DEF Increasing

\* Blocks that are sound keep the links.
LEMMA LinksStep ==
    ASSUME Types, Links, [Next]_vars
    PROVE  Links'
  <1> SUFFICES ASSUME NEW p \in Peers, NEW i \in 1..Len(chain_entries'[p])
               PROVE  /\ i > 1 => chain_entries'[p][i - 1].slot < chain_entries'[p][i].slot
                      /\ chain_entries'[p][i].source = "production_rule" =>
                            /\ Linked(p, chain_entries'[p], i)
                            /\ Key(chain_entries'[p][i]) \in block_store'[p]
    BY Zenon DEF Links, Linked, PrevHash, Key
  <1> DEFINE c == chain_entries[p]
             d == chain_entries'[p]
  <1>1. /\ d \in Seq(Entry) /\ Len(c) <= Len(d)
        /\ \A k \in 1..Len(c) : d[k] = c[k]
        /\ block_store[p] \subseteq block_store'[p]
        /\ \A k \in Added(p) : Sound(p, k)'
    BY StepGrows
  <1>2. c \in Seq(Entry) /\ Len(c) \in Nat /\ Len(d) \in Nat
    BY <1>1 DEF Types
  <1>3. CASE i \in 1..Len(c)
    <2>1. /\ i > 1 => c[i - 1].slot < c[i].slot
          /\ c[i].source = "production_rule" => Linked(p, c, i) /\ Key(c[i]) \in block_store[p]
      BY <1>3 DEF Links
    <2>2. d[i] = c[i] /\ (i > 1 => d[i - 1] = c[i - 1])
      BY <1>1, <1>2, <1>3
    <2>3. Linked(p, c, i) => Linked(p, d, i)
      BY <1>1, <1>2, <1>3, LinkedStays
    <2> QED
      BY <1>1, <2>1, <2>2, <2>3
  <1>4. CASE i \notin 1..Len(c)
    <2>1. i \in Added(p)
      BY <1>2, <1>4 DEF Added
    <2>2. Sound(p, i)'
      BY <1>1, <2>1
    <2>3. \/ Linked(p, d, i) /\ Key(d[i]) \in block_store'[p]
          \/ d[i].source = "explicit" /\ (i > 1 => d[i - 1].slot < d[i].slot)
      BY <2>2, Zenon DEF Sound, Linked, PrevHash, Key
    <2>4. Linked(p, d, i) => (i > 1 => d[i - 1].slot < d[i].slot)
      BY Zenon DEF Linked
    <2> QED
      BY <2>3, <2>4
  <1> QED
    BY <1>3, <1>4

\* Links says that chains increase.
LEMMA LinksGiveIncrease ==
    ASSUME Types, Links
    PROVE  ChainsIncrease
  <1> SUFFICES ASSUME NEW p \in Peers, NEW i \in 2..Len(chain_entries[p])
               PROVE  chain_entries[p][i - 1].slot < chain_entries[p][i].slot
    BY DEF ChainsIncrease, Increasing
  <1>1. Len(chain_entries[p]) \in Nat
    BY EntryPositions
  <1>2. i \in 1..Len(chain_entries[p]) /\ i > 1
    BY <1>1
  <1> QED
    BY <1>2 DEF Links

\* A linked block has the block before it at the front of its hash.
LEMMA LinkedFront ==
    ASSUME NEW p \in Peers, NEW c \in Seq(Entry), NEW i \in 1..Len(c), Linked(p, c, i)
    PROVE  /\ PrevHash(p, c, i) \in Hash
           /\ Front(c[i].hash) = PrevHash(p, c, i)
           /\ Last(c[i].hash) = <<HashLabel(p, c[i].slot), c[i].slot>>
  <1>1. i > 1 => c[i - 1].hash \in Hash
    <2>1. i > 1 => c[i - 1] \in Entry
      OBVIOUS
    <2> QED
      BY <2>1, EntryParts
  <1>2. <<>> \in Hash
    BY DEF Hash
  <1>3. Rules[p].kind = "broken_prev_hash" => Rules[p].wrong \in Hash
    BY WrongIsHash
  <1>4. PrevHash(p, c, i) \in Hash
    BY <1>1, <1>2, <1>3 DEF PrevHash
  <1>5. c[i].slot \in Slots
    BY EntryParts
  <1>6. <<HashLabel(p, c[i].slot), c[i].slot>> \in Parts
    BY <1>5, LabelIsPart
  <1>7. c[i].hash = Append(PrevHash(p, c, i), <<HashLabel(p, c[i].slot), c[i].slot>>)
    BY Zenon DEF Linked
  <1> DEFINE h == PrevHash(p, c, i)
             x == <<HashLabel(p, c[i].slot), c[i].slot>>
  <1> HIDE DEF h, x
  <1>8. h \in Seq(Parts) /\ x \in Parts /\ c[i].hash = Append(h, x)
    BY <1>4, <1>6, <1>7 DEF h, x, Hash
  <1>9. Front(c[i].hash) = h /\ Last(c[i].hash) = x
    BY <1>8, AppendParts
  <1> QED
    BY <1>4, <1>9 DEF h, x

\* Links says what ProducedBlocksLink does.
LEMMA LinksGiveProducedBlocksLink ==
    ASSUME Types, Links
    PROVE  ProducedBlocksLink
  <1> SUFFICES ASSUME NEW p \in Peers, NEW i \in 1..Len(chain_entries[p]),
                      chain_entries[p][i].source = "production_rule"
               PROVE  /\ Key(chain_entries[p][i]) \in block_store[p]
                      /\ i > 1 => chain_entries[p][i].number = (chain_entries[p][i - 1].number + 1) % U64
                      /\ Front(chain_entries[p][i].hash) = PrevHash(p, chain_entries[p], i)
    BY Zenon DEF ProducedBlocksLink, PrevHash
  <1>1. Linked(p, chain_entries[p], i) /\ Key(chain_entries[p][i]) \in block_store[p]
    BY DEF Links
  <1>2. Front(chain_entries[p][i].hash) = PrevHash(p, chain_entries[p], i)
    BY <1>1, EntryPositions, LinkedFront
  <1>3. i > 1 => chain_entries[p][i].number = (chain_entries[p][i - 1].number + 1) % U64
    BY <1>1 DEF Linked
  <1> QED
    BY <1>1, <1>2, <1>3

\* The two as one invariant of the specification.
LEMMA LinksAlways == Spec => [](Types /\ Links)
  <1>1. Init => Types /\ Links
    BY TypesInit, LinksInit
  <1>2. (Types /\ Links) /\ [Next]_vars => (Types /\ Links)'
    <2> SUFFICES ASSUME Types, Links, [Next]_vars PROVE Types' /\ Links'
      OBVIOUS
    <2> QED
      BY TypesStep, LinksStep
  <1> QED
    BY <1>1, <1>2, PTL DEF Spec

(***************************************************************************)
(* A chain is in chronological order with at most one block in a slot,     *)
(* for every rule, every fixture and every mix of advance_to_slot,         *)
(* tick_slots (wrapping or not) and peer_extends_chain.                    *)
(***************************************************************************)
THEOREM ChainsAlwaysIncrease == Spec => []ChainsIncrease
  <1>1. Types /\ Links => ChainsIncrease
    BY LinksGiveIncrease
  <1> QED
    BY <1>1, LinksAlways, PTL

(***************************************************************************)
(* A block that apply_production_rules has put on a chain can be fetched,  *)
(* its number follows the block before it, and its hash commits to that    *)
(* block, or to wrong_hash once a broken_prev_hash rule severs the link.   *)
(***************************************************************************)
THEOREM ProducedBlocksAlwaysLink == Spec => []ProducedBlocksLink
  <1>1. Types /\ Links => ProducedBlocksLink
    BY LinksGiveProducedBlocksLink
  <1> QED
    BY <1>1, LinksAlways, PTL

-----------------------------------------------------------------------------
(* Forks.                                                                  *)

\* Two peers left to rules with the same timing keep twin chains.
Forks ==
    \A p, q \in Peers :
        SameTiming(Rules[p], Rules[q]) /\ Undisturbed(p) /\ Undisturbed(q) =>
            Twins(Rules[p].fork, chain_entries[p], chain_entries[q])

\* What Undisturbed says of the positions.
LEMMA UndisturbedPositions ==
    ASSUME Types, NEW p \in Peers
    PROVE  Undisturbed(p) <=> \A i \in 1..Len(chain_entries[p]) :
                                 chain_entries[p][i].source = "production_rule"
  BY EntryPositions DEF Undisturbed

\* A peer with a fixture is disturbed, and empty chains are twins.
LEMMA ForksInit ==
    ASSUME Init
    PROVE  Forks
  <1> SUFFICES ASSUME NEW p \in Peers, NEW q \in Peers, Undisturbed(p), Undisturbed(q)
               PROVE  Twins(Rules[p].fork, chain_entries[p], chain_entries[q])
    BY Zenon DEF Forks
  <1>1. Types
    BY TypesInit
  <1>2. ASSUME NEW r \in Peers, Undisturbed(r)
        PROVE  Len(chain_entries[r]) = 0
    <2>1. Len(chain_entries[r]) \in Nat
      BY <1>1, EntryPositions
    <2>2. \A i \in 1..Len(chain_entries[r]) : chain_entries[r][i].source = "fixture"
      BY SeedsAreChains DEF Init
    <2>3. \A i \in 1..Len(chain_entries[r]) : chain_entries[r][i].source = "production_rule"
      BY <1>1, <1>2, UndisturbedPositions
    <2>4. Len(chain_entries[r]) > 0 => 1 \in 1..Len(chain_entries[r])
      BY <2>1
    <2> QED
      BY <2>1, <2>2, <2>3, <2>4
  <1>3. Len(chain_entries[p]) = 0 /\ Len(chain_entries[q]) = 0
    BY <1>2
  <1> QED
    BY <1>3 DEF Twins

\* A peer that is undisturbed after a step was undisturbed before it.
LEMMA UndisturbedBefore ==
    ASSUME Types, [Next]_vars, NEW p \in Peers, Undisturbed(p)'
    PROVE  Undisturbed(p)
  <1>1. Types'
    BY TypesStep
  <1>2. /\ chain_entries'[p] \in Seq(Entry)
        /\ Len(chain_entries[p]) <= Len(chain_entries'[p])
        /\ \A i \in 1..Len(chain_entries[p]) : chain_entries'[p][i] = chain_entries[p][i]
    BY StepGrows
  <1>3. \A i \in 1..Len(chain_entries'[p]) : chain_entries'[p][i].source = "production_rule"
    <2>1. \A e \in ToSet(chain_entries'[p]) : e.source = "production_rule"
      BY Zenon DEF Undisturbed, Entries
    <2>2. \A i \in 1..Len(chain_entries'[p]) : chain_entries'[p][i] \in ToSet(chain_entries'[p])
      BY <1>2, SeqParts
    <2> QED
      BY <2>1, <2>2
  <1>4. Len(chain_entries[p]) \in Nat /\ Len(chain_entries'[p]) \in Nat
    BY <1>2 DEF Types
  <1>5. \A i \in 1..Len(chain_entries[p]) : i \in 1..Len(chain_entries'[p])
    BY <1>2, <1>4
  <1> QED
    BY <1>2, <1>3, <1>5, UndisturbedPositions

\* Rules with the same timing have the same schedule.
LEMMA SameSchedule ==
    ASSUME NEW p \in Peers, NEW q \in Peers, SameTiming(Rules[p], Rules[q]), NEW old, NEW new
    PROVE  Schedule(p, old, new) = Schedule(q, old, new)
  <1>1. /\ Rules[p].kind = "forked_from_slot" /\ Rules[q].kind = "forked_from_slot"
        /\ Rules[p].first = Rules[q].first /\ Rules[p].interval = Rules[q].interval
    BY DEF SameTiming
  <1> QED
    BY <1>1 DEF Schedule, slots_in_range

\* Every step keeps the twins.
LEMMA ForksStep ==
    ASSUME Types, Forks, [Next]_vars
    PROVE  Forks'
  <1> SUFFICES ASSUME NEW p \in Peers, NEW q \in Peers, SameTiming(Rules[p], Rules[q]),
                      Undisturbed(p)', Undisturbed(q)'
               PROVE  Twins(Rules[p].fork, chain_entries'[p], chain_entries'[q])
    BY Zenon DEF Forks, Twins
  <1>1. Undisturbed(p) /\ Undisturbed(q)
    BY UndisturbedBefore
  <1>2. Twins(Rules[p].fork, chain_entries[p], chain_entries[q])
    BY <1>1 DEF Forks
  <1>3. chain_entries[p] \in Seq(Entry) /\ chain_entries[q] \in Seq(Entry)
    BY DEF Types
  <1>4. CASE UNCHANGED chain_entries
    BY <1>2, <1>4
  <1>5. ASSUME NEW new \in Slots, FireStep(new)
        PROVE  Twins(Rules[p].fork, chain_entries'[p], chain_entries'[q])
    <2> DEFINE s == Schedule(p, current_slot, new)
    <2>1. s = Schedule(q, current_slot, new)
      BY SameSchedule
    <2> HIDE DEF s
    <2>4. s = Schedule(p, current_slot, new)
      BY DEF s
    <2>2. s \in Seq(Slots) /\ chain_entries'[p] = Production(p, chain_entries[p], s)[Len(s)]
      BY <1>5, <2>4, FireChain
    <2>3. chain_entries'[q] = Production(q, chain_entries[q], s)[Len(s)]
      BY <1>5, <2>1, FireChain
    <2> QED
      BY <1>2, <1>3, <2>2, <2>3, ProductionTwins
  <1>6. ASSUME NEW r \in Peers, NEW slot \in Slots, NEW number \in Slots, ExtendStep(r, slot, number)
        PROVE  Twins(Rules[p].fork, chain_entries'[p], chain_entries'[q])
    <2>1. ASSUME NEW t \in Peers, t = r
          PROVE  ~ Undisturbed(t)'
      <3> DEFINE x == Explicit(slot, number)
                 c == chain_entries[t]
      <3>1. chain_entries'[t] = Append(c, x)
        BY <1>6, <2>1, ExtendStepParts
      <3>2. x \in Entry /\ x.source = "explicit" /\ c \in Seq(Entry)
        BY ExplicitIsEntry DEF Types
      <3> HIDE DEF x
      <3>3. /\ Append(c, x) \in Seq(Entry) /\ Append(c, x)[Len(c) + 1] = x
            /\ Len(Append(c, x)) = Len(c) + 1 /\ Len(c) + 1 \in 1..(Len(c) + 1)
        BY <3>2, AppendParts
      <3>4. x \in ToSet(chain_entries'[t])
        <4> DEFINE a == Append(c, x)
                   n == Len(c) + 1
        <4>1. a \in Seq(Entry) /\ a[n] = x /\ Len(a) = n /\ n \in 1..n
          BY <3>3
        <4> HIDE DEF a, n
        <4>2. x \in ToSet(a)
          BY <4>1, SeqParts
        <4> QED
          BY <3>1, <4>2 DEF a
      <3> QED
        BY <3>2, <3>4 DEF Undisturbed, Entries
    <2>2. p # r /\ q # r
      BY <2>1
    <2>3. chain_entries'[p] = chain_entries[p] /\ chain_entries'[q] = chain_entries[q]
      BY <1>6, <2>2, ExtendStepParts
    <2> QED
      BY <1>2, <2>3
  <1>7. CASE UNCHANGED vars
    BY <1>4, <1>7 DEF vars
  <1>8. CASE Next
    <2>1. \/ \E new \in Slots : FireStep(new) \/ StuckStep(new)
          \/ StopStep
          \/ \E r \in Peers, slot \in Slots, number \in Slots : ExtendStep(r, slot, number)
          \/ \E r \in Peers : ViewStep(r) \/ BodiesStep(r)
      BY <1>8, StepCases
    <2>2. ASSUME \/ \E new \in Slots : StuckStep(new)
                 \/ StopStep
                 \/ \E r \in Peers : ViewStep(r) \/ BodiesStep(r)
          PROVE  UNCHANGED chain_entries
      BY <2>2, Zenon DEF StuckStep, StopStep, ViewStep, BodiesStep
    <2> QED
      BY <1>4, <1>5, <1>6, <2>1, <2>2, Zenon
  <1> QED
    BY <1>7, <1>8

\* From the fork on two rules hash different labels.
LEMMA ForkedLabels ==
    ASSUME NEW p \in Peers, NEW q \in Peers, SameTiming(Rules[p], Rules[q]), NEW s \in Slots,
           HashLabel(p, s) = HashLabel(q, s)
    PROVE  s < Rules[p].fork
  <1>1. /\ Rules[p].kind = "forked_from_slot" /\ Rules[q].kind = "forked_from_slot"
        /\ Rules[p].fork = Rules[q].fork /\ Rules[p].marker # Rules[q].marker
    BY DEF SameTiming
  <1>2. SUFFICES ASSUME ~(s < Rules[p].fork) PROVE FALSE
    OBVIOUS
  <1>3. HashLabel(p, s) = <<"marker", Rules[p].marker>> /\ HashLabel(q, s) = <<"marker", Rules[q].marker>>
    BY <1>1, <1>2 DEF HashLabel
  <1> DEFINE a == Rules[p].marker
             b == Rules[q].marker
  <1>4. <<"marker", a>> = <<"marker", b>> /\ a # b
    BY <1>1, <1>3
  <1> HIDE DEF a, b
  <1> QED
    BY <1>4

\* Twin chains of linked blocks agree before the fork and share nothing after.
LEMMA ForksGiveAgreement ==
    ASSUME Types, Links, Forks
    PROVE  ForksAgreeThenDiverge
  <1> SUFFICES ASSUME NEW p \in Peers, NEW q \in Peers, SameTiming(Rules[p], Rules[q]),
                      Undisturbed(p), Undisturbed(q)
               PROVE  LET Shared(chain) == {i \in 1..Len(chain) : chain[i].slot < Rules[p].fork} IN
                      /\ Shared(chain_entries[p]) = Shared(chain_entries[q])
                      /\ \A i \in Shared(chain_entries[p]) :
                            chain_entries[p][i] = chain_entries[q][i]
                      /\ \A e \in Entries(p), f \in Entries(q) :
                            e.hash = f.hash => e.slot < Rules[p].fork
    BY Zenon DEF ForksAgreeThenDiverge
  <1> DEFINE c == chain_entries[p]
             d == chain_entries[q]
             fork == Rules[p].fork
  <1>1. /\ Len(c) = Len(d)
        /\ \A i \in 1..Len(c) : c[i].slot = d[i].slot /\ (c[i].slot < fork => c[i] = d[i])
    BY DEF Forks, Twins
  <1>2. {i \in 1..Len(c) : c[i].slot < fork} = {i \in 1..Len(d) : d[i].slot < fork}
    BY <1>1
  <1>3. ASSUME NEW e \in Entries(p), NEW f \in Entries(q), e.hash = f.hash
        PROVE  e.slot < fork
    <2>1. PICK i \in 1..Len(c) : e = c[i]
      BY EntryPositions
    <2>2. PICK j \in 1..Len(d) : f = d[j]
      BY EntryPositions
    <2>3. e.source = "production_rule" /\ f.source = "production_rule"
      BY DEF Undisturbed
    <2>4. Linked(p, c, i) /\ Linked(q, d, j)
      BY <2>1, <2>2, <2>3 DEF Links
    <2>5. c \in Seq(Entry) /\ d \in Seq(Entry)
      BY DEF Types
    <2>6. Last(e.hash) = <<HashLabel(p, e.slot), e.slot>>
      BY <2>1, <2>4, <2>5, LinkedFront
    <2>7. Last(f.hash) = <<HashLabel(q, f.slot), f.slot>>
      BY <2>2, <2>4, <2>5, LinkedFront
    <2>8. HashLabel(p, e.slot) = HashLabel(q, f.slot) /\ e.slot = f.slot
      BY <1>3, <2>6, <2>7
    <2>9. e.slot \in Slots
      BY <2>1, <2>5, EntryParts
    <2> QED
      BY <2>8, <2>9, ForkedLabels
  <1> QED
    BY <1>1, <1>2, <1>3

(***************************************************************************)
(* Two forked_from_slot peers with the same timing and different markers,  *)
(* left to their rules, have the same blocks before fork_slot and no block *)
(* in common from there on, whatever the rest of the network does and      *)
(* however the clock is moved.                                             *)
(***************************************************************************)
THEOREM ForksAlwaysAgreeThenDiverge == Spec => []ForksAgreeThenDiverge
  <1>1. Init => Types /\ Links /\ Forks
    BY TypesInit, LinksInit, ForksInit
  <1>2. (Types /\ Links /\ Forks) /\ [Next]_vars => (Types /\ Links /\ Forks)'
    <2> SUFFICES ASSUME Types, Links, Forks, [Next]_vars PROVE Types' /\ Links' /\ Forks'
      OBVIOUS
    <2> QED
      BY TypesStep, LinksStep, ForksStep
  <1>3. Types /\ Links /\ Forks => ForksAgreeThenDiverge
    BY ForksGiveAgreement
  <1> QED
    BY <1>1, <1>2, <1>3, PTL DEF Spec

-----------------------------------------------------------------------------
(* What a peer shows.                                                      *)

\* tick_slots does not take the clock past 2^64.
ClockForward == current_slot' >= current_slot
ClockNeverWraps == [][ClockForward]_vars

\* A view is the beginning of a chain and holds nothing from the future.
Shown ==
    \A p \in Peers :
        /\ Len(view[p]) <= Len(chain_entries[p])
        /\ \A i \in 1..Len(view[p]) :
              /\ view[p][i] = chain_entries[p][i]
              /\ current_slot # NoClock => view[p][i].slot <= current_slot

\* filtered_fixture_chain takes the entries up to the clock: a prefix, because
\* the chain increases.
LEMMA FilteredIsPrefix ==
    ASSUME Types, Links, NEW p \in Peers, NEW f, f = filtered_fixture_chain(p)
    PROVE  /\ f \in Seq(Entry) /\ Len(f) \in Nat
           /\ Len(f) <= Len(chain_entries[p])
           /\ \A i \in 1..Len(f) : f[i] = chain_entries[p][i]
           /\ \A i \in 1..Len(chain_entries[p]) :
                 i <= Len(f) <=>
                    current_slot = NoClock \/ chain_entries[p][i].slot <= current_slot
  <1> DEFINE c == chain_entries[p]
             S == {e \in ToSet(c) : current_slot = NoClock \/ e.slot <= current_slot}
  <1>1. c \in Seq(Entry) /\ f = Filter(c, S)
    BY DEF Types, filtered_fixture_chain
  <1>2. f \in Seq(Entry)
    BY ShownIsChain
  <1>3. \A i \in 1..Len(c) : c[i] \in ToSet(c) /\ c[i].slot \in Int
    BY <1>1, SeqParts, EntryParts
  <1>4. current_slot \in Int /\ Len(c) \in Nat
    BY <1>1, SlotsAreNatural DEF Types, NoClock
  <1>5. \A i \in 1..Len(c) : c[i] \in S <=> current_slot = NoClock \/ c[i].slot <= current_slot
    BY <1>3
  <1>6. \A i \in 2..Len(c) : c[i] \in S => c[i - 1] \in S
    <2> SUFFICES ASSUME NEW i \in 2..Len(c), c[i] \in S PROVE c[i - 1] \in S
      OBVIOUS
    <2>1. i \in 1..Len(c) /\ i - 1 \in 1..Len(c) /\ i > 1
      BY <1>4
    <2>2. c[i - 1].slot < c[i].slot
      BY <2>1 DEF Links
    <2>3. current_slot = NoClock \/ c[i].slot <= current_slot
      BY <1>5, <2>1
    <2>4. current_slot = NoClock \/ c[i - 1].slot <= current_slot
      BY <1>3, <1>4, <2>1, <2>2, <2>3
    <2> QED
      BY <1>5, <2>1, <2>4
  <1> HIDE DEF S
  <1>7. /\ Len(f) <= Len(c)
        /\ \A i \in 1..Len(f) : f[i] = c[i]
        /\ \A i \in 1..Len(c) : i <= Len(f) <=> c[i] \in S
    BY <1>1, <1>6, FilterPrefix
  <1>8. Len(f) \in Nat
    BY <1>2
  <1> QED
    BY <1>2, <1>5, <1>7, <1>8

\* Without a clock no step starts one, and with one it stays a slot.
LEMMA ClockStays ==
    ASSUME Types, Next
    PROVE  /\ current_slot = NoClock => current_slot' = NoClock
           /\ current_slot # NoClock => current_slot \in Slots /\ current_slot' \in Slots
  <1>1. NoClock \notin Slots
    BY SlotsAreNatural DEF NoClock
  <1>2. current_slot \in {NoClock} \cup Slots
    BY DEF Types
  <1>3. ASSUME NEW new \in Slots, FireStep(new) \/ StuckStep(new)
        PROVE  current_slot \in Slots /\ current_slot' \in Slots
    BY <1>3 DEF FireStep, StuckStep
  <1>4. ASSUME \/ StopStep
               \/ \E p \in Peers, slot \in Slots, number \in Slots : ExtendStep(p, slot, number)
               \/ \E p \in Peers : ViewStep(p) \/ BodiesStep(p)
        PROVE  current_slot' = current_slot
    BY <1>4, Zenon DEF StopStep, ExtendStep, ViewStep, BodiesStep
  <1>5. CASE \E new \in Slots : FireStep(new) \/ StuckStep(new)
    BY <1>1, <1>3, <1>5
  <1>6. CASE ~ \E new \in Slots : FireStep(new) \/ StuckStep(new)
    <2>1. current_slot' = current_slot
      BY <1>4, <1>6, StepCases, Zenon
    <2> QED
      BY <1>2, <2>1
  <1> QED
    BY <1>5, <1>6

\* What a step may do to a view.
LEMMA ViewCases ==
    ASSUME Types, Next, NEW p \in Peers
    PROVE  \/ view'[p] = view[p]
           \/ /\ view'[p] = filtered_fixture_chain(p)
              /\ UNCHANGED <<current_slot, chain_entries>>
  <1>1. ASSUME \/ \E new \in Slots : FireStep(new) \/ StuckStep(new)
               \/ StopStep
               \/ \E q \in Peers, slot \in Slots, number \in Slots : ExtendStep(q, slot, number)
               \/ \E q \in Peers : BodiesStep(q)
        PROVE  view' = view
    BY <1>1, Zenon DEF FireStep, StuckStep, StopStep, ExtendStep, BodiesStep
  <1>2. ASSUME NEW q \in Peers, ViewStep(q)
        PROVE  \/ view'[p] = view[p]
               \/ /\ view'[p] = filtered_fixture_chain(p)
                  /\ UNCHANGED <<current_slot, chain_entries>>
    <2>1. /\ view' = [view EXCEPT ![q] = filtered_fixture_chain(q)]
          /\ UNCHANGED <<current_slot, chain_entries>>
      BY <1>2 DEF ViewStep
    <2>2. view \in [Peers -> Seq(Entry)]
      BY DEF Types
    <2> QED
      BY <2>1, <2>2
  <1> QED
    BY <1>1, <1>2, StepCases, Zenon

\* Initially nothing is shown.
LEMMA ShownInit ==
    ASSUME Init
    PROVE  Shown
  <1> SUFFICES ASSUME NEW p \in Peers
               PROVE  Len(view[p]) = 0 /\ Len(chain_entries[p]) \in Nat
    BY DEF Shown
  <1>1. view[p] = <<>>
    BY DEF Init
  <1>2. chain_entries[p] \in Seq(Entry)
    BY TypesInit DEF Types
  <1> QED
    BY <1>1, <1>2

\* A step that does not turn the clock back keeps it so.
LEMMA ShownStep ==
    ASSUME Types, Links, Shown, [Next]_vars, [ClockForward]_vars
    PROVE  Shown'
  <1>1. CASE UNCHANGED vars
    BY <1>1 DEF vars, Shown
  <1>2. CASE Next /\ ~UNCHANGED vars
    <2> SUFFICES ASSUME NEW p \in Peers
                 PROVE  /\ Len(view'[p]) <= Len(chain_entries'[p])
                        /\ \A i \in 1..Len(view'[p]) :
                              /\ view'[p][i] = chain_entries'[p][i]
                              /\ current_slot' # NoClock => view'[p][i].slot <= current_slot'
      BY DEF Shown
    <2> DEFINE c == chain_entries[p]
               d == chain_entries'[p]
    <2>1. current_slot' >= current_slot
      BY <1>2 DEF ClockForward
    <2>2. c \in Seq(Entry) /\ Len(c) \in Nat /\ view[p] \in Seq(Entry) /\ Len(view[p]) \in Nat
      BY DEF Types
    <2>3. /\ d \in Seq(Entry) /\ Len(c) <= Len(d) /\ Len(d) \in Nat
          /\ \A i \in 1..Len(c) : d[i] = c[i]
      BY StepGrows
    <2>4. CASE view'[p] = view[p]
      <3>1. /\ Len(view[p]) <= Len(c)
            /\ \A i \in 1..Len(view[p]) :
                  view[p][i] = c[i] /\ (current_slot # NoClock => view[p][i].slot <= current_slot)
        BY DEF Shown
      <3>2. Len(view[p]) <= Len(d) /\ \A i \in 1..Len(view[p]) : i \in 1..Len(c)
        BY <2>2, <2>3, <3>1
      <3>3. \A i \in 1..Len(view[p]) : view[p][i] = d[i]
        BY <2>3, <3>1, <3>2
      <3>4. ASSUME NEW i \in 1..Len(view[p]), current_slot' # NoClock
            PROVE  view[p][i].slot <= current_slot'
        <4>1. current_slot # NoClock /\ current_slot \in Slots /\ current_slot' \in Slots
          BY <1>2, <3>4, ClockStays
        <4>2. view[p][i].slot <= current_slot
          BY <3>1, <4>1
        <4>3. view[p][i].slot \in Int /\ current_slot \in Int /\ current_slot' \in Int
          BY <2>2, <4>1, EntryParts, SlotsAreNatural
        <4> QED
          BY <2>1, <4>2, <4>3
      <3> QED
        BY <2>4, <3>2, <3>3, <3>4
    <2>5. CASE /\ view'[p] = filtered_fixture_chain(p)
               /\ UNCHANGED <<current_slot, chain_entries>>
      <3> DEFINE f == view'[p]
      <3>1. /\ f \in Seq(Entry) /\ Len(f) \in Nat
            /\ Len(f) <= Len(c)
            /\ \A i \in 1..Len(f) : f[i] = c[i]
            /\ \A i \in 1..Len(c) :
                  i <= Len(f) <=> current_slot = NoClock \/ c[i].slot <= current_slot
        BY <2>5, FilteredIsPrefix
      <3>2. d = c /\ current_slot' = current_slot
        BY <2>5
      <3>3. \A i \in 1..Len(f) : i \in 1..Len(c) /\ i <= Len(f)
        BY <2>2, <3>1
      <3> HIDE DEF f, c, d
      <3>4. Len(f) <= Len(d) /\ \A i \in 1..Len(f) :
                f[i] = d[i] /\ (current_slot' # NoClock => f[i].slot <= current_slot')
        BY <3>1, <3>2, <3>3
      <3> QED
        BY <3>4 DEF f, d
    <2> QED
      BY <1>2, <2>4, <2>5, ViewCases
  <1> QED
    BY <1>1, <1>2

\* A later view is at least as long as an earlier one.
LEMMA ShownNeverRetracts ==
    ASSUME Types, Links, Shown, [Next]_vars, NEW p \in Peers
    PROVE  IsPrefix(view[p], view'[p])
  <1> DEFINE v == view[p]
             w == view'[p]
             c == chain_entries[p]
  <1>1. v \in Seq(Entry) /\ Len(v) \in Nat /\ c \in Seq(Entry) /\ Len(c) \in Nat
    BY DEF Types
  <1>2. /\ Len(v) <= Len(c)
        /\ \A i \in 1..Len(v) : v[i] = c[i] /\ (current_slot # NoClock => v[i].slot <= current_slot)
    BY DEF Shown
  <1>3. CASE w = v
    BY <1>1, <1>3, PrefixByPosition
  <1>4. CASE w = filtered_fixture_chain(p)
    <2>1. /\ w \in Seq(Entry) /\ Len(w) \in Nat
          /\ Len(w) <= Len(c)
          /\ \A i \in 1..Len(w) : w[i] = c[i]
          /\ \A i \in 1..Len(c) :
                i <= Len(w) <=> current_slot = NoClock \/ c[i].slot <= current_slot
      BY <1>4, FilteredIsPrefix
    <2> HIDE DEF v, w, c
    <2>2. Len(v) <= Len(w)
      <3>1. CASE Len(v) = 0
        BY <2>1, <3>1
      <3>2. CASE Len(v) # 0
        <4>1. Len(v) \in 1..Len(v) /\ Len(v) \in 1..Len(c)
          BY <1>1, <1>2, <3>2
        <4>2. current_slot = NoClock \/ c[Len(v)].slot <= current_slot
          BY <1>2, <4>1
        <4> QED
          BY <2>1, <4>1, <4>2
      <3> QED
        BY <3>1, <3>2
    <2>3. \A i \in 1..Len(v) : i \in 1..Len(w)
      BY <1>1, <2>1, <2>2
    <2>4. \A i \in 1..Len(v) : v[i] = w[i]
      BY <1>2, <2>1, <2>3
    <2>5. IsPrefix(v, w)
      BY <1>1, <2>1, <2>2, <2>4, PrefixByPosition
    <2> QED
      BY <2>5 DEF v, w
  <1>5. CASE UNCHANGED vars
    BY <1>3, <1>5 DEF vars
  <1>6. CASE Next
    BY <1>3, <1>4, <1>6, ViewCases
  <1> QED
    BY <1>5, <1>6

\* Shown says what ViewIsVisiblePrefix does.
LEMMA ShownIsVisiblePrefix ==
    ASSUME Types, Shown
    PROVE  ViewIsVisiblePrefix
  <1> SUFFICES ASSUME NEW p \in Peers
               PROVE  /\ IsPrefix(view[p], chain_entries[p])
                      /\ current_slot # NoClock => \A e \in ToSet(view[p]) : e.slot <= current_slot
    BY DEF ViewIsVisiblePrefix
  <1>1. view[p] \in Seq(Entry) /\ chain_entries[p] \in Seq(Entry)
    BY DEF Types
  <1>2. /\ Len(view[p]) <= Len(chain_entries[p])
        /\ \A i \in 1..Len(view[p]) :
              /\ view[p][i] = chain_entries[p][i]
              /\ current_slot # NoClock => view[p][i].slot <= current_slot
    BY DEF Shown
  <1>3. IsPrefix(view[p], chain_entries[p])
    BY <1>1, <1>2, PrefixByPosition
  <1>4. ToSet(view[p]) = {view[p][i] : i \in 1..Len(view[p])}
    BY <1>1, SeqParts
  <1> QED
    BY <1>2, <1>3, <1>4

(***************************************************************************)
(* As long as the clock does not wrap, what serve_chain_sync offers is a   *)
(* prefix of the peer's chain that holds nothing from the future.  The     *)
(* filter of filtered_fixture_chain is only a prefix because the chain     *)
(* increases, so the theorem rests on ChainsAlwaysIncrease.                *)
(***************************************************************************)
THEOREM ViewIsAlwaysVisiblePrefix == Spec /\ ClockNeverWraps => []ViewIsVisiblePrefix
  <1>1. Init => Shown
    BY ShownInit
  <1>2. (Types /\ Links) /\ Shown /\ [Next]_vars /\ [ClockForward]_vars => Shown'
    BY ShownStep
  <1>3. (Types /\ Links) /\ Shown => ViewIsVisiblePrefix
    BY ShownIsVisiblePrefix
  <1> QED
    BY <1>1, <1>2, <1>3, LinksAlways, PTL DEF Spec, ClockNeverWraps

(***************************************************************************)
(* As long as the clock does not wrap, a peer never takes back a header it *)
(* has shown: each serve_chain_sync offers at least what the last one did. *)
(***************************************************************************)
THEOREM ViewsNeverRetract == Spec /\ ClockNeverWraps => ViewNeverRetracts
  <1>1. Init => Shown
    BY ShownInit
  <1>2. (Types /\ Links) /\ Shown /\ [Next]_vars /\ [ClockForward]_vars => Shown'
    BY ShownStep
  <1>3. (Types /\ Links) /\ Shown /\ [Next]_vars =>
            [\A p \in Peers : IsPrefix(view[p], view'[p])]_vars
    BY ShownNeverRetracts
  <1> QED
    BY <1>1, <1>2, <1>3, LinksAlways, PTL DEF Spec, ClockNeverWraps, ViewNeverRetracts

-----------------------------------------------------------------------------
(* Which slots fire.                                                       *)

\* No slot arithmetic wraps: not the clock of tick_slots, not old_slot + 1 in
\* apply_production_rules, not the rounding up in every_n_slots_range.  (A
\* scenario stuck in the last slot takes no further step.)
Unwrapped ==
    /\ ClockForward
    /\ status' # "stuck" =>
          /\ current_slot' + 1 < U64
          /\ \A p \in Peers : Periodic(Rules[p]) => current_slot' + Rules[p].interval <= U64
SlotsNeverWrap == [][Unwrapped]_vars

\* What the event <<slot, skipped, ...>> says of the chain of its peer: the rule's
\* block is there or, if it was skipped, it is not and another block covers it.
EventTrue(chain, f) ==
    LET produced == \E i \in 1..Len(chain) :
                        chain[i].slot = f[1] /\ chain[i].source = "production_rule"
        covered  == \E i \in 1..Len(chain) :
                        chain[i].slot >= f[1] /\ chain[i].source # "production_rule"
    IN  IF f[2] THEN ~produced /\ covered ELSE produced

\* The clock has not gone back, and the produced blocks are not ahead of it.
Clocked ==
    /\ start <= current_slot
    /\ \A p \in Peers : \A i \in 1..Len(chain_entries[p]) :
          chain_entries[p][i].source = "production_rule" =>
              chain_entries[p][i].slot <= current_slot

\* The slots evaluated so far are the scheduled ones the clock has passed.
Evaluated ==
    \A p \in Peers :
        /\ \A f \in fired[p] : f[1] <= current_slot
        /\ status # "stuck" => \A x : (\E f \in fired[p] : f[1] = x) <=>
              x \in (start + 1)..current_slot /\ OnSchedule(Rules[p], x)
        /\ \A f, g \in fired[p] : f[1] = g[1] => f = g

\* Every event says truly whether there is a block.
Accounted == \A p \in Peers : \A f \in fired[p] : EventTrue(chain_entries[p], f)

\* The slots of a firing: those scheduled after the clock up to its new value.
LEMMA FiredSlots ==
    ASSUME Types, NEW new, FireStep(new), Unwrapped, NEW p \in Peers, NEW x
    PROVE  x \in ToSet(Schedule(p, current_slot, new)) <=>
              x \in (current_slot + 1)..new /\ OnSchedule(Rules[p], x)
  <1>1. /\ new \in Slots /\ current_slot \in Slots /\ current_slot' = new /\ status' = "running"
        /\ StartSlots # {}
    BY DEF FireStep, Types
  <1>2. /\ new >= current_slot /\ new + 1 < U64
        /\ Periodic(Rules[p]) => new + Rules[p].interval <= U64
    BY <1>1 DEF Unwrapped, ClockForward
  <1>3. current_slot \in Nat /\ new \in Nat /\ U64 \in Nat
    BY <1>1, SlotsAreNatural
  <1>4. (current_slot + 1) % U64 = current_slot + 1 /\ current_slot + 1 \in Nat /\ current_slot + 1 < U64
    BY <1>2, <1>3
  <1>5. current_slot + 1 \in Slots
    BY <1>4, SlotsAreNatural
  <1> DEFINE from == current_slot + 1
  <1>6. Schedule(p, current_slot, new) = slots_in_range(Rules[p], from, new) /\ from \in Slots
    BY <1>4, <1>5 DEF Schedule
  <1> HIDE DEF from
  <1>7. x \in ToSet(slots_in_range(Rules[p], from, new)) <=> x \in from..new /\ OnSchedule(Rules[p], x)
    BY <1>1, <1>2, <1>6, ScheduleSlots
  <1> QED
    BY <1>6, <1>7 DEF from

\* A block that a step adds is explicit, or the rule's and newer than the clock.
LEMMA NewBlocks ==
    ASSUME Types, Next, Unwrapped, NEW p \in Peers, NEW i \in Added(p)
    PROVE  \/ chain_entries'[p][i].source = "explicit"
           \/ /\ chain_entries'[p][i].source = "production_rule"
              /\ chain_entries'[p][i].slot > current_slot
              /\ chain_entries'[p][i].slot <= current_slot'
  <1> DEFINE d == chain_entries'[p]
  <1>1. ASSUME NEW new \in Slots, FireStep(new)
        PROVE  /\ d[i].source = "production_rule"
               /\ d[i].slot > current_slot /\ d[i].slot <= current_slot'
    <2> DEFINE s == Schedule(p, current_slot, new)
    <2>1. Grown(p, chain_entries[p], d, ToSet(s))
      BY <1>1, FireChain
    <2>2. d[i].slot \in ToSet(s) /\ Linked(p, d, i)
      BY <2>1 DEF Grown, Added
    <2>3. d[i].slot \in (current_slot + 1)..new
      BY <1>1, <2>2, FiredSlots
    <2>4. current_slot' = new /\ current_slot \in Nat /\ new \in Nat
      BY <1>1, SlotsAreNatural DEF FireStep
    <2>5. d[i].source = "production_rule"
      BY <2>2 DEF Linked
    <2> QED
      BY <2>3, <2>4, <2>5
  <1>2. ASSUME NEW q \in Peers, NEW slot \in Slots, NEW number \in Slots, ExtendStep(q, slot, number)
        PROVE  d[i].source = "explicit"
    <2> DEFINE c == chain_entries[p]
               x == Explicit(slot, number)
    <2>1. c \in Seq(Entry) /\ Len(c) \in Nat
      BY DEF Types
    <2>2. x \in Entry /\ x.source = "explicit"
      BY ExplicitIsEntry
    <2>3. (p # q => d = c) /\ (p = q => d = Append(c, x))
      BY <1>2, ExtendStepParts
    <2> HIDE DEF x
    <2>4. d # c
      BY <2>1 DEF Added
    <2>5. d = Append(c, x)
      BY <2>3, <2>4
    <2>6. Len(d) = Len(c) + 1 /\ d[Len(c) + 1] = x
      BY <2>1, <2>2, <2>5, AppendParts
    <2>7. i = Len(c) + 1
      BY <2>1, <2>6 DEF Added
    <2> QED
      BY <2>2, <2>6, <2>7
  <1>3. ASSUME \/ \E new \in Slots : StuckStep(new)
               \/ StopStep
               \/ \E q \in Peers : ViewStep(q) \/ BodiesStep(q)
        PROVE  FALSE
    <2>1. UNCHANGED chain_entries
      BY <1>3, Zenon DEF StuckStep, StopStep, ViewStep, BodiesStep
    <2>2. Len(chain_entries[p]) \in Nat
      BY EntryPositions
    <2> QED
      BY <2>1, <2>2 DEF Added
  <1> QED
    BY <1>1, <1>2, <1>3, StepCases, Zenon

\* What a step may do to the events.
LEMMA EventCases ==
    ASSUME Types, Next
    PROVE  \/ \E new \in Slots : FireStep(new)
           \/ UNCHANGED <<fired, start>> /\ (status' # "stuck" => UNCHANGED current_slot)
  <1>1. ASSUME \/ \E new \in Slots : StuckStep(new)
               \/ StopStep
               \/ \E q \in Peers, slot \in Slots, number \in Slots : ExtendStep(q, slot, number)
               \/ \E q \in Peers : ViewStep(q) \/ BodiesStep(q)
        PROVE  UNCHANGED <<fired, start>> /\ (status' # "stuck" => UNCHANGED current_slot)
    BY <1>1, Zenon DEF StuckStep, StopStep, ViewStep, BodiesStep, ExtendStep
  <1> QED
    BY <1>1, StepCases, Zenon

\* Initially.
LEMMA FiredInit ==
    ASSUME Init
    PROVE  Clocked /\ Evaluated /\ Accounted
  <1>1. start = current_slot /\ start \in Int
    BY NetworkAssumption, SlotsAreNatural DEF Init, NoClock
  <1>2. \A p \in Peers : fired[p] = {}
    BY DEF Init
  <1>3. \A p \in Peers : \A i \in 1..Len(chain_entries[p]) :
            chain_entries[p][i].source = "fixture"
    BY SeedsAreChains DEF Init
  <1>4. Clocked
    BY <1>1, <1>3 DEF Clocked
  <1>5. (start + 1)..current_slot = {}
    BY <1>1
  <1>6. Evaluated
    BY <1>2, <1>5 DEF Evaluated
  <1>7. Accounted
    BY <1>2 DEF Accounted
  <1> QED
    BY <1>4, <1>6, <1>7

\* The clock is a number.
LEMMA ClockIsNumber ==
    ASSUME Types
    PROVE  current_slot \in Int /\ start \in Int
  BY NetworkAssumption, SlotsAreNatural DEF Types, NoClock

\* Clocked is kept.
LEMMA ClockedStep ==
    ASSUME Types, Clocked, Next, Unwrapped
    PROVE  Clocked'
  <1>1. Types'
    BY TypesStep
  <1>2. current_slot \in Int /\ start \in Int
    BY ClockIsNumber
  <1>2a. current_slot' \in {NoClock} \cup Slots
    BY <1>1 DEF Types
  <1>2b. current_slot' \in Int
    BY <1>2a, SlotsAreNatural DEF NoClock
  <1>3. current_slot' >= current_slot
    BY DEF Unwrapped, ClockForward
  <1>4. start' = start
    BY TypesOfStep
  <1>5. start' <= current_slot'
    BY <1>2, <1>2b, <1>3, <1>4 DEF Clocked
  <1>6. ASSUME NEW p \in Peers, NEW i \in 1..Len(chain_entries'[p]),
               chain_entries'[p][i].source = "production_rule"
        PROVE  chain_entries'[p][i].slot <= current_slot'
    <2> DEFINE c == chain_entries[p]
               d == chain_entries'[p]
    <2>1. /\ d \in Seq(Entry) /\ Len(c) <= Len(d)
          /\ \A k \in 1..Len(c) : d[k] = c[k]
      BY StepGrows
    <2>2. c \in Seq(Entry) /\ Len(c) \in Nat /\ Len(d) \in Nat
      BY <2>1 DEF Types
    <2>3. CASE i \in 1..Len(c)
      <3>1. d[i] = c[i] /\ c[i].slot \in Int
        BY <2>1, <2>2, <2>3, EntryParts
      <3>2. c[i].slot <= current_slot
        BY <1>6, <2>3, <3>1 DEF Clocked
      <3> QED
        BY <1>2, <1>2b, <1>3, <3>1, <3>2
    <2>4. CASE i \notin 1..Len(c)
      <3>1. i \in Added(p)
        BY <2>2, <2>4 DEF Added
      <3> QED
        BY <1>6, <3>1, NewBlocks
    <2> QED
      BY <2>3, <2>4
  <1> QED
    BY <1>5, <1>6 DEF Clocked

\* The events a firing adds for a peer.
LEMMA EventsOfSchedule ==
    ASSUME Types, NEW new, FireStep(new), NEW p \in Peers, NEW s,
           s = Schedule(p, current_slot, new)
    PROVE  /\ s \in Seq(Slots) /\ ToSet(s) = {s[i] : i \in 1..Len(s)}
           /\ \A i, j \in 1..Len(s) : s[i] = s[j] => i = j
           /\ fired'[p] = fired[p] \cup Events(p, s)
  <1>1. fired'[p] = fired[p] \cup Events(p, s)
    BY FireParts, Zenon
  <1>2. s \in Seq(Slots) /\ Ordered(s)
    BY FireChain
  <1>3. ToSet(s) = {s[i] : i \in 1..Len(s)}
    BY <1>2, SeqParts
  <1>4. \A i, j \in 1..Len(s) : s[i] = s[j] => i = j
    <2>1. s \in Seq(Int)
      BY <1>2, SlotsAreNatural
    <2>2. \A j \in 1..Len(s) : \A i \in 1..(j - 1) : s[i] < s[j]
      BY <1>2, <2>1, OrderedAll
    <2>3. \A i \in 1..Len(s) : s[i] \in Int /\ i \in Int
      BY <2>1
    <2> QED
      BY <2>2, <2>3
  <1> QED
    BY <1>1, <1>2, <1>3, <1>4

\* There is one for each slot of the schedule, ...
LEMMA NewEvents ==
    ASSUME Types, NEW new, FireStep(new), NEW p \in Peers, NEW s,
           s = Schedule(p, current_slot, new)
    PROVE  /\ fired[p] \subseteq fired'[p]
           /\ \A f \in fired'[p] : f \in fired[p] \/ f[1] \in ToSet(s)
           /\ \A f, g \in fired'[p] \ fired[p] : f[1] = g[1] => f = g
           /\ \A x \in ToSet(s) : \E f \in fired'[p] : f[1] = x
  <1> DEFINE E(i) == <<s[i], \A j \in Added(p) : chain_entries'[p][j].slot # s[i], steps, i>>
             N == Events(p, s)
  <1>1. /\ ToSet(s) = {s[i] : i \in 1..Len(s)}
        /\ \A i, j \in 1..Len(s) : s[i] = s[j] => i = j
        /\ fired'[p] = fired[p] \cup N
    <2>1. /\ s \in Seq(Slots) /\ ToSet(s) = {s[i] : i \in 1..Len(s)}
          /\ \A i, j \in 1..Len(s) : s[i] = s[j] => i = j
          /\ fired'[p] = fired[p] \cup Events(p, s)
      BY EventsOfSchedule
    <2> QED
      BY <2>1, Zenon DEF N
  <1>2. N = {E(i) : i \in 1..Len(s)}
    BY Zenon DEF Events, Added
  <1>3. \A i : E(i)[1] = s[i]
    OBVIOUS
  <1> HIDE DEF E, N
  <1>4. \A f \in N : f[1] \in ToSet(s)
    BY <1>1, <1>2, <1>3
  <1>5. \A f, g \in N : f[1] = g[1] => f = g
    BY <1>1, <1>2, <1>3
  <1>6. \A x \in ToSet(s) : \E f \in N : f[1] = x
    BY <1>1, <1>2, <1>3
  <1> QED
    BY <1>1, <1>4, <1>5, <1>6

\* ... and it tells whether a block was added there.
LEMMA NewEventTells ==
    ASSUME Types, NEW new, FireStep(new), NEW p \in Peers, NEW f \in fired'[p] \ fired[p]
    PROVE  f[2] = (\A i \in Added(p) : chain_entries'[p][i].slot # f[1])
  <1> DEFINE s == Schedule(p, current_slot, new)
             Skipped(x) == \A j \in Added(p) : chain_entries'[p][j].slot # x
  <1>1. fired'[p] = fired[p] \cup Events(p, s)
    BY EventsOfSchedule, Zenon
  <1>2. Events(p, s) = {<<s[i], Skipped(s[i]), steps, i>> : i \in 1..Len(s)}
    BY Zenon DEF Events, Added
  <1> HIDE DEF s, Skipped
  <1>3. PICK i \in 1..Len(s) : f = <<s[i], Skipped(s[i]), steps, i>>
    BY <1>1, <1>2
  <1>4. \A a, b, c, d : f = <<a, b, c, d>> => f[1] = a /\ f[2] = b
    OBVIOUS
  <1>5. f[1] = s[i] /\ f[2] = Skipped(s[i])
    BY <1>3, <1>4, Zenon
  <1> QED
    BY <1>5, Zenon DEF Skipped

\* Firing the rules evaluates the scheduled slots the clock moves over.
LEMMA EvaluatedFire ==
    ASSUME Types, Clocked, Evaluated, NEW new, FireStep(new), Unwrapped
    PROVE  Evaluated'
  <1>1. /\ new \in Slots /\ current_slot \in Slots /\ current_slot' = new /\ start' = start
        /\ status = "running" /\ status' = "running"
    BY DEF FireStep
  <1>2. /\ current_slot \in Int /\ new \in Int /\ start \in Int
        /\ start <= current_slot /\ current_slot <= new
    <2>1. current_slot <= new
      BY <1>1, SlotsAreNatural DEF Unwrapped, ClockForward
    <2> QED
      BY <1>1, <2>1, SlotsAreNatural, ClockIsNumber DEF Clocked
  <1> SUFFICES ASSUME NEW p \in Peers
               PROVE  /\ \A f \in fired'[p] : f[1] <= current_slot'
                      /\ \A x : (\E f \in fired'[p] : f[1] = x) <=>
                            x \in (start' + 1)..current_slot' /\ OnSchedule(Rules[p], x)
                      /\ \A f, g \in fired'[p] : f[1] = g[1] => f = g
    BY Zenon DEF Evaluated, OnSchedule
  <1> DEFINE s == Schedule(p, current_slot, new)
  <1>3. /\ fired[p] \subseteq fired'[p]
        /\ \A f \in fired'[p] : f \in fired[p] \/ f[1] \in ToSet(s)
        /\ \A f, g \in fired'[p] \ fired[p] : f[1] = g[1] => f = g
        /\ \A x \in ToSet(s) : \E f \in fired'[p] : f[1] = x
    BY NewEvents, Zenon
  <1>4. \A x : x \in ToSet(s) <=> x \in (current_slot + 1)..new /\ OnSchedule(Rules[p], x)
    BY FiredSlots
  <1> HIDE DEF s
  <1>5. /\ \A f \in fired[p] : f[1] <= current_slot
        /\ \A x : (\E f \in fired[p] : f[1] = x) <=>
              x \in (start + 1)..current_slot /\ OnSchedule(Rules[p], x)
        /\ \A f, g \in fired[p] : f[1] = g[1] => f = g
    BY <1>1, Zenon DEF Evaluated
  <1>6. \A f \in fired[p] : f[1] \in Int
    BY SlotsAreNatural DEF Types, EventType
  <1>7. \A f \in fired'[p] : f[1] <= current_slot'
    BY <1>1, <1>2, <1>3, <1>4, <1>5, <1>6
  <1>8. ASSUME NEW x
        PROVE  (\E f \in fired'[p] : f[1] = x) <=>
                   x \in (start' + 1)..current_slot' /\ OnSchedule(Rules[p], x)
    <2>1. (\E f \in fired'[p] : f[1] = x) <=> (\E f \in fired[p] : f[1] = x) \/ x \in ToSet(s)
      BY <1>3, Zenon
    <2>2. x \in (start' + 1)..current_slot' <=>
              x \in (start + 1)..current_slot \/ x \in (current_slot + 1)..new
      BY <1>1, <1>2
    <2> QED
      BY <1>4, <1>5, <2>1, <2>2, Zenon
  <1>9. ASSUME NEW f \in fired'[p], NEW g \in fired'[p], f[1] = g[1]
        PROVE  f = g
    <2>1. \A h \in fired[p] : h[1] \notin ToSet(s)
      BY <1>2, <1>4, <1>5, <1>6
    <2>2. CASE f \in fired[p]
      BY <1>3, <1>5, <1>9, <2>1, <2>2, Zenon
    <2>3. CASE f \notin fired[p]
      <3>1. g \notin fired[p]
        BY <1>3, <1>9, <2>1, <2>3, Zenon
      <3> QED
        BY <1>3, <1>9, <2>3, <3>1, Zenon
    <2> QED
      BY <2>2, <2>3
  <1> QED
    BY <1>7, <1>8, <1>9, Zenon

\* Evaluated is kept.
LEMMA EvaluatedStep ==
    ASSUME Types, Clocked, Evaluated, Next, Unwrapped
    PROVE  Evaluated'
  <1>1. CASE UNCHANGED <<fired, start>> /\ (status' # "stuck" => UNCHANGED current_slot)
    <2>1. \A p \in Peers : \A f \in fired[p] : f[1] \in Int
      BY SlotsAreNatural DEF Types, EventType
    <2>2. current_slot' \in {NoClock} \cup Slots
      BY TypesOfStep
    <2>3. current_slot' \in Int /\ current_slot \in Int /\ current_slot' >= current_slot
      BY <2>2, SlotsAreNatural, ClockIsNumber DEF NoClock, Unwrapped, ClockForward
    <2>4. \A p \in Peers : \A f \in fired'[p] : f[1] <= current_slot'
      BY <1>1, <2>1, <2>3 DEF Evaluated
    <2>5. status # "stuck"
      BY StepCases, Zenon DEF FireStep, StuckStep, StopStep, ExtendStep, ViewStep, BodiesStep
    <2>6. ASSUME status' # "stuck", NEW p \in Peers, NEW x
          PROVE  (\E f \in fired'[p] : f[1] = x) <=>
                     x \in (start' + 1)..current_slot' /\ OnSchedule(Rules[p], x)
      BY <1>1, <2>5, <2>6, Zenon DEF Evaluated
    <2>7. \A p \in Peers : \A f, g \in fired'[p] : f[1] = g[1] => f = g
      BY <1>1, Zenon DEF Evaluated
    <2> QED
      BY <2>4, <2>6, <2>7, Zenon DEF Evaluated, OnSchedule
  <1>2. CASE \E new \in Slots : FireStep(new)
    BY <1>2, EvaluatedFire
  <1> QED
    BY <1>1, <1>2, EventCases

\* An event stays true: a step adds no block that a rule would have produced
\* at a slot the clock has passed.
LEMMA OldEventStaysTrue ==
    ASSUME Types, Next, Unwrapped, NEW p \in Peers, NEW f \in fired[p],
           f[1] <= current_slot, EventTrue(chain_entries[p], f)
    PROVE  EventTrue(chain_entries'[p], f)
  <1> DEFINE c == chain_entries[p]
             d == chain_entries'[p]
  <1>1. /\ d \in Seq(Entry) /\ Len(c) <= Len(d)
        /\ \A k \in 1..Len(c) : d[k] = c[k]
    BY StepGrows
  <1>2. c \in Seq(Entry) /\ Len(c) \in Nat /\ Len(d) \in Nat
    BY <1>1 DEF Types
  <1>3. \A k \in 1..Len(c) : k \in 1..Len(d)
    BY <1>1, <1>2
  <1>4. current_slot \in Int /\ f[1] \in Int
    BY ClockIsNumber, SlotsAreNatural DEF Types, EventType
  <1>5. \A k \in 1..Len(d) : k \in 1..Len(c) \/ k \in Added(p)
    BY <1>2 DEF Added
  <1>6. \A k \in Added(p) : \/ d[k].source = "explicit"
                            \/ d[k].slot > current_slot
    BY NewBlocks
  <1>7. ASSUME NEW k \in Added(p), d[k].source = "production_rule"
        PROVE  d[k].slot # f[1]
    <2>1. d[k].slot > current_slot
      BY <1>6, <1>7
    <2> QED
      BY <1>4, <2>1
  <1> HIDE DEF c, d
  <1>8. CASE f[2]
    <2>1. /\ \A i \in 1..Len(c) : ~(c[i].slot = f[1] /\ c[i].source = "production_rule")
          /\ \E i \in 1..Len(c) : c[i].slot >= f[1] /\ c[i].source # "production_rule"
      BY <1>8, Zenon DEF EventTrue, c
    <2>2. \A i \in 1..Len(d) : ~(d[i].slot = f[1] /\ d[i].source = "production_rule")
      BY <1>1, <1>5, <1>7, <2>1, Zenon
    <2>3. \E i \in 1..Len(d) : d[i].slot >= f[1] /\ d[i].source # "production_rule"
      BY <1>1, <1>3, <2>1, Zenon
    <2> QED
      BY <1>8, <2>2, <2>3, Zenon DEF EventTrue, d
  <1>9. CASE ~f[2]
    <2>1. \E i \in 1..Len(c) : c[i].slot = f[1] /\ c[i].source = "production_rule"
      BY <1>9, Zenon DEF EventTrue, c
    <2>2. \E i \in 1..Len(d) : d[i].slot = f[1] /\ d[i].source = "production_rule"
      BY <1>1, <1>3, <2>1, Zenon
    <2> QED
      BY <1>9, <2>2, Zenon DEF EventTrue, d
  <1> QED
    BY <1>8, <1>9

\* An event is true when it is made.
LEMMA NewEventIsTrue ==
    ASSUME Types, Clocked, NEW new, FireStep(new), Next, Unwrapped, NEW p \in Peers,
           NEW f \in fired'[p] \ fired[p]
    PROVE  EventTrue(chain_entries'[p], f)
  <1> DEFINE c == chain_entries[p]
             d == chain_entries'[p]
             s == Schedule(p, current_slot, new)
             x == f[1]
  <1>1. f[2] = (\A i \in Added(p) : d[i].slot # x) /\ x \in ToSet(s)
    <2>1. f[2] = (\A i \in Added(p) : d[i].slot # x)
      BY NewEventTells, Zenon
    <2>2. x \in ToSet(s)
      BY NewEvents, Zenon
    <2> QED
      BY <2>1, <2>2, Zenon
  <1>2. /\ s \in Seq(Slots) /\ Ordered(s) /\ d = Production(p, c, s)[Len(s)]
        /\ Grown(p, c, d, ToSet(s))
    BY FireChain
  <1>3. c \in Seq(Entry) /\ Len(c) \in Nat /\ d \in Seq(Entry) /\ Len(d) \in Nat
    BY <1>2 DEF Types, Grown
  <1>4. x \in (current_slot + 1)..new /\ new \in Nat /\ current_slot \in Nat
    BY <1>1, FiredSlots, SlotsAreNatural DEF FireStep
  <1>5. x \in Nat /\ x > current_slot
    BY <1>4
  <1>6. /\ Len(c) <= Len(d)
        /\ \A k \in 1..Len(c) : d[k] = c[k] /\ k \in 1..Len(d)
        /\ \A k \in Added(p) : k \in 1..Len(d) /\ d[k].source = "production_rule"
        /\ \A k \in 1..Len(d) : k \in 1..Len(c) \/ k \in Added(p)
    <2>1. /\ Len(c) <= Len(d) /\ \A k \in 1..Len(c) : d[k] = c[k]
          /\ \A k \in Added(p) : d[k].source = "production_rule"
      BY <1>2 DEF Grown, Linked, Added
    <2> QED
      BY <1>3, <2>1 DEF Added
  <1>7. \A k \in 1..Len(c) : c[k].source = "production_rule" => c[k].slot # x /\ ~(c[k].slot >= x)
    <2> SUFFICES ASSUME NEW k \in 1..Len(c), c[k].source = "production_rule"
                 PROVE  c[k].slot # x /\ ~(c[k].slot >= x)
      OBVIOUS
    <2>1. c[k].slot <= current_slot
      BY DEF Clocked
    <2>2. c[k].slot \in Nat
      BY <1>3, SeqParts, EntryParts
    <2> QED
      BY <1>4, <1>5, <2>1, <2>2
  <1>8. CASE \A i \in Added(p) : d[i].slot # x
    <2>1. f[2]
      BY <1>1, <1>8, Zenon
    <2>2. \A i \in 1..Len(d) : ~(d[i].slot = x /\ d[i].source = "production_rule")
      BY <1>6, <1>7, <1>8, Zenon
    <2>3. PICK k \in 1..Len(s) : s[k] = x
      <3>1. x \in ToSet(s)
        BY <1>1, Zenon
      <3>2. ToSet(s) = {s[i] : i \in 1..Len(s)}
        BY <1>2, SeqParts
      <3> HIDE DEF s
      <3> QED
        BY <3>1, <3>2
    <2>4. chain_tip_slot(c) >= x
      <3>1. \/ chain_tip_slot(c) >= s[k]
            \/ \E j \in (Len(c) + 1)..Len(d) : d[j].slot = s[k]
        BY <1>2, <1>3, ProductionCovers
      <3> QED
        BY <1>8, <2>3, <3>1 DEF Added
    <2>5. c # <<>>
      BY <1>5, <2>4 DEF chain_tip_slot
    <2>6. Len(c) \in 1..Len(c) /\ c[Len(c)].slot >= x
      BY <1>3, <2>4, <2>5, TipParts, SeqParts
    <2>7. c[Len(c)].source # "production_rule"
      BY <1>7, <2>6
    <2>8. \E i \in 1..Len(d) : d[i].slot >= x /\ d[i].source # "production_rule"
      BY <1>6, <2>6, <2>7
    <2> HIDE DEF d
    <2> QED
      BY <2>1, <2>2, <2>8, Zenon DEF EventTrue, d
  <1>9. CASE ~(\A i \in Added(p) : d[i].slot # x)
    <2>1. ~f[2]
      BY <1>1, <1>9, Zenon
    <2>2. \E i \in 1..Len(d) : d[i].slot = x /\ d[i].source = "production_rule"
      BY <1>6, <1>9, Zenon
    <2> QED
      BY <2>1, <2>2, Zenon DEF EventTrue
  <1> QED
    BY <1>8, <1>9

\* Accounted is kept.
LEMMA AccountedStep ==
    ASSUME Types, Clocked, Evaluated, Accounted, Next, Unwrapped
    PROVE  Accounted'
  <1> SUFFICES ASSUME NEW p \in Peers, NEW f \in fired'[p]
               PROVE  EventTrue(chain_entries'[p], f)
    BY Zenon DEF Accounted, EventTrue
  <1>1. CASE f \in fired[p]
    <2>1. EventTrue(chain_entries[p], f)
      BY <1>1, Zenon DEF Accounted
    <2>2. f[1] <= current_slot
      BY <1>1, Zenon DEF Evaluated
    <2> QED
      BY <1>1, <2>1, <2>2, OldEventStaysTrue
  <1>2. CASE f \notin fired[p]
    <2>1. PICK new \in Slots : FireStep(new)
      BY <1>2, EventCases, Zenon
    <2> QED
      BY <1>2, <2>1, NewEventIsTrue
  <1> QED
    BY <1>1, <1>2

\* The three together.
LEMMA EventsAlways == Spec /\ SlotsNeverWrap => [](Types /\ Clocked /\ Evaluated /\ Accounted)
  <1> DEFINE Told == Clocked /\ Evaluated /\ Accounted
  <1>1. Init => Told
    BY FiredInit
  <1>2. (Types /\ Links) /\ Told /\ [Next]_vars /\ [Unwrapped]_vars => Told'
    <2> SUFFICES ASSUME Types, Links, Told, [Next]_vars, [Unwrapped]_vars PROVE Told'
      OBVIOUS
    <2>1. CASE UNCHANGED vars
      <3>1. UNCHANGED <<start, current_slot, chain_entries, fired, status>>
        BY <2>1 DEF vars
      <3>2. Clocked'
        BY <3>1, Zenon DEF Clocked
      <3>3. Evaluated'
        BY <3>1, Zenon DEF Evaluated, OnSchedule
      <3>4. Accounted'
        BY <3>1, Zenon DEF Accounted, EventTrue
      <3> QED
        BY <3>2, <3>3, <3>4
    <2>2. CASE ~UNCHANGED vars
      <3>1. Next /\ Unwrapped
        BY <2>2
      <3> QED
        BY <3>1, ClockedStep, EvaluatedStep, AccountedStep
    <2> QED
      BY <2>1, <2>2
  <1>3. (Types /\ Links) /\ Told => (Types /\ Clocked /\ Evaluated /\ Accounted)
    OBVIOUS
  <1> HIDE DEF Told
  <1> QED
    BY <1>1, <1>2, <1>3, LinksAlways, PTL DEF Spec, SlotsNeverWrap

\* A finite set whose elements differ in their first parts has as many of these.
LEMMA AsManyFirsts ==
    ASSUME NEW S, NEW T, IsFiniteSet(T), T = {f[1] : f \in S},
           \A f, g \in S : f[1] = g[1] => f = g
    PROVE  Cardinality(S) = Cardinality(T)
  <1> DEFINE h == [x \in T |-> CHOOSE f \in S : f[1] = x]
  <1>1. \A x \in T : h[x] \in S /\ h[x][1] = x
    <2> SUFFICES ASSUME NEW x \in T PROVE h[x] \in S /\ h[x][1] = x
      OBVIOUS
    <2>1. \E f \in S : f[1] = x
      OBVIOUS
    <2> QED
      BY <2>1
  <1> HIDE DEF h
  <1>2. h = [x \in T |-> h[x]]
    BY DEF h
  <1>3. h \in [T -> S]
    BY <1>1, <1>2
  <1>4. \A x, y \in T : h[x] = h[y] => x = y
    BY <1>1
  <1>5. \A f \in S : f[1] \in T /\ h[f[1]] = f
    BY <1>1
  <1>6. h \in Bijection(T, S)
    BY <1>3, <1>4, <1>5 DEF Bijection, Injection, Surjection, IsInjective
  <1>7. ExistsBijection(T, S)
    BY <1>6 DEF ExistsBijection
  <1>8. Cardinality(T) \in Nat
    BY FS_CardinalityType
  <1> QED
    BY <1>7, FS_Bijection

\* Evaluated says what EachScheduledSlotFiresOnce does.
LEMMA EvaluatedIsOnce ==
    ASSUME Types, Evaluated
    PROVE  EachScheduledSlotFiresOnce
  <1> SUFFICES ASSUME status # "stuck", NEW p \in Peers
               PROVE  /\ {f[1] : f \in fired[p]} =
                            {s \in (start + 1)..current_slot : OnSchedule(Rules[p], s)}
                      /\ Cardinality(fired[p]) = Cardinality({f[1] : f \in fired[p]})
    BY Zenon DEF EachScheduledSlotFiresOnce
  <1> DEFINE T == {f[1] : f \in fired[p]}
             I == (start + 1)..current_slot
  <1>1. /\ \A x : (\E f \in fired[p] : f[1] = x) <=> x \in I /\ OnSchedule(Rules[p], x)
        /\ \A f, g \in fired[p] : f[1] = g[1] => f = g
    BY Zenon DEF Evaluated
  <1>2. \A x : x \in T <=> \E f \in fired[p] : f[1] = x
    BY Zenon
  <1>3. IsFiniteSet(I)
    BY ClockIsNumber, FS_Interval
  <1> HIDE DEF I
  <1>4. \A x : x \in T <=> x \in I /\ OnSchedule(Rules[p], x)
    BY <1>1, <1>2, Zenon
  <1>5. T \subseteq I /\ T = {s \in I : OnSchedule(Rules[p], s)}
    <2> HIDE DEF T
    <2> QED
      BY <1>4, Zenon
  <1>6. IsFiniteSet(T)
    BY <1>3, <1>5, FS_Subset
  <1>7. Cardinality(fired[p]) = Cardinality(T)
    BY <1>1, <1>6, AsManyFirsts
  <1> QED
    BY <1>5, <1>7 DEF I

\* Accounted says what MissingMeansCovered does.
LEMMA AccountedIsCovered ==
    ASSUME Types, Accounted
    PROVE  MissingMeansCovered
  <1> SUFFICES ASSUME NEW p \in Peers, NEW f \in fired[p]
               PROVE  LET at == {e \in Entries(p) : e.slot = f[1] /\ e.source = "production_rule"} IN
                      IF f[2] THEN at = {} /\ \E e \in Entries(p) :
                                                e.slot >= f[1] /\ e.source # "production_rule"
                      ELSE at # {}
    BY Zenon DEF MissingMeansCovered
  <1> DEFINE at == {e \in Entries(p) : e.slot = f[1] /\ e.source = "production_rule"}
             c == chain_entries[p]
  <1>1. \A e : e \in Entries(p) <=> \E i \in 1..Len(c) : e = c[i]
    BY EntryPositions
  <1>2. EventTrue(c, f)
    BY DEF Accounted
  <1> HIDE DEF c
  <1>3. CASE f[2]
    <2>1. /\ ~\E i \in 1..Len(c) : c[i].slot = f[1] /\ c[i].source = "production_rule"
          /\ \E i \in 1..Len(c) : c[i].slot >= f[1] /\ c[i].source # "production_rule"
      BY <1>2, <1>3, Zenon DEF EventTrue
    <2>2. at = {}
      <3>1. \A e \in Entries(p) : ~(e.slot = f[1] /\ e.source = "production_rule")
        BY <1>1, <2>1
      <3> QED
        BY <3>1
    <2>3. \E e \in Entries(p) : e.slot >= f[1] /\ e.source # "production_rule"
      BY <1>1, <2>1, Zenon
    <2> QED
      BY <1>3, <2>2, <2>3, Zenon
  <1>4. CASE ~f[2]
    <2>1. \E i \in 1..Len(c) : c[i].slot = f[1] /\ c[i].source = "production_rule"
      BY <1>2, <1>4, Zenon DEF EventTrue
    <2>2. at # {}
      BY <1>1, <2>1, Zenon
    <2> QED
      BY <1>4, <2>2, Zenon
  <1> QED
    BY <1>3, <1>4

(***************************************************************************)
(* As long as no slot arithmetic wraps, apply_production_rules evaluates   *)
(* each scheduled slot after start_slot exactly once and no other slot,    *)
(* for every way to cut the time into advance_to_slot and tick_slots.      *)
(***************************************************************************)
THEOREM EachScheduledSlotAlwaysFiresOnce ==
    Spec /\ SlotsNeverWrap => []EachScheduledSlotFiresOnce
  <1>1. (Types /\ Clocked /\ Evaluated /\ Accounted) => EachScheduledSlotFiresOnce
    BY EvaluatedIsOnce
  <1> QED
    BY <1>1, EventsAlways, PTL

(***************************************************************************)
(* As long as no slot arithmetic wraps, apply_production_rules leaves out  *)
(* a scheduled block only where a block it did not produce covers the      *)
(* slot, and every event says truly whether the block is there.            *)
(***************************************************************************)
THEOREM MissingAlwaysMeansCovered == Spec /\ SlotsNeverWrap => []MissingMeansCovered
  <1>1. (Types /\ Clocked /\ Evaluated /\ Accounted) => MissingMeansCovered
    BY AccountedIsCovered
  <1> QED
    BY <1>1, EventsAlways, PTL
=============================================================================
