----------------------------- MODULE WireProofs -----------------------------
(***************************************************************************)
(* Proofs about the two codecs, for every dictionary, message, packet and  *)
(* payload.                                                                *)
(*                                                                         *)
(* Messages.  A message ID of any size survives its encoding, seven bits a *)
(* byte; so does the flag byte, the route, in its code or in plain bytes,  *)
(* and the data, compressed or not: decode(encode(m)) reads m back         *)
(* (MessageSurvives).  The dictionaries of a process stay inverse to one   *)
(* another and only grow, so that what was encoded with a part of the      *)
(* sender's dictionary can be decoded with the dictionary of any process   *)
(* that has come to know the sender's: RoundTrip.                          *)
(*                                                                         *)
(* Packets.  The stream is the concatenation of the frames of the packets  *)
(* that were sent.  Decode takes the first frame off a stream that starts  *)
(* with a whole one; by induction on the number of packets that are still  *)
(* to come, it finds exactly those that are complete: FramesSurvive.       *)
(*                                                                         *)
(* The loops of the code are recursive functions.  That they satisfy their *)
(* equations for every input follows from the fact that every non-empty    *)
(* set of numbers has a least one (LeastNumber, Recursion).                *)
(***************************************************************************)
EXTENDS MessageCodec, PacketCodec, WellFoundedInduction, TLAPS

-----------------------------------------------------------------------------
(* Induction and recursion *)

\* Every set of numbers has a least one: the form of induction the proofs below use.
LEMMA LeastNumber ==
  ASSUME NEW T, T \subseteq Nat, T # {}
  PROVE  \E x \in T : \A y \in T : x <= y
<1>1. IsWellFoundedOn(OpToRel(<, Nat), Nat)
  BY NatLessThanWellFounded, Zenon
<1>2. PICK x \in T : \A y \in T : ~(<<y, x>> \in OpToRel(<, Nat))
  BY <1>1, WFMin, Zenon
<1>3. \A y \in T : ~(y < x)
  BY Zenon, <1>2 DEF OpToRel
<1> QED BY <1>3

\* Each argument in S that is not one of Ends has a previous one, of a lower rank.
Descends(S, Ends, Prev, Rank) == \A s \in S \ Ends : Rank[Prev[s]] < Rank[s]

\* The function f computes its value from the one at the previous argument.
Solves(f, S, Ends, Base, Prev, Step) ==
  \A s \in S : f[s] = IF s \in Ends THEN Base[s] ELSE Step[<<s, f[Prev[s]]>>]

\* Such a function exists: the recursive functions of the codecs are defined by their
\* equations.  Of the functions that solve the equation for the arguments below a rank there
\* is one for every rank, and they agree where they overlap.
LEMMA Recursion ==
  ASSUME NEW S, NEW V, NEW Rank \in [S -> Nat], NEW Prev \in [S -> S],
         NEW Ends \in SUBSET S, NEW Base \in [Ends -> V], NEW Step \in [S \X V -> V],
         Descends(S, Ends, Prev, Rank)
  PROVE  \E f \in [S -> V] : Solves(f, S, Ends, Base, Prev, Step)
<1> USE DEF Descends
<1> DEFINE Below(k) == {s \in S : Rank[s] < k}
           Value(f, s) == IF s \in Ends THEN Base[s] ELSE Step[<<s, f[Prev[s]]>>]
           Solutions(k) == {f \in [Below(k) -> V] : \A s \in Below(k) : f[s] = Value(f, s)}
<1>1. ASSUME NEW k \in Nat PROVE Solutions(k) # {}
  <2> DEFINE T == {n \in Nat : Solutions(n) = {}}
  <2> SUFFICES ASSUME T # {} PROVE FALSE
    BY Zenon
  <2>1. PICK n \in T : \A y \in T : n <= y
    <3> HIDE DEF T
    <3>1. T \subseteq Nat
      BY DEF T
    <3> QED BY Zenon, <3>1, LeastNumber
  <2>2. n # 0
    <3>1. Below(0) = {}
      OBVIOUS
    <3>2. [s \in Below(0) |-> Base[s]] \in Solutions(0)
      BY <3>1
    <3>3. Solutions(0) # {}
      BY Zenon, <3>2
    <3> HIDE DEF Solutions
    <3> QED BY <3>3
  <2>3. n - 1 \in Nat /\ n - 1 \notin T
    <3> HIDE DEF Solutions
    <3>1. n \in Nat
      OBVIOUS
    <3>2. n - 1 \in Nat /\ ~(n <= n - 1)
      BY <3>1, <2>2
    <3> HIDE DEF T
    <3> QED BY <3>2, <2>1
  <2>4. PICK f \in Solutions(n - 1) : TRUE
    BY Zenon, <2>3
  <2> DEFINE g == [s \in Below(n) |-> IF s \in Below(n - 1) THEN f[s] ELSE Value(f, s)]
  <2>5. ASSUME NEW s \in Below(n) PROVE s \notin Ends => Prev[s] \in Below(n - 1) \cap Below(n)
    BY <2>3
  <2>6. ASSUME NEW s \in Below(n) PROVE g[s] \in V /\ g[s] = Value(g, s)
    <3>1. CASE s \in Ends
      BY Zenon, <3>1, <2>4
    <3>2. CASE s \notin Ends
      <4>1. Prev[s] \in Below(n - 1) /\ g[Prev[s]] = f[Prev[s]] /\ f[Prev[s]] \in V
        BY <3>2, <2>5, <2>4
      <4>2. Step[<<s, f[Prev[s]]>>] \in V
        BY <4>1
      <4>3. g[s] = Step[<<s, f[Prev[s]]>>]
        BY <3>2, <2>4
      <4> QED BY <3>2, <4>1, <4>2, <4>3
    <3> QED BY <3>1, <3>2
  <2>7. g \in Solutions(n)
    BY Zenon, <2>6
  <2> QED BY Zenon, <2>7, <2>1
<1>2. ASSUME NEW j \in Nat, NEW k \in Nat, NEW f \in Solutions(j), NEW g \in Solutions(k),
             NEW s \in Below(j) \cap Below(k)
      PROVE  f[s] = g[s]
  <2> DEFINE T == {n \in Nat : \E t \in Below(j) \cap Below(k) : Rank[t] = n /\ f[t] # g[t]}
  <2> SUFFICES ASSUME T # {} PROVE FALSE
    OBVIOUS
  <2>1. PICK n \in T : \A y \in T : n <= y
    <3> HIDE DEF T
    <3>1. T \subseteq Nat
      BY DEF T
    <3> QED BY Zenon, <3>1, LeastNumber
  <2>2. PICK t \in Below(j) \cap Below(k) : Rank[t] = n /\ f[t] # g[t]
    BY <2>1
  <2>3. f[t] = Value(f, t) /\ g[t] = Value(g, t)
    OBVIOUS
  <2>4. t \notin Ends
    BY <2>2, <2>3
  <2>5. Prev[t] \in Below(j) \cap Below(k) /\ Rank[Prev[t]] \in Nat /\ Rank[Prev[t]] < n
    BY <2>2, <2>4
  <2>6. f[Prev[t]] = g[Prev[t]]
    BY <2>5, <2>1
  <2> QED BY <2>2, <2>3, <2>4, <2>6
<1> DEFINE some(s) == CHOOSE f \in Solutions(Rank[s] + 1) : TRUE
           F == [s \in S |-> some(s)[s]]
<1>3. ASSUME NEW s \in S
      PROVE  /\ some(s) \in Solutions(Rank[s] + 1)
             /\ Rank[s] + 1 \in Nat /\ s \in Below(Rank[s] + 1)
  <2>1. Rank[s] + 1 \in Nat /\ s \in Below(Rank[s] + 1)
    OBVIOUS
  <2> HIDE DEF Solutions
  <2> QED BY <2>1, <1>1
<1>4. ASSUME NEW s \in S PROVE F[s] \in V
  <2>1. some(s) \in [Below(Rank[s] + 1) -> V]
    BY Zenon, <1>3
  <2> HIDE DEF some
  <2> QED BY <2>1, <1>3
<1>5. ASSUME NEW s \in S PROVE F[s] = Value(F, s)
  <2>1. some(s)[s] = Value(some(s), s)
    <3> HIDE DEF some
    <3> QED BY Zenon, <1>3
  <2>2. CASE s \in Ends
    BY <2>1, <2>2
  <2>3. CASE s \notin Ends
    <3>1. Prev[s] \in S /\ Prev[s] \in Below(Rank[s] + 1)
      BY <2>3
    <3>2. /\ some(Prev[s]) \in Solutions(Rank[Prev[s]] + 1)
          /\ Rank[Prev[s]] + 1 \in Nat /\ Prev[s] \in Below(Rank[Prev[s]] + 1)
      BY Zenon, <3>1, <1>3
    <3>3. some(s)[Prev[s]] = some(Prev[s])[Prev[s]]
      <4> HIDE DEF some, Solutions, Below
      <4> QED BY <3>1, <3>2, <1>2, <1>3
    <3>4. F[Prev[s]] = some(s)[Prev[s]]
      BY Zenon, <3>1, <3>3
    <3> QED
      <4> HIDE DEF some
      <4> QED BY <2>1, <2>3, <3>4
  <2> QED BY Zenon, <2>2, <2>3
<1>6. F \in [S -> V]
  <2> HIDE DEF some
  <2> QED BY <1>4
<1>7. Solves(F, S, Ends, Base, Prev, Step)
  <2> HIDE DEF F
  <2> QED BY <1>5 DEF Solves
<1> QED BY Zenon, <1>6, <1>7

\* idBytes is the function its equation describes.
LEMMA idBytesEquation ==
  \A n \in Nat :
    idBytes[n] = IF n < 128 THEN <<n>> ELSE <<(n % 128) + 128>> \o idBytes[n \div 128]
<1> DEFINE Rank == [n \in Nat |-> n]
           Prev == [n \in Nat |-> n \div 128]
           Ends == 0..127
           Base == [n \in Ends |-> <<n>>]
           Step == [x \in Nat \X Bytes |-> <<(x[1] % 128) + 128>> \o x[2]]
<1>1. /\ Rank \in [Nat -> Nat] /\ Prev \in [Nat -> Nat] /\ Ends \in SUBSET Nat
      /\ Base \in [Ends -> Bytes]
      /\ Descends(Nat, Ends, Prev, Rank)
  BY DEF Bytes, Descends
<1>2. Step \in [Nat \X Bytes -> Bytes]
  <2>1. ASSUME NEW n \in Nat, NEW b \in Bytes PROVE <<(n % 128) + 128>> \o b \in Bytes
    BY DEF Bytes
  <2> QED BY <2>1
<1>3. PICK f \in [Nat -> Bytes] : Solves(f, Nat, Ends, Base, Prev, Step)
  <2> HIDE DEF Rank, Prev, Ends, Base, Step
  <2> QED BY <1>1, <1>2, Recursion, Zenon
<1>4. ASSUME NEW n \in Nat
      PROVE  f[n] = IF n < 128 THEN <<n>> ELSE <<(n % 128) + 128>> \o f[n \div 128]
  <2>1. n \div 128 \in Nat /\ f[n \div 128] \in Bytes /\ (n < 128 <=> n \in Ends)
    OBVIOUS
  <2>2. CASE n < 128
    <3>1. n \in Ends /\ Base[n] = <<n>>
      BY <2>1, <2>2
    <3> HIDE DEF Ends, Base, Prev, Step
    <3> QED BY <2>2, <3>1, <1>3, Zenon DEF Solves
  <2>3. CASE ~(n < 128)
    <3>1. n \notin Ends /\ Prev[n] = n \div 128
      BY <2>1, <2>3
    <3>2. ASSUME NEW b \in Bytes PROVE Step[<<n, b>>] = <<(n % 128) + 128>> \o b
      BY Zenon
    <3> HIDE DEF Ends, Base, Prev, Step
    <3>3. f[n] = Step[<<n, f[n \div 128]>>]
      BY <3>1, <1>3 DEF Solves
    <3>4. f[n] = <<(n % 128) + 128>> \o f[n \div 128]
      BY <2>1, <3>2, <3>3, Zenon
    <3> QED BY <2>3, <3>4
  <2> QED BY <2>2, <2>3
<1> DEFINE Body(g, n) == IF n < 128 THEN <<n>> ELSE <<(n % 128) + 128>> \o g[n \div 128]
<1>5. f = [n \in Nat |-> Body(f, n)]
  <2> HIDE DEF Body
  <2>1. ASSUME NEW n \in Nat PROVE f[n] = Body(f, n)
    BY <1>4, Zenon DEF Body
  <2> QED BY <2>1
<1>6. idBytes = [n \in Nat |-> Body(idBytes, n)]
  BY ONLY <1>5, ZenonT(60) DEF idBytes
<1> QED
  <2> HIDE DEF Body
  <2>1. ASSUME NEW n \in Nat PROVE idBytes[n] = Body(idBytes, n)
    BY <1>6
  <2> QED BY <2>1, Zenon DEF Body

\* What is in a sequence.
LEMMA ElementIn ==
  ASSUME NEW S, NEW s \in Seq(S), NEW i \in 1..Len(s)
  PROVE  s[i] \in S
OBVIOUS

\* The sequence u over S is the part of s from i to j.
IsPart(u, S, s, i, j) ==
  /\ u \in Seq(S) /\ Len(u) = j + 1 - i
  /\ \A k \in 1..(j + 1 - i) : u[k] = s[i + k - 1]

\* What is between two places of a sequence.
LEMMA Between ==
  ASSUME NEW S, NEW s \in Seq(S), NEW i \in Nat, NEW j \in Nat, 1 <= i, i <= j + 1, j <= Len(s)
  PROVE  IsPart(SubSeq(s, i, j), S, s, i, j)
<1>1. SubSeq(s, i, j) \in Seq(S)
  OBVIOUS
<1>2. Len(SubSeq(s, i, j)) = j + 1 - i
  OBVIOUS
<1>3. \A k \in 1..(j + 1 - i) : SubSeq(s, i, j)[k] = s[i + k - 1]
  OBVIOUS
<1> QED BY <1>1, <1>2, <1>3 DEF IsPart

\* The sequence u over S is s followed by t.
IsConcat(u, S, s, t) ==
  /\ u \in Seq(S) /\ Len(u) = Len(s) + Len(t)
  /\ \A k \in 1..Len(s) : u[k] = s[k]
  /\ \A k \in 1..Len(t) : u[Len(s) + k] = t[k]

\* Two sequences one after the other.
LEMMA Concat ==
  ASSUME NEW S, NEW s \in Seq(S), NEW t \in Seq(S)
  PROVE  IsConcat(s \o t, S, s, t)
BY DEF IsConcat

\* Sequences are equal when they have the same length and elements.
LEMMA SameSeq ==
  ASSUME NEW S, NEW s \in Seq(S), NEW t \in Seq(S), Len(s) = Len(t),
         \A i \in 1..Len(s) : s[i] = t[i]
  PROVE  s = t
OBVIOUS

\* idOf is the function its equation describes.
LEMMA idOfEquation ==
  \A b \in Bytes : idOf[b] = IF b = <<>> THEN 0 ELSE (b[1] % 128) + 128 * idOf[Tail(b)]
<1> DEFINE Rank == [b \in Bytes |-> Len(b)]
           Prev == [b \in Bytes |-> IF b = <<>> THEN b ELSE Tail(b)]
           Ends == {<<>>}
           Base == [b \in Ends |-> 0]
           Step == [x \in Bytes \X Nat |-> IF x[1] = <<>> THEN 0 ELSE (x[1][1] % 128) + 128 * x[2]]
<1>1. /\ Rank \in [Bytes -> Nat] /\ Prev \in [Bytes -> Bytes] /\ Ends \in SUBSET Bytes
      /\ Base \in [Ends -> Nat]
      /\ Descends(Bytes, Ends, Prev, Rank)
  BY DEF Bytes, Descends
<1>2. Step \in [Bytes \X Nat -> Nat]
  <2>1. ASSUME NEW b \in Bytes, b # <<>>, NEW v \in Nat PROVE (b[1] % 128) + 128 * v \in Nat
    <3>1. Len(b) \in Nat /\ Len(b) # 0
      BY <2>1 DEF Bytes
    <3>2. 1 \in 1..Len(b) /\ b \in Seq(0..255)
      BY <3>1 DEF Bytes
    <3>3. b[1] \in 0..255
      BY <3>2, ElementIn
    <3> QED BY <3>3
  <2> QED BY <2>1
<1>3. PICK f \in [Bytes -> Nat] : Solves(f, Bytes, Ends, Base, Prev, Step)
  <2> HIDE DEF Rank, Prev, Ends, Base, Step
  <2> QED BY <1>1, <1>2, Recursion, Zenon
<1>4. ASSUME NEW b \in Bytes
      PROVE  f[b] = IF b = <<>> THEN 0 ELSE (b[1] % 128) + 128 * f[Tail(b)]
  <2>1. CASE b = <<>>
    <3>1. b \in Ends /\ Base[b] = 0
      BY <2>1
    <3> HIDE DEF Ends, Base, Prev, Step
    <3> QED BY <2>1, <3>1, <1>3 DEF Solves
  <2>2. CASE b # <<>>
    <3>1. Tail(b) \in Bytes /\ Prev[b] = Tail(b) /\ b \notin Ends
      BY <2>2 DEF Bytes
    <3>2. f[b] = Step[<<b, f[Tail(b)]>>]
      <4> HIDE DEF Prev, Step, Ends
      <4> QED BY Zenon, <3>1, <1>3 DEF Solves
    <3>3. ASSUME NEW v \in Nat PROVE Step[<<b, v>>] = (b[1] % 128) + 128 * v
      BY <2>2
    <3>4. f[Tail(b)] \in Nat
      BY <3>1
    <3> HIDE DEF Step
    <3> QED BY <2>2, <3>2, <3>3, <3>4
  <2> QED BY <2>1, <2>2
<1>5. f = [b \in Bytes |-> IF b = <<>> THEN 0 ELSE (b[1] % 128) + 128 * f[Tail(b)]]
  BY <1>4
<1>6. idOf = [b \in Bytes |-> IF b = <<>> THEN 0 ELSE (b[1] % 128) + 128 * idOf[Tail(b)]]
  BY <1>5 DEF idOf
<1> QED BY Zenon, <1>6

\* A byte before a byte string.
LEMMA Prepended ==
  ASSUME NEW x \in 0..255, NEW b \in Bytes
  PROVE  /\ <<x>> \o b \in Bytes /\ <<x>> \o b # <<>> /\ Tail(<<x>> \o b) = b
         /\ (<<x>> \o b)[1] = x /\ Len(<<x>> \o b) = Len(b) + 1 /\ Len(b) \in Nat
         /\ \A i \in 1..Len(b) : (<<x>> \o b)[i + 1] = b[i]
<1>1. <<x>> \o b \in Bytes /\ Len(<<x>> \o b) = Len(b) + 1 /\ Len(b) \in Nat
  BY DEF Bytes
<1>2. (<<x>> \o b)[1] = x /\ \A i \in 1..Len(b) : (<<x>> \o b)[i + 1] = b[i]
  BY DEF Bytes
<1>3. <<x>> \o b # <<>>
  BY <1>1 DEF Bytes
<1>4. Tail(<<x>> \o b) = b
  BY DEF Bytes
<1> QED BY <1>1, <1>2, <1>3, <1>4

\* The bytes of an ID end at the first one below 128, and the ID is read back from them.
LEMMA IDSurvives ==
  ASSUME NEW n \in Nat
  PROVE  /\ idBytes[n] \in Bytes /\ idBytes[n] # <<>> /\ idOf[idBytes[n]] = n
         /\ idBytes[n][Len(idBytes[n])] < 128
         /\ \A i \in 1..(Len(idBytes[n]) - 1) : ~(idBytes[n][i] < 128)
<1> DEFINE P(k, b) == /\ b \in Bytes /\ b # <<>> /\ idOf[b] = k
                      /\ b[Len(b)] < 128
                      /\ \A i \in 1..(Len(b) - 1) : ~(b[i] < 128)
           T == {k \in Nat : ~P(k, idBytes[k])}
<1> SUFFICES ASSUME T # {} PROVE FALSE
  OBVIOUS
<1>1. PICK k \in T : \A y \in T : k <= y
  <2>1. T \subseteq Nat
    OBVIOUS
  <2> HIDE DEF T
  <2> QED BY Zenon, <2>1, LeastNumber
<1>2. k \in Nat /\ ~P(k, idBytes[k])
  OBVIOUS
<1>3. CASE k < 128
  <2>1. /\ idBytes[k] = <<k>> /\ <<k>> \in Bytes /\ <<k>> # <<>>
        /\ Tail(<<k>>) = <<>> /\ <<>> \in Bytes
    <3>1. idBytes[k] = <<k>>
      BY Zenon, <1>2, <1>3, idBytesEquation
    <3>2. <<k>> \in Bytes /\ <<>> \in Bytes
      <4>1. k \in 0..255
        BY <1>2, <1>3
      <4> QED BY <4>1 DEF Bytes
    <3>3. <<k>> # <<>> /\ Tail(<<k>>) = <<>>
      OBVIOUS
    <3> QED BY <3>1, <3>2, <3>3
  <2>2. idOf[<<>>] = 0 /\ idOf[<<k>>] = (k % 128) + 128 * idOf[<<>>]
    BY Zenon, <2>1, idOfEquation
  <2>3. P(k, <<k>>)
    BY <2>1, <2>2, <1>2, <1>3
  <2> QED BY <2>1, <2>3, <1>2
<1>4. CASE ~(k < 128)
  <2> DEFINE h == k \div 128
             l == k % 128
             b == idBytes[h]
             c == <<l + 128>> \o b
  <2>1. h \in Nat /\ h < k /\ l \in 0..127 /\ k = l + 128 * h /\ (l + 128) % 128 = l
    BY ONLY <1>2, <1>4
  <2>2. P(h, b)
    BY <2>1, <1>1
  <2>3. idBytes[k] = c
    BY Zenon, <1>2, <1>4, idBytesEquation
  <2> HIDE DEF h, l, b
  <2>4. c \in Bytes /\ c # <<>> /\ Tail(c) = b /\ c[1] = l + 128 /\ Len(c) = Len(b) + 1
        /\ Len(b) \in Nat \ {0}
    <3>1. l + 128 \in 0..255
      BY <2>1
    <3>2. Len(b) # 0
      BY <2>2 DEF Bytes
    <3>3. b \in Bytes
      BY <2>2
    <3> HIDE DEF P
    <3>4. c \in Bytes /\ c # <<>> /\ Tail(c) = b /\ c[1] = l + 128 /\ Len(c) = Len(b) + 1
          /\ Len(b) \in Nat
      <4> DEFINE y == l + 128
      <4> HIDE DEF y
      <4>1. y \in 0..255
        BY <3>1 DEF y
      <4>2. /\ <<y>> \o b \in Bytes /\ <<y>> \o b # <<>> /\ Tail(<<y>> \o b) = b
            /\ (<<y>> \o b)[1] = y /\ Len(<<y>> \o b) = Len(b) + 1 /\ Len(b) \in Nat
        BY ONLY Zenon, <4>1, <3>3, Prepended
      <4> QED BY ONLY <4>2, Zenon DEF y, c
    <3> QED BY <3>2, <3>4
  <2>5. \A i \in 1..Len(b) : c[i + 1] = b[i]
    <3>1. l + 128 \in 0..255
      BY <2>1
    <3>2. b \in Bytes
      BY <2>2
    <3> DEFINE y == l + 128
    <3> HIDE DEF P, y
    <3>3. y \in 0..255
      BY ONLY <3>1 DEF y
    <3>4. \A i \in 1..Len(b) : (<<y>> \o b)[i + 1] = b[i]
      BY ONLY <3>2, <3>3, Prepended
    <3> QED BY ONLY <3>4, Zenon DEF y, c
  <2>6. idOf[c] = k
    <3>1. idOf[c] = (c[1] % 128) + 128 * idOf[Tail(c)]
      BY Zenon, <2>4, idOfEquation
    <3>2. Tail(c) = b /\ c[1] = l + 128 /\ idOf[b] = h
      BY <2>2, <2>4
    <3> HIDE DEF c, P
    <3> QED BY ONLY <3>1, <3>2, <2>1
  <2>7. c[Len(c)] < 128
    BY <2>2, <2>4, <2>5
  <2>8. ASSUME NEW i \in 1..(Len(c) - 1) PROVE ~(c[i] < 128)
    <3>1. CASE i = 1
      BY <3>1, <2>1, <2>4
    <3>2. CASE i # 1
      <4>1. i - 1 \in 1..(Len(b) - 1) /\ c[i] = b[i - 1]
        <5>1. i - 1 \in 1..(Len(b) - 1) /\ (i - 1) + 1 = i /\ i - 1 \in 1..Len(b)
          BY <3>2, <2>4
        <5> QED BY <5>1, <2>5
      <4> QED BY <4>1, <2>2
    <3> QED BY <3>1, <3>2
  <2>9. P(k, c)
    <3> HIDE DEF c
    <3> QED BY <2>4, <2>6, <2>7, <2>8
  <2> HIDE DEF P, c
  <2> QED BY <2>3, <2>9, <1>2
<1> QED BY <1>3, <1>4

-----------------------------------------------------------------------------
\* The flag byte of a message of type t, with the bits c, e and z.
IsFlag(f, t, c, e, z) ==
  /\ t \in 0..2 /\ c \in BOOLEAN /\ e \in BOOLEAN /\ z \in BOOLEAN
  /\ f = t * 2 + Flag(msgRouteCompressMask, c) + Flag(errorMask, e) + Flag(gzipMask, z)

\* What Decode reads from it.
FlagReads(f, t, c, e, z) ==
  /\ f \in 0..255 /\ (f \div 2) % 8 = t
  /\ Has(f, msgRouteCompressMask) <=> c
  /\ Has(f, errorMask) <=> e
  /\ Has(f, gzipMask) <=> z

\* The bits of the flag byte are read back as they were set.
LEMMA FlagSurvives ==
  ASSUME NEW t, NEW c, NEW e, NEW z, NEW f, IsFlag(f, t, c, e, z)
  PROVE  FlagReads(f, t, c, e, z)
<1> t \in 0..2 /\ c \in BOOLEAN /\ e \in BOOLEAN /\ z \in BOOLEAN
  BY DEF IsFlag
<1>1. PICK x \in {0, 1}, y \in {0, 32}, w \in {0, 16} :
        /\ f = t * 2 + x + y + w
        /\ (c <=> x = 1) /\ (e <=> y = 32) /\ (z <=> w = 16)
  BY DEF IsFlag, Flag, msgRouteCompressMask, errorMask, gzipMask
<1>2. /\ f \in 0..255 /\ (f \div 2) % 8 = t
      /\ ((f \div 1) % 2 = 1) <=> (x = 1)
      /\ ((f \div 32) % 2 = 1) <=> (y = 32)
      /\ ((f \div 16) % 2 = 1) <=> (w = 16)
  BY <1>1
<1>3. (Has(f, 1) <=> c) /\ (Has(f, 32) <=> e) /\ (Has(f, 16) <=> z)
  BY <1>1, <1>2 DEF Has
<1> QED
  BY <1>2, <1>3 DEF FlagReads, msgRouteCompressMask, errorMask, gzipMask

\* A byte x, a byte string p and the rest, one after the other, are b.
Joins(b, x, p, rest) == b = (<<x>> \o p) \o rest

\* They are found where Decode looks for them.
Splits(b, x, p, rest) ==
  /\ b \in Bytes /\ Len(p) \in Nat /\ Len(rest) \in Nat
  /\ Len(b) = 1 + Len(p) + Len(rest) /\ b[1] = x
  /\ SubSeq(b, 2, 1 + Len(p)) = p /\ Drop(b, 1 + Len(p)) = rest
  /\ \A i \in 1..Len(p) : b[i + 1] = p[i]

\* What was joined can be split.
LEMMA JoinedSplits ==
  ASSUME NEW x \in 0..255, NEW p \in Bytes, NEW rest \in Bytes, NEW b, Joins(b, x, p, rest)
  PROVE  Splits(b, x, p, rest)
<1> DEFINE a == <<x>> \o p
<1>1. a \in Bytes /\ Len(a) = 1 + Len(p) /\ Len(p) \in Nat /\ a[1] = x
      /\ \A i \in 1..Len(p) : a[i + 1] = p[i]
  <2> HIDE DEF a
  <2>1. /\ a \in Bytes /\ a # <<>> /\ Tail(a) = p
        /\ a[1] = x /\ Len(a) = Len(p) + 1 /\ Len(p) \in Nat
        /\ \A i \in 1..Len(p) : a[i + 1] = p[i]
    BY Prepended, Zenon DEF a
  <2> QED BY <2>1
<1>2. b = a \o rest
  BY DEF Joins
<1> HIDE DEF a
<1>3. /\ b \in Bytes /\ Len(rest) \in Nat /\ Len(b) = Len(a) + Len(rest)
      /\ \A i \in 1..Len(a) : b[i] = a[i]
      /\ \A i \in 1..Len(rest) : b[Len(a) + i] = rest[i]
  <2>1. IsConcat(b, 0..255, a, rest)
    BY <1>1, <1>2, Concat DEF Bytes
  <2>2. Len(rest) \in Nat
    BY DEF Bytes
  <2> QED BY <2>1, <2>2 DEF IsConcat, Bytes
<1>4. b[1] = x /\ \A i \in 1..Len(p) : b[i + 1] = p[i]
  BY <1>1, <1>3
<1>5. SubSeq(b, 2, 1 + Len(p)) = p
  <2> DEFINE j == 1 + Len(p)
             u == SubSeq(b, 2, j)
  <2>1. u \in Bytes /\ Len(u) = Len(p) /\ \A i \in 1..Len(p) : u[i] = b[i + 1]
    <3>1. b \in Seq(0..255) /\ j \in Nat /\ 2 \in Nat /\ 1 <= 2 /\ 2 <= j + 1 /\ j <= Len(b)
      BY <1>1, <1>3 DEF Bytes
    <3> HIDE DEF j
    <3>2. IsPart(u, 0..255, b, 2, j)
      BY <3>1, Between
    <3> HIDE DEF u
    <3> QED BY <3>2, <1>1 DEF Bytes, j, IsPart
  <2> HIDE DEF u
  <2>2. \A i \in 1..Len(p) : u[i] = p[i]
    BY <2>1, <1>4
  <2>3. u = p
    BY <2>1, <2>2, SameSeq DEF Bytes
  <2> QED BY <2>3 DEF u
<1>6. Drop(b, 1 + Len(p)) = rest
  <2> DEFINE i0 == 1 + Len(p) + 1
             j == Len(b)
             u == SubSeq(b, i0, j)
  <2>1. u \in Bytes /\ Len(u) = Len(rest) /\ \A i \in 1..Len(rest) : u[i] = b[Len(a) + i]
    <3>1. b \in Seq(0..255) /\ i0 \in Nat /\ j \in Nat /\ 1 <= i0 /\ i0 <= j + 1 /\ j <= Len(b)
      BY <1>1, <1>3 DEF Bytes
    <3> HIDE DEF i0, j
    <3>2. IsPart(u, 0..255, b, i0, j)
      BY <3>1, Between
    <3> HIDE DEF u
    <3>3. u \in Bytes /\ Len(u) = Len(rest)
      BY <3>2, <1>1, <1>3 DEF Bytes, i0, j, IsPart
    <3>4. ASSUME NEW i \in 1..Len(rest) PROVE u[i] = b[Len(a) + i]
      <4>1. i \in 1..(j + 1 - i0) /\ i0 + i - 1 = Len(a) + i
        BY <1>1, <1>3 DEF i0, j
      <4> QED BY <3>2, <4>1 DEF IsPart
    <3> QED BY <3>3, <3>4
  <2> HIDE DEF u
  <2>2. \A i \in 1..Len(rest) : u[i] = rest[i]
    BY <2>1, <1>3
  <2>3. u = rest
    BY <2>1, <2>2, SameSeq DEF Bytes
  <2> QED BY <2>3 DEF u, Drop
<1> QED BY <1>1, <1>3, <1>4, <1>5, <1>6 DEF Splits

\* The bytes of the ID in a message of type t.
IDPart(t, n) == IF hasID(t) THEN idBytes[n] ELSE <<>>

\* What Decode has read before the route.
Header(t, x, n) ==
  [err |-> "", Type |-> t, Err |-> Has(x, errorMask), ID |-> IF hasID(t) THEN n ELSE 0,
   Route |-> <<>>, Data |-> <<>>]

\* The bytes b are flag x, of type t, the ID n if there is one, and the rest.
IsHeaded(b, t, x, n, rest) ==
  /\ t \in 0..2 /\ x \in 0..255 /\ (x \div 2) % 8 = t /\ n \in Nat /\ rest \in Bytes
  /\ Joins(b, x, IDPart(t, n), rest) /\ Len(b) >= 2

\* Decode reads the flag and the ID as they were written and goes on with the rest.
LEMMA HeaderDecoded ==
  ASSUME NEW t, NEW x, NEW n, NEW rest, NEW b, NEW cds, IsHeaded(b, t, x, n, rest)
  PROVE  decode(b, cds) = decodeRoute(Header(t, x, n), x, rest, cds)
<1> /\ t \in 0..2 /\ x \in 0..255 /\ (x \div 2) % 8 = t /\ n \in Nat /\ rest \in Bytes
    /\ Joins(b, x, IDPart(t, n), rest) /\ Len(b) >= 2
  BY DEF IsHeaded
<1> DEFINE id == IDPart(t, n)
           ends == {i \in 2..Len(b) : b[i] < 128}
           end == CHOOSE i \in ends : \A j \in ends : i <= j
           last == IF ~hasID(t) THEN 1 ELSE IF ends = {} THEN Len(b) ELSE end
           m(v) == [err |-> "", Type |-> t, Err |-> Has(x, errorMask),
                    ID |-> v, Route |-> <<>>, Data |-> <<>>]
           read(f, u) ==
             LET l == IF ~hasID(u) THEN 1 ELSE IF ends = {} THEN Len(b) ELSE end
             IN IF Len(b) < msgHeadLength THEN Fail("invalid message")
                ELSE IF invalidType(u) THEN Fail("wrong message type")
                ELSE decodeRoute([err |-> "", Type |-> u, Err |-> Has(f, errorMask),
                                  ID |-> idOf[SubSeq(b, 2, l)], Route |-> <<>>, Data |-> <<>>],
                                 f, Drop(b, IF hasID(u) /\ ends = {} THEN 1 ELSE l), cds)
<1>1. id \in Bytes /\ idOf[id] = IF hasID(t) THEN n ELSE 0
  <2>1. CASE hasID(t)
    BY <2>1, IDSurvives DEF IDPart
  <2>2. CASE ~hasID(t)
    <3>1. <<>> \in Bytes
      BY DEF Bytes
    <3> QED BY <3>1, <2>2, idOfEquation DEF IDPart
  <2> QED BY <2>1, <2>2
<1>9. Joins(b, x, id, rest)
  OBVIOUS
<1> HIDE DEF id
<1>2. /\ b \in Bytes /\ Len(id) \in Nat /\ Len(rest) \in Nat
      /\ Len(b) = 1 + Len(id) + Len(rest) /\ b[1] = x
      /\ SubSeq(b, 2, 1 + Len(id)) = id /\ Drop(b, 1 + Len(id)) = rest
      /\ \A i \in 1..Len(id) : b[i + 1] = id[i]
  <2>1. Splits(b, x, id, rest)
    BY Zenon, <1>1, <1>9, JoinedSplits
  <2> QED BY <2>1 DEF Splits
<1>3. last = 1 + Len(id) /\ (hasID(t) => ends # {})
  <2>1. CASE ~hasID(t)
    <3>1. last = 1
      BY <2>1
    <3>2. id = <<>> /\ Len(<<>>) = 0
      BY <2>1 DEF id, IDPart
    <3> HIDE DEF last
    <3> QED BY <2>1, <3>1, <3>2
  <2>2. CASE hasID(t)
    <3>1. id # <<>> /\ id[Len(id)] < 128 /\ \A i \in 1..(Len(id) - 1) : ~(id[i] < 128)
      BY <2>2, IDSurvives DEF id, IDPart
    <3>2. Len(id) # 0
      BY <3>1, <1>1 DEF Bytes
    <3>3. 1 + Len(id) \in ends
      BY <3>1, <3>2, <1>2
    <3>4. ASSUME NEW j \in ends PROVE 1 + Len(id) <= j
      <4>1. SUFFICES ASSUME j <= Len(id) PROVE FALSE
        BY <1>2
      <4>2. j - 1 \in 1..(Len(id) - 1) /\ j - 1 \in 1..Len(id) /\ (j - 1) + 1 = j
        BY <4>1, <1>2
      <4>3. b[j] = id[j - 1]
        BY <4>2, <1>2
      <4> QED BY <4>2, <4>3, <3>1
    <3>5. end = 1 + Len(id)
      <4>1. ends \subseteq Nat
        OBVIOUS
      <4> HIDE DEF ends
      <4>2. end \in ends /\ \A j \in ends : end <= j
        BY <3>3, <3>4
      <4> HIDE DEF end
      <4> QED BY <3>3, <3>4, <4>1, <4>2, <1>2
    <3> HIDE DEF end, ends
    <3> QED BY <2>2, <3>3, <3>5
  <2> QED BY <2>1, <2>2
<1>4. ~invalidType(t)
  BY DEF invalidType, Response
<1>5. read(x, t) =
        IF Len(b) < msgHeadLength THEN Fail("invalid message")
        ELSE IF invalidType(t) THEN Fail("wrong message type")
        ELSE decodeRoute(m(idOf[SubSeq(b, 2, last)]), x,
                         Drop(b, IF hasID(t) /\ ends = {} THEN 1 ELSE last), cds)
  OBVIOUS
<1>8. decode(b, cds) = read(x, t)
  <2>1. decode(b, cds) = read(b[1], (b[1] \div 2) % 8)
    BY Zenon DEF decode
  <2> HIDE DEF read
  <2> QED BY <2>1, <1>2, Zenon
<1> HIDE DEF ends, end, last, read
<1>6. ~(Len(b) < msgHeadLength)
  BY <1>2 DEF msgHeadLength
<1>7. decode(b, cds) = decodeRoute(m(idOf[id]), x, rest, cds)
  <2>1. (IF hasID(t) /\ ends = {} THEN 1 ELSE last) = 1 + Len(id)
    BY <1>3
  <2> HIDE DEF m
  <2> QED BY <2>1, <1>2, <1>3, <1>4, <1>5, <1>6, <1>8, Zenon
<1> QED BY Zenon, <1>1, <1>7 DEF Header

\* The bytes of the route r in a message of type t, with the dictionary rts.
RoutePart(t, r, rts) ==
  IF ~routable(t) THEN <<>>
  ELSE IF r \in DOMAIN rts THEN <<rts[r] \div 256, rts[r] % 256>>
  ELSE <<Len(r) % 256>> \o r

\* The dictionary cds of a receiver knows the route r as rts does.
Known(r, rts, cds) ==
  r \in DOMAIN rts => /\ rts[r] \in Nat /\ rts[r] <= MaxUint16
                      /\ rts[r] \in DOMAIN cds /\ cds[rts[r]] = r

\* The low byte of a number.
LEMMA LowByte ==
  ASSUME NEW n \in Nat
  PROVE  n % 256 \in 0..255
OBVIOUS

\* The high and the low byte of c.
AreBytesOf(h, l, c) == h \in 0..255 /\ l \in 0..255 /\ c = h * 256 + l

\* The two bytes of a uint16.
LEMMA TwoBytes ==
  ASSUME NEW c \in Nat, c <= MaxUint16
  PROVE  AreBytesOf(c \div 256, c % 256, c)
<1>1. c < 65536
  BY DEF MaxUint16
<1>2. c \div 256 \in Nat /\ c \div 256 < 256 /\ c % 256 \in Nat /\ c % 256 < 256
      /\ c = (c \div 256) * 256 + (c % 256)
  BY <1>1
<1> QED BY <1>2 DEF AreBytesOf

\* The values of a byte.
LEMMA IsByte ==
  ASSUME NEW n \in Nat, n < 256
  PROVE  n \in 0..255 /\ n % 256 = n
<1>1. n \in 0..255
  OBVIOUS
<1>2. n % 256 = n
  OBVIOUS
<1> QED BY <1>1, <1>2

\* Concatenation is associative.
LEMMA Associative ==
  ASSUME NEW S, NEW s \in Seq(S), NEW t \in Seq(S), NEW u \in Seq(S)
  PROVE  (s \o t) \o u = s \o (t \o u)
OBVIOUS

\* Two elements are one followed by another.
LEMMA Pair ==
  ASSUME NEW S, NEW h \in S, NEW l \in S
  PROVE  <<h, l>> = <<h>> \o <<l>>
<1> DEFINE a == <<h, l>>
           b == <<h>> \o <<l>>
<1>1. a \in Seq(S) /\ Len(a) = 2 /\ a[1] = h /\ a[2] = l
  OBVIOUS
<1>2. b \in Seq(S) /\ Len(b) = 2 /\ b[1] = h /\ b[2] = l
  OBVIOUS
<1> HIDE DEF a, b
<1>3. \A i \in 1..Len(a) : a[i] = b[i]
  <2>1. 1..2 = {1, 2}
    OBVIOUS
  <2> QED BY <1>1, <1>2, <2>1
<1>4. a = b
  BY <1>1, <1>2, <1>3, SameSeq
<1> QED BY <1>4 DEF a, b

\* Decode takes a message without a route for what it is, ...
LEMMA NoRoute ==
  ASSUME NEW m, ~routable(m.Type), NEW x, NEW b, NEW cds
  PROVE  decodeRoute(m, x, b, cds) = decodeData(m, Has(x, gzipMask), b)
BY DEF decodeRoute

\* ... reads the code of a route and finds the route, ...
LEMMA CodedRoute ==
  ASSUME NEW m, routable(m.Type), NEW x, Has(x, msgRouteCompressMask),
         NEW c \in Nat, NEW h, NEW l, AreBytesOf(h, l, c),
         NEW cds, c \in DOMAIN cds, NEW left \in Bytes, NEW b, Joins(b, h, <<l>>, left)
  PROVE  decodeRoute(m, x, b, cds) =
           decodeData([m EXCEPT !.Route = cds[c]], Has(x, gzipMask), left)
<1> DEFINE code == b[1] * 256 + b[2]
           p == <<l>>
<1>1. p \in Bytes /\ Len(p) = 1 /\ p[1] = l
  BY DEF Bytes, AreBytesOf
<1>2. Joins(b, h, p, left)
  OBVIOUS
<1> HIDE DEF p
<1>3. Splits(b, h, p, left)
  BY <1>1, <1>2, JoinedSplits DEF AreBytesOf
<1>4. 1 + 1 = 2 /\ 1 \in 1..1
  OBVIOUS
<1>5. /\ Len(left) \in Nat /\ Len(b) = 1 + 1 + Len(left) /\ b[1] = h
      /\ Drop(b, 1 + 1) = left /\ b[1 + 1] = l
  BY <1>1, <1>3, <1>4, Zenon DEF Splits
<1>6. ~(Len(b) < 2) /\ code = c /\ Drop(b, 2) = left
  BY <1>4, <1>5 DEF AreBytesOf
<1>7. decodeRoute(m, x, b, cds) =
        IF Len(b) < 2 THEN Fail("invalid message")
        ELSE IF code \notin DOMAIN cds THEN Fail("route info not found")
        ELSE decodeData([m EXCEPT !.Route = cds[code]], Has(x, gzipMask), Drop(b, 2))
  BY DEF decodeRoute
<1> HIDE DEF code
<1> QED BY <1>6, <1>7, Zenon

\* ... or reads the route itself.
LEMMA PlainRoute ==
  ASSUME NEW m, routable(m.Type), NEW x, ~Has(x, msgRouteCompressMask),
         NEW r \in Bytes, Len(r) < 256, NEW left \in Bytes, NEW cds, NEW b,
         Joins(b, Len(r), r, left)
  PROVE  decodeRoute(m, x, b, cds) =
           decodeData([m EXCEPT !.Route = r], Has(x, gzipMask), left)
<1> DEFINE l == Len(r)
<1>1. l \in 0..255
  <2>1. Len(r) \in Nat
    BY DEF Bytes
  <2> QED BY <2>1, IsByte, Zenon
<1>3. Splits(b, l, r, left)
  <2>1. Joins(b, l, r, left)
    OBVIOUS
  <2> HIDE DEF l
  <2> QED BY <1>1, <2>1, JoinedSplits
<1>4. /\ Len(left) \in Nat /\ Len(b) = 1 + l + Len(left) /\ b[1] = l /\ b \in Bytes
      /\ SubSeq(b, 2, 1 + l) = r /\ Drop(b, 1 + l) = left
  BY <1>3 DEF Splits
<1> HIDE DEF l
<1>5. b # <<>> /\ ~(Len(b) < 1 + b[1])
  <2>1. Len(b) # 0 /\ Len(<<>>) = 0
    BY <1>1, <1>4
  <2>2. ~(Len(b) < 1 + l)
    BY <1>1, <1>4
  <2> QED BY <2>1, <2>2, <1>4, Zenon
<1>6. decodeRoute(m, x, b, cds) =
        IF b = <<>> THEN Fail("index out of range")
        ELSE IF Len(b) < 1 + b[1] THEN Fail("invalid message")
        ELSE decodeData([m EXCEPT !.Route = SubSeq(b, 2, 1 + b[1])], Has(x, gzipMask),
                        Drop(b, 1 + b[1]))
  BY DEF decodeRoute
<1> QED BY <1>4, <1>5, <1>6, Zenon

\* The bytes of a route are not empty.
LEMMA RouteTyped ==
  ASSUME NEW t, NEW r \in Bytes, NEW rts, NEW cds, Known(r, rts, cds)
  PROVE  RoutePart(t, r, rts) \in Bytes /\ (routable(t) => RoutePart(t, r, rts) # <<>>)
<1>1. CASE ~routable(t)
  BY <1>1 DEF RoutePart, Bytes
<1>2. CASE routable(t) /\ r \in DOMAIN rts
  <2> DEFINE c == rts[r]
  <2>1. c \in Nat /\ c <= MaxUint16
    BY <1>2, Zenon DEF Known
  <2> HIDE DEF c
  <2>2. c \div 256 \in 0..255 /\ c % 256 \in 0..255
    BY <2>1, TwoBytes DEF AreBytesOf
  <2>3. <<c \div 256, c % 256>> \in Bytes /\ <<c \div 256, c % 256>> # <<>>
    BY <2>2 DEF Bytes
  <2> QED BY <2>3, <1>2 DEF RoutePart, c
<1>3. CASE routable(t) /\ r \notin DOMAIN rts
  <2> DEFINE l == Len(r) % 256
  <2>1. l \in 0..255
    <3>1. Len(r) \in Nat
      BY DEF Bytes
    <3> QED BY <3>1, LowByte, Zenon
  <2> HIDE DEF l
  <2>2. <<l>> \o r \in Bytes /\ <<l>> \o r # <<>>
    BY Zenon, <2>1, Prepended
  <2> QED BY <2>2, <1>3 DEF RoutePart, l
<1> QED BY <1>1, <1>2, <1>3

\* A route that is written itself has a length that fits a byte.
PlainIsShort(t, r, rts) == routable(t) /\ r \notin DOMAIN rts => Len(r) < 256

\* Decode reads the route as it was written and goes on with the data.
LEMMA RouteRead ==
  ASSUME NEW m, NEW x, NEW r \in Bytes, NEW rts, NEW cds, Known(r, rts, cds),
         Has(x, msgRouteCompressMask) <=> r \in DOMAIN rts,
         PlainIsShort(m.Type, r, rts), NEW left \in Bytes
  PROVE  decodeRoute(m, x, RoutePart(m.Type, r, rts) \o left, cds) =
           decodeData(IF routable(m.Type) THEN [m EXCEPT !.Route = r] ELSE m,
                      Has(x, gzipMask), left)
<1>1. CASE ~routable(m.Type)
  <2>1. RoutePart(m.Type, r, rts) \o left = left
    BY <1>1 DEF RoutePart, Bytes
  <2> QED BY <1>1, <2>1, NoRoute
<1>2. CASE routable(m.Type) /\ r \in DOMAIN rts
  <2> DEFINE c == rts[r]
             h == c \div 256
             l == c % 256
             b == <<h, l>> \o left
  <2>1. c \in Nat /\ c <= MaxUint16 /\ c \in DOMAIN cds /\ cds[c] = r
    BY <1>2, Zenon DEF Known
  <2>2. RoutePart(m.Type, r, rts) \o left = b
    BY <1>2 DEF RoutePart
  <2>3. AreBytesOf(h, l, c)
    <3> HIDE DEF c
    <3> QED BY <2>1, TwoBytes
  <2> HIDE DEF h, l, c
  <2>4. Joins(b, h, <<l>>, left)
    <3>1. <<h, l>> = <<h>> \o <<l>>
      BY Zenon, <2>3, Pair DEF AreBytesOf
    <3> QED BY <3>1 DEF Joins
  <2> HIDE DEF b
  <2>5. decodeRoute(m, x, b, cds) = decodeData([m EXCEPT !.Route = cds[c]], Has(x, gzipMask), left)
    BY <1>2, <2>1, <2>3, <2>4, CodedRoute
  <2> QED BY <1>2, <2>1, <2>2, <2>5
<1>3. CASE routable(m.Type) /\ r \notin DOMAIN rts
  <2> DEFINE b == RoutePart(m.Type, r, rts) \o left
  <2>1. Len(r) \in Nat /\ Len(r) < 256
    BY <1>3 DEF Bytes, PlainIsShort
  <2>2. Len(r) % 256 = Len(r)
    BY <2>1, IsByte
  <2>3. Joins(b, Len(r), r, left)
    BY <1>3, <2>2 DEF RoutePart, Joins
  <2> HIDE DEF b
  <2>4. decodeRoute(m, x, b, cds) = decodeData([m EXCEPT !.Route = r], Has(x, gzipMask), left)
    BY <1>3, <2>1, <2>3, PlainRoute
  <2> QED BY <1>3, <2>4 DEF b
<1> QED BY <1>1, <1>2, <1>3

\* What Decode should find of message o.
Read(o) ==
  [err |-> "", Type |-> o.Type, Err |-> o.Err, ID |-> IF hasID(o.Type) THEN o.ID ELSE 0,
   Route |-> IF routable(o.Type) THEN o.Route ELSE <<>>, Data |-> o.Data]

\* The bytes of message o, made with the dictionary rts, have this flag and this data.
IsEncoding(bytes, o, rts, flag, left) ==
  /\ flag \in 0..255 /\ (flag \div 2) % 8 = o.Type
  /\ Has(flag, msgRouteCompressMask) <=> o.Route \in DOMAIN rts
  /\ Has(flag, errorMask) <=> o.Err
  /\ left \in Bytes
  /\ IF Has(flag, gzipMask) THEN Inflate(left) = <<o.Data>> ELSE left = o.Data
  /\ RoutePart(o.Type, o.Route, rts) \o left \in Bytes
  /\ Joins(bytes, flag, IDPart(o.Type, o.ID), RoutePart(o.Type, o.Route, rts) \o left)
  /\ Len(bytes) >= 2 /\ bytes[1] = flag

\* The fields of a message.
LEMMA MessageFields ==
  ASSUME NEW o \in Messages
  PROVE  /\ o.ID \in Nat /\ o.Route \in Bytes /\ o.Data \in Bytes /\ o.Err \in BOOLEAN
         /\ Deflate(o.Data) \in Bytes /\ Inflate(Deflate(o.Data)) = <<o.Data>>
BY CodecAssumption

\* Encode writes the flag, the ID, the route and the data.
LEMMA Encoded ==
  ASSUME NEW o \in Messages, o.Type \in 0..2, NEW rts, NEW cds, Known(o.Route, rts, cds),
         NEW z \in BOOLEAN
  PROVE  \E flag, left : IsEncoding(encode(o, rts, z).bytes, o, rts, flag, left)
<1> DEFINE t == o.Type
           compressed == o.Route \in DOMAIN rts
           d == Deflate(o.Data)
           shorter == z /\ Len(d) < Len(o.Data)
           left == IF shorter THEN d ELSE o.Data
           flag == t * 2 + Flag(msgRouteCompressMask, compressed)
                     + Flag(errorMask, o.Err) + Flag(gzipMask, shorter)
           id == IDPart(t, o.ID)
           route == RoutePart(t, o.Route, rts)
           rest == route \o left
           bytes == encode(o, rts, z).bytes
<1>1. bytes = ((<<flag>> \o id) \o route) \o left
  BY Zenon DEF encode, IDPart, RoutePart
<1>2. left \in Bytes /\ IF shorter THEN Inflate(left) = <<o.Data>> ELSE left = o.Data
  BY MessageFields
<1>3. /\ flag \in 0..255 /\ (flag \div 2) % 8 = t
      /\ Has(flag, msgRouteCompressMask) <=> compressed
      /\ Has(flag, errorMask) <=> o.Err
      /\ Has(flag, gzipMask) <=> shorter
  <2> DEFINE e == o.Err
  <2>2. t \in 0..2 /\ e \in BOOLEAN /\ compressed \in BOOLEAN /\ shorter \in BOOLEAN
    BY MessageFields
  <2>1. IsFlag(flag, t, compressed, e, shorter)
    BY <2>2 DEF IsFlag
  <2> HIDE DEF compressed, shorter, t, flag, e
  <2>3. FlagReads(flag, t, compressed, e, shorter)
    BY ONLY <2>1, FlagSurvives, Zenon
  <2> QED BY <2>3 DEF FlagReads, e
<1>4. id \in Bytes /\ (hasID(t) => id # <<>>)
  <2>1. CASE hasID(t)
    BY <2>1, MessageFields, IDSurvives DEF IDPart
  <2>2. CASE ~hasID(t)
    BY <2>2 DEF IDPart, Bytes
  <2> QED BY <2>1, <2>2
<1>5. route \in Bytes /\ (routable(t) => route # <<>>)
  BY MessageFields, RouteTyped, Zenon
<1>6. t \in 0..2 /\ (hasID(t) \/ routable(t))
  BY DEF hasID, routable, Request, Response, Notify
<1> HIDE DEF flag, left, id, route, bytes
<1>7. rest \in Bytes /\ Len(rest) = Len(route) + Len(left)
  <2>1. IsConcat(rest, 0..255, route, left)
    BY <1>2, <1>5, Concat DEF Bytes
  <2> HIDE DEF rest
  <2> QED BY <2>1 DEF IsConcat, Bytes
<1>8. Joins(bytes, flag, id, rest)
  <2> DEFINE a == <<flag>> \o id
  <2>1. a \in Bytes
    BY <1>3, <1>4, Prepended, Zenon
  <2>2. (a \o route) \o left = a \o (route \o left)
    <3>1. a \in Seq(0..255) /\ route \in Seq(0..255) /\ left \in Seq(0..255)
      BY <1>2, <1>5, <2>1, Zenon DEF Bytes
    <3> HIDE DEF a
    <3> QED BY ONLY <3>1, Associative
  <2> QED BY <2>2, <1>1 DEF Joins
<1> HIDE DEF rest
<1>9. Splits(bytes, flag, id, rest)
  BY <1>3, <1>4, <1>7, <1>8, JoinedSplits
<1>10. Len(bytes) >= 2 /\ bytes[1] = flag
  <2>1. Len(id) \in Nat /\ Len(route) \in Nat /\ Len(left) \in Nat
    BY <1>2, <1>4, <1>5 DEF Bytes
  <2>2. Len(id) # 0 \/ Len(route) # 0
    BY <1>4, <1>5, <1>6 DEF Bytes
  <2>3. Len(bytes) = 1 + Len(id) + Len(rest) /\ bytes[1] = flag
    BY <1>9 DEF Splits
  <2> QED BY <1>7, <2>1, <2>2, <2>3
<1>11. IF Has(flag, gzipMask) THEN Inflate(left) = <<o.Data>> ELSE left = o.Data
  <2> HIDE DEF shorter
  <2> QED BY <1>2, <1>3
<1>12. IsEncoding(bytes, o, rts, flag, left)
  BY Zenon, <1>2, <1>3, <1>7, <1>8, <1>10, <1>11 DEF IsEncoding, rest, id, route
<1> QED BY <1>12 DEF bytes

\* A message that is encoded whole is decoded with all of its fields, by a receiver that
\* knows its route, compressed or not.
LEMMA MessageSurvives ==
  ASSUME NEW o \in Messages, o.Type \in 0..2, NEW rts, NEW cds, Known(o.Route, rts, cds),
         PlainIsShort(o.Type, o.Route, rts),
         NEW bytes, NEW flag, NEW left, IsEncoding(bytes, o, rts, flag, left)
  PROVE  decode(bytes, cds) = Read(o)
<1> DEFINE t == o.Type
           i == o.ID
           r == o.Route
           rest == RoutePart(t, r, rts) \o left
           m == Header(t, flag, i)
           n == IF routable(t) THEN [m EXCEPT !.Route = r] ELSE m
<1>1. t \in 0..2 /\ i \in Nat /\ r \in Bytes
  BY MessageFields
<1>2. /\ flag \in 0..255 /\ (flag \div 2) % 8 = t /\ rest \in Bytes
      /\ Joins(bytes, flag, IDPart(t, i), rest) /\ Len(bytes) >= 2
      /\ Has(flag, msgRouteCompressMask) <=> r \in DOMAIN rts
      /\ left \in Bytes
  BY Zenon DEF IsEncoding
<1>3. Known(r, rts, cds) /\ PlainIsShort(t, r, rts)
  OBVIOUS
<1> HIDE DEF t, i, r
<1>4. decode(bytes, cds) = decodeRoute(m, flag, rest, cds)
  <2>1. IsHeaded(bytes, t, flag, i, rest)
    BY <1>1, <1>2, Zenon DEF IsHeaded
  <2> HIDE DEF rest, m
  <2>2. decode(bytes, cds) = decodeRoute(Header(t, flag, i), flag, rest, cds)
    BY <2>1, HeaderDecoded
  <2> QED BY <2>2, Zenon DEF m
<1>5. decodeRoute(m, flag, rest, cds) = decodeData(n, Has(flag, gzipMask), left)
  <2>1. m.Type = t
    BY DEF Header
  <2>2. PlainIsShort(m.Type, r, rts) /\ rest = RoutePart(m.Type, r, rts) \o left
    BY <2>1, <1>3
  <2>3. n = IF routable(m.Type) THEN [m EXCEPT !.Route = r] ELSE m
    BY <2>1
  <2> HIDE DEF m, rest, n
  <2> QED BY <1>1, <1>2, <1>3, <2>2, <2>3, RouteRead
<1>6. decodeData(n, Has(flag, gzipMask), left) = [n EXCEPT !.Data = o.Data]
  <2> HIDE DEF n
  <2>1. CASE ~Has(flag, gzipMask)
    BY <2>1 DEF IsEncoding, decodeData
  <2>2. CASE Has(flag, gzipMask)
    <3>1. Inflate(left) = <<o.Data>>
      BY <2>2 DEF IsEncoding
    <3>2. <<o.Data>> # <<>> /\ <<o.Data>>[1] = o.Data
      OBVIOUS
    <3> QED BY <2>2, <3>1, <3>2, Zenon DEF decodeData
  <2> QED BY <2>1, <2>2
<1>7. [n EXCEPT !.Data = o.Data] = Read(o)
  <2> DEFINE e == o.Err
             v == o.Data
             j == IF hasID(t) THEN i ELSE 0
             none == ""
  <2>1. Has(flag, errorMask) = e
    <3>1. Has(flag, errorMask) \in BOOLEAN
      BY DEF Has
    <3>2. o.Err \in BOOLEAN
      BY MessageFields
    <3> QED BY <3>1, <3>2 DEF IsEncoding
  <2>2. m = [err |-> none, Type |-> t, Err |-> e, ID |-> j, Route |-> <<>>, Data |-> <<>>]
    BY <2>1 DEF Header
  <2>3. Read(o) = [err |-> none, Type |-> t, Err |-> e, ID |-> j,
                   Route |-> IF routable(t) THEN r ELSE <<>>, Data |-> v]
    BY DEF Read, t, r, i
  <2> HIDE DEF m, e, v, j, none
  <2>4. [n EXCEPT !.Data = v] = Read(o)
    BY <2>2, <2>3
  <2> QED BY <2>4 DEF v
<1> QED BY <1>4, <1>5, <1>6, <1>7

-----------------------------------------------------------------------------
(* The dictionary of routes *)

\* The two maps of one process, r from routes to codes and c back, are inverse.
Inverses(r, c) ==
  /\ \A x \in DOMAIN r : r[x] \in DOMAIN c /\ c[r[x]] = x
  /\ \A y \in DOMAIN c : c[y] \in DOMAIN r /\ r[c[y]] = y

\* They are, in every process, and the codes are uint16 codes.
DictInv ==
  /\ routes = [p \in Procs |-> routes[p]] /\ codes = [p \in Procs |-> codes[p]]
  /\ \A p \in Procs : /\ Inverses(routes[p], codes[p])
                       /\ \A x \in DOMAIN routes[p] : routes[p][x] \in Codes

\* The map f is a part of g.
Within(f, g) == \A x \in DOMAIN f : x \in DOMAIN g /\ g[x] = f[x]

\* No process forgets a route or a code, or changes what it stands for.
Grows == \A p \in Procs : Within(routes[p], routes'[p]) /\ Within(codes[p], codes'[p])

\* The maps r and c are made of r0 and c0 and of the entries of `done'.
Joined(r, c, r0, c0, done) ==
  /\ \A e \in done : /\ Trim(e[1]) \in DOMAIN r /\ r[Trim(e[1])] = e[2]
                     /\ e[2] \in DOMAIN c /\ c[e[2]] = Trim(e[1])
  /\ \A x \in DOMAIN r0 : x \in DOMAIN r /\ r[x] = r0[x]
  /\ \A y \in DOMAIN c0 : y \in DOMAIN c /\ c[y] = c0[y]
  /\ \A x \in DOMAIN r : x \in DOMAIN r0 \/ \E e \in done : x = Trim(e[1])
  /\ \A y \in DOMAIN c : y \in DOMAIN c0 \/ \E e \in done : y = e[2]

\* They are inverse when r0 and c0 are.
LEMMA InversesExtended ==
  ASSUME NEW r0, NEW c0, Inverses(r0, c0), NEW done, NEW r, NEW c, Joined(r, c, r0, c0, done)
  PROVE  Inverses(r, c)
BY DEF Inverses, Joined

\* They contain r0 and c0.
LEMMA JoinedContains ==
  ASSUME NEW r0, NEW c0, NEW done, NEW r, NEW c, Joined(r, c, r0, c0, done)
  PROVE  Within(r0, r) /\ Within(c0, c)
BY Zenon DEF Within, Joined

\* SetDictionary makes the two maps of the old ones and of entries that fit.
LEMMA EntriesFit ==
  ASSUME NEW p \in Procs, NEW done, Fits(p, done),
         NEW r, NEW c,
         r = [x \in DOMAIN routes[p] \cup RoutesOf(done) |->
                IF x \in RoutesOf(done) THEN (CHOOSE e \in done : Trim(e[1]) = x)[2]
                ELSE routes[p][x]],
         c = [y \in DOMAIN codes[p] \cup CodesOf(done) |->
                IF y \in CodesOf(done) THEN Trim((CHOOSE e \in done : e[2] = y)[1])
                ELSE codes[p][y]]
  PROVE  Joined(r, c, routes[p], codes[p], done)
<1> DEFINE ofRoute(x) == CHOOSE e \in done : Trim(e[1]) = x
           ofCode(y) == CHOOSE e \in done : e[2] = y
<1>1. \A x \in RoutesOf(done) : ofRoute(x) \in done /\ Trim(ofRoute(x)[1]) = x
  BY DEF RoutesOf
<1>2. \A y \in CodesOf(done) : ofCode(y) \in done /\ ofCode(y)[2] = y
  BY DEF CodesOf
<1>3. /\ \A x \in RoutesOf(done) : x \in DOMAIN r /\ r[x] = ofRoute(x)[2]
      /\ \A x \in DOMAIN routes[p] \ RoutesOf(done) : x \in DOMAIN r /\ r[x] = routes[p][x]
      /\ DOMAIN r = DOMAIN routes[p] \cup RoutesOf(done)
  OBVIOUS
<1>4. /\ \A y \in CodesOf(done) : y \in DOMAIN c /\ c[y] = Trim(ofCode(y)[1])
      /\ \A y \in DOMAIN codes[p] \ CodesOf(done) : y \in DOMAIN c /\ c[y] = codes[p][y]
      /\ DOMAIN c = DOMAIN codes[p] \cup CodesOf(done)
  OBVIOUS
<1>5. /\ \A e \in done : Trim(e[1]) \in RoutesOf(done) /\ e[2] \in CodesOf(done)
      /\ \A e \in done : Trim(e[1]) \notin DOMAIN routes[p] /\ e[2] \notin DOMAIN codes[p]
      /\ \A e, f \in done : Trim(e[1]) = Trim(f[1]) \/ e[2] = f[2] => e = f
  BY DEF Fits, RoutesOf, CodesOf
<1> HIDE DEF ofRoute, ofCode
<1>6. ASSUME NEW e \in done
      PROVE  /\ Trim(e[1]) \in DOMAIN r /\ r[Trim(e[1])] = e[2]
             /\ e[2] \in DOMAIN c /\ c[e[2]] = Trim(e[1])
  <2>1. Trim(e[1]) \in RoutesOf(done) /\ e[2] \in CodesOf(done)
    BY Zenon, <1>5
  <2>2. ofRoute(Trim(e[1])) \in done /\ Trim(ofRoute(Trim(e[1]))[1]) = Trim(e[1])
    BY Zenon, <1>1, <2>1
  <2>3. ofCode(e[2]) \in done /\ ofCode(e[2])[2] = e[2]
    BY Zenon, <1>2, <2>1
  <2>4. ofRoute(Trim(e[1])) = e /\ ofCode(e[2]) = e
    BY Zenon, <1>5, <2>2, <2>3
  <2>5. Trim(e[1]) \in DOMAIN r /\ r[Trim(e[1])] = ofRoute(Trim(e[1]))[2]
    BY Zenon, <1>3, <2>1
  <2>6. e[2] \in DOMAIN c /\ c[e[2]] = Trim(ofCode(e[2])[1])
    BY Zenon, <1>4, <2>1
  <2> QED BY Zenon, <2>4, <2>5, <2>6
<1>7. /\ \A x \in RoutesOf(done) : \E e \in done : x = Trim(e[1])
      /\ \A y \in CodesOf(done) : \E e \in done : y = e[2]
  BY Zenon, <1>1, <1>2
<1>8. ASSUME NEW x \in DOMAIN routes[p]  PROVE  x \in DOMAIN r /\ r[x] = routes[p][x]
  <2>1. ASSUME x \in RoutesOf(done)  PROVE  FALSE
    <3>1. PICK e \in done : x = Trim(e[1])
      BY Zenon, <1>7, <2>1
    <3> QED BY Zenon, <1>5, <3>1
  <2> QED BY Zenon, <1>3, <2>1
<1>9. ASSUME NEW y \in DOMAIN codes[p]  PROVE  y \in DOMAIN c /\ c[y] = codes[p][y]
  <2>1. ASSUME y \in CodesOf(done)  PROVE  FALSE
    <3>1. PICK e \in done : y = e[2]
      BY Zenon, <1>7, <2>1
    <3> QED BY Zenon, <1>5, <3>1
  <2> QED BY Zenon, <1>4, <2>1
<1>10. /\ \A x \in DOMAIN r : x \in DOMAIN routes[p] \/ \E e \in done : x = Trim(e[1])
       /\ \A y \in DOMAIN c : y \in DOMAIN codes[p] \/ \E e \in done : y = e[2]
  BY Zenon, <1>3, <1>4, <1>7
<1> QED BY Zenon, <1>6, <1>8, <1>9, <1>10 DEF Joined

\* SetDictionary keeps the maps of every process inverse, wherever it stops, and only
\* adds to them.
LEMMA SetDictionaryKeeps ==
  ASSUME DictInv, NEW p \in Procs, NEW d \in Dicts, SetDictionary(p, d)
  PROVE  DictInv' /\ Grows
<1>1. PICK done \in SUBSET d :
        /\ Fits(p, done)
        /\ routes' = [routes EXCEPT ![p] =
             [x \in DOMAIN routes[p] \cup RoutesOf(done) |->
                IF x \in RoutesOf(done) THEN (CHOOSE e \in done : Trim(e[1]) = x)[2]
                ELSE routes[p][x]]]
        /\ codes' = [codes EXCEPT ![p] =
             [y \in DOMAIN codes[p] \cup CodesOf(done) |->
                IF y \in CodesOf(done) THEN Trim((CHOOSE e \in done : e[2] = y)[1])
                ELSE codes[p][y]]]
  BY DEF SetDictionary
<1> DEFINE r == [x \in DOMAIN routes[p] \cup RoutesOf(done) |->
                   IF x \in RoutesOf(done) THEN (CHOOSE e \in done : Trim(e[1]) = x)[2]
                   ELSE routes[p][x]]
           c == [y \in DOMAIN codes[p] \cup CodesOf(done) |->
                   IF y \in CodesOf(done) THEN Trim((CHOOSE e \in done : e[2] = y)[1])
                   ELSE codes[p][y]]
<1>2. Joined(r, c, routes[p], codes[p], done)
  BY Zenon, <1>1, EntriesFit
<1>3. routes' = [routes EXCEPT ![p] = r] /\ codes' = [codes EXCEPT ![p] = c]
  BY <1>1
<1> HIDE DEF r, c
<1>4. /\ routes' = [q \in Procs |-> routes'[q]] /\ codes' = [q \in Procs |-> codes'[q]]
      /\ routes'[p] = r /\ codes'[p] = c
      /\ \A q \in Procs \ {p} : routes'[q] = routes[q] /\ codes'[q] = codes[q]
  BY Zenon, <1>3 DEF DictInv
<1>5. Inverses(r, c) /\ Within(routes[p], r) /\ Within(codes[p], c)
  BY Zenon, <1>2, InversesExtended, JoinedContains DEF DictInv
<1>6. ASSUME NEW x \in DOMAIN r  PROVE  r[x] \in Codes
  <2>1. CASE x \in DOMAIN routes[p]
    BY <2>1, <1>5 DEF Within, DictInv
  <2>2. CASE x \notin DOMAIN routes[p]
    <3>1. PICK e \in done : x = Trim(e[1])
      BY Zenon, <2>2, <1>2 DEF Joined
    <3>2. r[x] = e[2]
      BY Zenon, <3>1, <1>2 DEF Joined
    <3>3. e \in Routes \X Codes
      BY CodecAssumption
    <3> QED BY <3>2, <3>3
  <2> QED BY <2>1, <2>2
<1>7. ASSUME NEW q \in Procs
      PROVE  /\ Inverses(routes'[q], codes'[q])
             /\ \A x \in DOMAIN routes'[q] : routes'[q][x] \in Codes
             /\ Within(routes[q], routes'[q]) /\ Within(codes[q], codes'[q])
  <2>1. CASE q = p
    BY Zenon, <2>1, <1>4, <1>5, <1>6
  <2>2. CASE q # p
    <3>1. routes'[q] = routes[q] /\ codes'[q] = codes[q]
      BY <2>2, <1>4
    <3> QED BY Zenon, <3>1 DEF DictInv, Within
  <2> QED BY <2>1, <2>2
<1> QED BY Zenon, <1>4, <1>7 DEF DictInv, Grows

\* Every step keeps the dictionaries inverse and only adds to them.
LEMMA DictionaryStep ==
  ASSUME DictInv, [CodecNext]_codecVars
  PROVE  DictInv' /\ Grows
<1>1. ASSUME NEW p \in Procs, NEW d \in Dicts, SetDictionary(p, d) PROVE DictInv' /\ Grows
  BY <1>1, SetDictionaryKeeps
<1>2. ASSUME UNCHANGED dictVars PROVE DictInv' /\ Grows
  <2>1. routes' = routes /\ codes' = codes
    BY <1>2 DEF dictVars
  <2> QED BY Zenon, <2>1 DEF DictInv, Grows, Within
<1>3. ASSUME NEW p \in Procs, NEW z \in BOOLEAN, Encode(p, z) PROVE UNCHANGED dictVars
  BY <1>3 DEF Encode, dictVars
<1>4. ASSUME NEW m \in Messages, NewMessage(m) PROVE UNCHANGED dictVars
  BY <1>4 DEF NewMessage, dictVars
<1>5. CASE UNCHANGED codecVars
  BY <1>2, <1>5 DEF codecVars
<1> QED BY <1>1, <1>2, <1>3, <1>4, <1>5 DEF CodecNext

\* DictInv holds in every state.
LEMMA DictionaryInvariance == CodecSpec => []DictInv
<1>1. CodecInit => DictInv
  BY DEF CodecInit, DictInv, Inverses
<1>2. DictInv /\ [CodecNext]_codecVars => DictInv'
  BY DictionaryStep
<1> QED BY <1>1, <1>2, PTL DEF CodecSpec

\* In every process a code stands for one route and a route has one code, after any
\* calls of SetDictionary, failed ones included.
THEOREM DictionariesStayInverse == CodecSpec => []DictionariesInvert
<1>1. DictInv => DictionariesInvert
  BY Zenon DEF DictInv, Inverses, DictionariesInvert
<1> QED BY <1>1, DictionaryInvariance, PTL

\* A call of SetDictionary, a failed one too, never takes back or changes a route or a
\* code that a process had: bytes under way can still be decoded.
THEOREM DictionariesOnlyGrow == CodecSpec => [][Grows]_codecVars
<1>1. DictInv /\ [CodecNext]_codecVars => [Grows]_codecVars
  BY DictionaryStep
<1> QED BY <1>1, DictionaryInvariance, PTL DEF CodecSpec
-----------------------------------------------------------------------------
(* Every encoding on the wire can be decoded *)

\* The bytes are an encoding of message o, made with a part of the dictionary rts.
Encodes(bytes, o, rts) ==
  \E z \in BOOLEAN : \E part : Within(part, rts) /\ bytes = encode(o, part, z).bytes

\* The message that was built is one of Messages, and what is on the wire, unless its
\* data had been compressed before, was made from it with what is by now a part of the
\* sender's dictionary.
WireInv ==
  /\ original = <<>> \/ \E m \in Messages : original = <<m>>
  /\ wire = <<>> \/ \E w :
       /\ wire = <<w>> /\ w.by \in Procs
       /\ original # <<>> /\ original[1].Type \in 0..2
       /\ w.whole => Encodes(w.bytes, original[1], routes[w.by])

\* WireInv holds in every state.
LEMMA WireInvariance == CodecSpec => []WireInv
<1>1. CodecInit => WireInv
  BY DEF CodecInit, WireInv
<1>2. DictInv /\ WireInv /\ [CodecNext]_codecVars => WireInv'
  <2> SUFFICES ASSUME DictInv, WireInv, [CodecNext]_codecVars PROVE WireInv'
    OBVIOUS
  <2>1. ASSUME UNCHANGED <<original, wire>> PROVE WireInv'
    <3>1. Grows
      BY DictionaryStep
    <3>2. ASSUME NEW w, wire = <<w>>, w.by \in Procs,
                 Encodes(w.bytes, original[1], routes[w.by])
          PROVE  Encodes(w.bytes, original[1], routes'[w.by])
      BY Zenon, <3>1, <3>2 DEF Encodes, Grows, Within
    <3>3. CASE wire = <<>>
      BY <2>1, <3>3 DEF WireInv
    <3>4. CASE wire # <<>>
      <4>1. PICK w :
              /\ wire = <<w>> /\ w.by \in Procs
              /\ original # <<>> /\ original[1].Type \in 0..2
              /\ w.whole => Encodes(w.bytes, original[1], routes[w.by])
        BY Zenon, <3>4 DEF WireInv
      <4>2. w.whole => Encodes(w.bytes, original[1], routes'[w.by])
        BY Zenon, <4>1, <3>2
      <4> QED BY Zenon, <2>1, <4>1, <4>2 DEF WireInv
    <3> QED BY <3>3, <3>4
  <2>2. ASSUME NEW p \in Procs, NEW d \in Dicts, SetDictionary(p, d) PROVE WireInv'
    BY <2>1, <2>2 DEF SetDictionary, msgVars
  <2>3. ASSUME NEW m \in Messages, NewMessage(m) PROVE WireInv'
    <3>1. original = <<>> /\ original' = <<m>> /\ wire' = wire
      BY <2>3 DEF NewMessage
    <3> QED BY Zenon, <3>1 DEF WireInv
  <2>4. ASSUME NEW p \in Procs, NEW z \in BOOLEAN, Encode(p, z) PROVE WireInv'
    <3> DEFINE o == original[1]
               e == encode([o EXCEPT !.Data = data], routes[p], z)
               w == [by |-> p, bytes |-> e.bytes, whole |-> data = o.Data]
    <3>1. /\ original # <<>> /\ original' = original /\ ~invalidType(o.Type)
          /\ wire' = <<w>> /\ routes' = routes
      BY Zenon, <2>4 DEF Encode, dictVars
    <3>2. o \in Messages /\ \E m \in Messages : original = <<m>>
      BY <3>1 DEF WireInv
    <3>3. o.Type \in 0..2
      BY <3>1, <3>2, CodecAssumption DEF invalidType, Response
    <3>4. w.by = p /\ w.bytes = e.bytes /\ (w.whole => data = o.Data)
      BY Zenon
    <3>5. ASSUME data = o.Data PROVE Encodes(e.bytes, o, routes[p])
      <4>1. [o EXCEPT !.Data = data] = o
        BY <3>2, <3>5, CodecAssumption
      <4>2. e.bytes = encode(o, routes[p], z).bytes
        BY <4>1
      <4>3. Within(routes[p], routes[p])
        BY Zenon DEF Within
      <4> QED BY Zenon, <4>2, <4>3 DEF Encodes
    <3> HIDE DEF w, e
    <3>6. w.whole => Encodes(w.bytes, o, routes[w.by])
      BY Zenon, <3>4, <3>5
    <3> QED BY Zenon, <3>1, <3>2, <3>3, <3>4, <3>6 DEF WireInv
  <2>5. CASE UNCHANGED codecVars
    BY <2>1, <2>5 DEF codecVars, msgVars
  <2> QED BY <2>2, <2>3, <2>4, <2>5 DEF CodecNext
<1> QED BY <1>1, <1>2, DictionaryInvariance, PTL DEF CodecSpec

\* The decoded m has the fields of o.
Survives(m, o) ==
  /\ m.err = "" /\ m.Type = o.Type /\ m.Err = o.Err /\ m.Data = o.Data
  /\ o.Type \in {Request, Response} => m.ID = o.ID
  /\ routable(o.Type) => m.Route = o.Route

\* This is what Read is.
LEMMA ReadSurvives ==
  ASSUME NEW o, NEW m, m = Read(o)
  PROVE  Survives(m, o)
BY Zenon DEF Survives, Read, hasID

\* A code is a uint16.
LEMMA CodesFit ==
  ASSUME NEW c \in Codes
  PROVE  c \in Nat /\ c <= MaxUint16
<1>1. MaxUint16 \in Nat
  BY DEF MaxUint16
<1>2. c \in 0..MaxUint16
  BY CodecAssumption, Zenon
<1> QED BY <1>1, <1>2

\* What was encoded is decoded by a process that knows the sender's routes, with all of
\* its fields, however the dictionaries have grown since.
THEOREM MessagesRoundTrip == CodecSpec => []RoundTrip
<1>1. DictInv /\ WireInv => RoundTrip
  <2> SUFFICES ASSUME DictInv, WireInv,
                      NEW w \in {wire[i] : i \in DOMAIN wire}, NEW q \in Procs, w.whole,
                      Understands(q, w.by),
                      routable(original[1].Type) /\ ~Has(w.bytes[1], msgRouteCompressMask)
                        => Len(original[1].Route) < 256
               PROVE  Survives(decode(w.bytes, codes[q]), original[1])
    BY Zenon DEF RoundTrip, Survives
  <2> DEFINE o == original[1]
             cds == codes[q]
  <2>1. wire = <<w>> /\ w.by \in Procs /\ o.Type \in 0..2 /\ o \in Messages
        /\ Encodes(w.bytes, o, routes[w.by])
    <3>1. PICK v :
            /\ wire = <<v>> /\ v.by \in Procs
            /\ original # <<>> /\ original[1].Type \in 0..2
            /\ v.whole => Encodes(v.bytes, original[1], routes[v.by])
      BY DEF WireInv
    <3>2. w = v
      BY <3>1
    <3>3. o \in Messages
      BY <3>1 DEF WireInv
    <3> QED BY Zenon, <3>1, <3>2, <3>3
  <2>2. PICK z \in BOOLEAN :
          \E part : Within(part, routes[w.by]) /\ w.bytes = encode(o, part, z).bytes
    BY Zenon, <2>1 DEF Encodes
  <2>3. PICK part : Within(part, routes[w.by]) /\ w.bytes = encode(o, part, z).bytes
    BY Zenon, <2>2
  <2>4. Known(o.Route, part, cds)
    <3>1. CASE o.Route \in DOMAIN part
      <4>1. o.Route \in DOMAIN routes[w.by] /\ part[o.Route] = routes[w.by][o.Route]
        BY Zenon, <3>1, <2>3 DEF Within
      <4>2. part[o.Route] \in Codes
        BY Zenon, <2>1, <4>1 DEF DictInv
      <4>3. part[o.Route] \in Nat /\ part[o.Route] <= MaxUint16
        BY <4>2, CodesFit
      <4> QED BY Zenon, <4>1, <4>3 DEF Understands, Known
    <3> QED BY Zenon, <3>1 DEF Known
  <2>5. PICK flag, left : IsEncoding(w.bytes, o, part, flag, left)
    BY Zenon, <2>1, <2>3, <2>4, Encoded
  <2>6. PlainIsShort(o.Type, o.Route, part)
    <3>1. w.bytes[1] = flag /\ (Has(flag, msgRouteCompressMask) <=> o.Route \in DOMAIN part)
      BY Zenon, <2>5 DEF IsEncoding
    <3> QED BY Zenon, <3>1 DEF PlainIsShort
  <2>7. decode(w.bytes, cds) = Read(o)
    BY Zenon, <2>1, <2>4, <2>5, <2>6, MessageSurvives
  <2> QED BY Zenon, <2>7, ReadSurvives
<1> QED BY <1>1, WireInvariance, DictionaryInvariance, PTL

-----------------------------------------------------------------------------
(* The length of a packet *)

\* What division with a remainder gives.
LEMMA DivisionIs ==
  ASSUME NEW a \in Nat, NEW b \in Nat \ {0}
  PROVE  /\ a \div b \in Nat /\ a % b \in 0..(b - 1) /\ a = b * (a \div b) + (a % b)
OBVIOUS

\* Division with a remainder has one result.
LEMMA DivisionUnique ==
  ASSUME NEW b \in Nat \ {0},
         NEW q \in Nat, NEW r \in Nat, r < b, NEW x \in Nat, NEW y \in Nat, y < b,
         b * q + r = b * x + y
  PROVE  q = x /\ r = y
<1>1. ASSUME NEW u \in Nat, NEW v \in Nat, u < v PROVE b * u + b <= b * v
  <2>1. PICK d \in Nat : v = u + 1 + d
    <3>1. v - u - 1 \in Nat /\ v = u + 1 + (v - u - 1)
      BY <1>1
    <3> QED BY <3>1
  <2>2. b * d \in Nat /\ b * u \in Nat
    OBVIOUS
  <2>3. b * v = b * u + b + b * d
    BY <2>1
  <2> QED BY <2>2, <2>3
<1>2. b * q \in Nat /\ b * x \in Nat
  OBVIOUS
<1>3. ~(q < x)
  BY <1>1, <1>2
<1>4. ~(x < q)
  BY <1>1, <1>2
<1> QED BY <1>3, <1>4, <1>2

\* Dividing twice is dividing by the product.
LEMMA DividedTwice ==
  ASSUME NEW a \in Nat, NEW b \in Nat \ {0}
  PROVE  a \div (b * b) = (a \div b) \div b
<1> DEFINE q == a \div b
           r == a % b
           u == q \div b
           v == q % b
<1>1. /\ q \in Nat /\ r \in 0..(b - 1) /\ a = b * q + r
      /\ u \in Nat /\ v \in 0..(b - 1) /\ q = b * u + v
  BY DivisionIs, Zenon
<1>2. b * b \in Nat \ {0} /\ b * v + r \in Nat
  BY <1>1
<1>3. a = (b * b) * u + (b * v + r)
  <2> HIDE DEF q, r, u, v
  <2>1. b * (b * u + v) = (b * b) * u + b * v
    BY <1>1
  <2>2. b * q = (b * b) * u + b * v
    BY <1>1, <2>1
  <2>3. (b * b) * u \in Nat /\ b * v \in Nat
    BY <1>1
  <2> QED BY <1>1, <2>2, <2>3
<1>4. b * v + r < b * b
  <2> HIDE DEF q, r, u, v
  <2>1. b * v <= b * (b - 1) /\ b * v \in Nat
    BY <1>1
  <2>2. b * (b - 1) + b = b * b
    OBVIOUS
  <2> QED BY <1>1, <2>1, <2>2
<1> DEFINE c == b * b
           x == b * v + r
           y == a \div c
           z == a % c
<1>5. y \in Nat /\ z \in 0..(c - 1) /\ a = c * y + z
  <2> HIDE DEF c
  <2> QED BY <1>2, DivisionIs, Zenon DEF c
<1> HIDE DEF q, r, v, x, y, z, c, u
<1>6. u = y
  <2>1. c \in Nat \ {0} /\ x \in Nat /\ x < c /\ a = c * u + x
    BY <1>2, <1>3, <1>4 DEF c, x
  <2>2. z \in Nat /\ z < c /\ c * u + x = c * y + z
    BY <1>5, <2>1
  <2> QED BY <1>1, <1>5, <2>1, <2>2, DivisionUnique
<1> QED BY <1>6 DEF u, y, q, c

\* The length of a packet below the maximal size is read back from its three bytes.
LEMMA LengthSurvives ==
  ASSUME NEW n \in Nat, n < MaxPacketSize
  PROVE  BytesToInt(IntToBytes(n)) = n /\ IntToBytes(n) \in Seq(Nat)
<1> DEFINE b == ByteSize
           q == n \div b
           r == n % b
           u == q \div b
           v == q % b
<1>1. b \in Nat \ {0}
  BY PacketAssumption
<1> HIDE DEF b
<1>2. /\ q \in Nat /\ r \in 0..(b - 1) /\ n = b * q + r
      /\ u \in Nat /\ v \in 0..(b - 1) /\ q = b * u + v
  BY <1>1, DivisionIs, Zenon
<1>3. u = n \div (b * b)
  BY <1>1, DividedTwice, Zenon
<1> HIDE DEF q, r, u, v
<1>4. u < b
  <2>1. ASSUME b <= u PROVE FALSE
    <3>1. b * b <= b * u /\ b * b \in Nat /\ b * u \in Nat
      BY <1>1, <1>2, <2>1
    <3>2. b * b <= q
      BY <1>2, <3>1
    <3>3. b * (b * b) <= b * q
      BY <1>1, <1>2, <3>1, <3>2
    <3>4. n < (b * b) * b /\ (b * b) * b = b * (b * b)
      BY <1>1 DEF MaxPacketSize, b
    <3>5. b * q \in Nat /\ b * (b * b) \in Nat
      BY <1>1, <1>2, <3>1
    <3> QED BY <1>2, <3>3, <3>4, <3>5
  <2> QED BY <1>1, <1>2, <2>1
<1>5. u % b = u
  BY <1>1, <1>2, <1>4
<1>6. IntToBytes(n) = <<u, v, r>>
  BY <1>3, <1>5 DEF IntToBytes, b, q, v, r
<1>7. BytesToInt(<<u, v, r>>) = (u * b + v) * b + r
  BY DEF BytesToInt, b
<1>8. (u * b + v) * b + r = n
  <2>1. u * b + v = q
    BY <1>1, <1>2
  <2>2. q * b = b * q
    BY <1>1, <1>2
  <2> QED BY <1>2, <2>1, <2>2
<1>9. <<u, v, r>> \in Seq(Nat)
  BY <1>2
<1> QED BY <1>6, <1>7, <1>8, <1>9

-----------------------------------------------------------------------------
(* Decode of a packet stream *)

\* The header at the start of a buffer, the place where its packet ends, and whether it
\* has a good header and a complete packet.
HeadOf(buf) == ParseHeader(SubSeq(buf, 1, HeadLength))
EndAt(buf) == HeadLength + HeadOf(buf).size
Whole(buf) == ~(Len(buf) < HeadLength) /\ ~(HeadOf(buf).err # "") /\ ~(EndAt(buf) > Len(buf))

\* The first packet, the bytes behind it, and what Decode makes of it and of them.
FirstOf(buf) == [type |-> HeadOf(buf).type, data |-> SubSeq(buf, HeadLength + 1, EndAt(buf))]
RestOf(buf) == SubSeq(buf, EndAt(buf) + 1, Len(buf))
After(buf, more) ==
  IF more.err # "" THEN more ELSE [err |-> "", packets |-> <<FirstOf(buf)>> \o more.packets]

\* What Decode returns when there is no such packet.
Stop(buf) == [err |-> IF Len(buf) < HeadLength THEN "" ELSE HeadOf(buf).err, packets |-> <<>>]

\* The results of Decode: an error, or none, and packets.
Packets == [type : Nat, data : Seq(Nat)]
Errors == {"", "wrong packet type", "packet size exceed"}
Results == [err : Errors, packets : Seq(Packets)]

\* Decode returns these packets and no error.
Good(packets) == [err |-> "", packets |-> packets]
Decodes(buf, packets) == DecodePackets[buf] = Good(packets)

\* The tail of a sequence.
LEMMA TailIs ==
  ASSUME NEW S, NEW s \in Seq(S), Len(s) > 0
  PROVE  /\ Tail(s) \in Seq(S) /\ Len(Tail(s)) = Len(s) - 1
         /\ \A i \in 1..(Len(s) - 1) : Tail(s)[i] = s[i + 1]
OBVIOUS

\* What a header of four bytes is parsed to.
LEMMA HeadTyped ==
  ASSUME NEW buf \in Seq(Nat), ~(Len(buf) < HeadLength)
  PROVE  HeadOf(buf).err \in Errors /\ HeadOf(buf).type \in Nat /\ HeadOf(buf).size \in Nat
<1> DEFINE h == SubSeq(buf, 1, HeadLength)
<1>1. h \in Seq(Nat) /\ Len(h) = 4
  BY DEF HeadLength
<1> HIDE DEF h
<1>2. Len(h) > 0 /\ 1 \in 1..Len(h)
  BY <1>1
<1>3. h[1] \in Nat /\ Tail(h)[1] \in Nat /\ Tail(h)[2] \in Nat /\ Tail(h)[3] \in Nat
  <2> DEFINE t == Tail(h)
  <2>1. t \in Seq(Nat) /\ Len(t) = Len(h) - 1
    BY <1>1, <1>2, TailIs, Zenon
  <2> HIDE DEF t
  <2>2. 1 \in 1..Len(t) /\ 2 \in 1..Len(t) /\ 3 \in 1..Len(t)
    BY <1>1, <2>1
  <2>3. t[1] \in Nat /\ t[2] \in Nat /\ t[3] \in Nat
    BY <2>1, <2>2, ElementIn, Zenon
  <2>4. h[1] \in Nat
    BY <1>1, <1>2, ElementIn, Zenon
  <2> QED BY <2>3, <2>4, Zenon DEF t
<1>4. BytesToInt(Tail(h)) \in Nat
  <2>1. ASSUME NEW x \in Nat, NEW y \in Nat, NEW z \in Nat
        PROVE  (x * ByteSize + y) * ByteSize + z \in Nat
    BY PacketAssumption
  <2> QED BY <1>3, <2>1, Zenon DEF BytesToInt
<1>5. /\ ParseHeader(h).type = h[1] /\ ParseHeader(h).size = BytesToInt(Tail(h))
      /\ ParseHeader(h).err \in Errors
  BY Zenon DEF ParseHeader, Errors
<1> QED BY <1>3, <1>4, <1>5, Zenon DEF HeadOf, h

\* The first packet of a buffer that has one, and the bytes behind it.
LEMMA WholeTyped ==
  ASSUME NEW buf \in Seq(Nat), Whole(buf)
  PROVE  /\ EndAt(buf) \in Nat /\ HeadLength <= EndAt(buf) /\ EndAt(buf) <= Len(buf)
         /\ FirstOf(buf) \in Packets
         /\ RestOf(buf) \in Seq(Nat) /\ Len(RestOf(buf)) = Len(buf) - EndAt(buf)
<1>1. ~(Len(buf) < HeadLength) /\ ~(EndAt(buf) > Len(buf))
  BY Zenon DEF Whole
<1>2. HeadOf(buf).type \in Nat /\ HeadOf(buf).size \in Nat
  BY <1>1, HeadTyped, Zenon
<1> DEFINE e == EndAt(buf)
           n == Len(buf)
           d == SubSeq(buf, HeadLength + 1, e)
           r == SubSeq(buf, e + 1, n)
<1>3. /\ e \in Nat /\ 4 <= e /\ e <= n /\ n \in Nat /\ n <= Len(buf)
      /\ HeadLength + 1 \in Nat /\ 1 <= HeadLength + 1 /\ HeadLength + 1 <= e + 1
      /\ e + 1 \in Nat /\ 1 <= e + 1 /\ e + 1 <= n + 1 /\ e <= Len(buf)
  <2> DEFINE z == HeadOf(buf).size
  <2>1. z \in Nat /\ e = HeadLength + z /\ ~(e > n)
    BY <1>1, <1>2, Zenon DEF EndAt
  <2>2. n \in Nat /\ n = Len(buf)
    OBVIOUS
  <2> HIDE DEF z, e, n
  <2> QED BY <2>1, <2>2 DEF HeadLength
<1>4. IsPart(d, Nat, buf, HeadLength + 1, e) /\ IsPart(r, Nat, buf, e + 1, n)
  <2> HIDE DEF e, n
  <2> QED BY <1>3, Between, Zenon
<1>5. d \in Seq(Nat) /\ r \in Seq(Nat) /\ Len(r) = n + 1 - (e + 1)
  BY <1>4, Zenon DEF IsPart
<1>6. FirstOf(buf) \in Packets
  <2> DEFINE t == HeadOf(buf).type
  <2>1. FirstOf(buf) = [type |-> t, data |-> d]
    BY Zenon DEF FirstOf
  <2>2. t \in Nat /\ d \in Seq(Nat)
    BY <1>2, <1>5, Zenon
  <2> HIDE DEF d, t
  <2> QED BY ONLY <2>1, <2>2 DEF Packets
<1> HIDE DEF e, n, r
<1>7. Len(r) = n - e
  BY <1>3, <1>5
<1> QED BY <1>3, <1>5, <1>6, <1>7 DEF e, n, r, RestOf, HeadLength

\* DecodePackets is the function its equation describes.
LEMMA DecodeEquation ==
  \A buf \in Seq(Nat) :
    DecodePackets[buf] = IF Whole(buf) THEN After(buf, DecodePackets[RestOf(buf)])
                         ELSE Stop(buf)
<1> DEFINE S == Seq(Nat)
           Rank == [b \in S |-> Len(b)]
           Prev == [b \in S |-> IF Whole(b) THEN RestOf(b) ELSE b]
           Ends == {b \in S : ~Whole(b)}
           Base == [b \in Ends |-> Stop(b)]
           Step == [x \in S \X Results |-> IF Whole(x[1]) THEN After(x[1], x[2]) ELSE x[2]]
<1>1. Rank \in [S -> Nat] /\ Ends \in SUBSET S
  OBVIOUS
<1>2. Prev \in [S -> S] /\ Descends(S, Ends, Prev, Rank)
  <2>1. ASSUME NEW b \in S, Whole(b) PROVE RestOf(b) \in S /\ Len(RestOf(b)) < Len(b)
    <3>1. /\ EndAt(b) \in Nat /\ HeadLength <= EndAt(b) /\ Len(b) \in Nat
          /\ RestOf(b) \in S /\ Len(RestOf(b)) = Len(b) - EndAt(b)
      BY <2>1, WholeTyped
    <3> QED BY <3>1 DEF HeadLength
  <2> QED BY <2>1 DEF Descends
<1>3. Base \in [Ends -> Results]
  <2>1. ASSUME NEW b \in Ends PROVE Stop(b) \in Results
    <3> DEFINE x == IF Len(b) < HeadLength THEN "" ELSE HeadOf(b).err
    <3>1. x \in Errors
      <4>1. CASE Len(b) < HeadLength
        BY <4>1, Zenon DEF Errors
      <4>2. CASE ~(Len(b) < HeadLength)
        BY <4>2, HeadTyped, Zenon
      <4> QED BY Zenon, <4>1, <4>2
    <3>2. Stop(b) = [err |-> x, packets |-> <<>>]
      BY Zenon DEF Stop
    <3> HIDE DEF x
    <3> QED BY <3>1, <3>2 DEF Results
  <2> QED BY <2>1
<1>4. Step \in [S \X Results -> Results]
  <2>1. ASSUME NEW b \in S, Whole(b), NEW v \in Results PROVE After(b, v) \in Results
    <3> DEFINE none == ""
    <3>1. CASE v.err # none
      BY <3>1, Zenon DEF After
    <3>2. CASE v.err = none
      <4> DEFINE p == FirstOf(b)
                 w == v.packets
                 s == <<p>> \o w
      <4>1. After(b, v) = [err |-> none, packets |-> s]
        BY <3>2, Zenon DEF After
      <4>2. p \in Packets
        BY <2>1, WholeTyped, Zenon
      <4>3. none \in Errors
        BY Zenon DEF Errors
      <4>4. w \in Seq(Packets)
        BY DEF Results
      <4> HIDE DEF p, none, w
      <4>5. s \in Seq(Packets)
        BY <4>2, <4>4
      <4> HIDE DEF s
      <4>6. [err |-> none, packets |-> s] \in Results
        BY ONLY <4>3, <4>5 DEF Results
      <4> QED BY <4>1, <4>6, Zenon
    <3> QED BY Zenon, <3>1, <3>2
  <2> QED BY <2>1
<1>5. PICK f \in [S -> Results] : Solves(f, S, Ends, Base, Prev, Step)
  <2> HIDE DEF S, Rank, Prev, Ends, Base, Step
  <2> QED BY <1>1, <1>2, <1>3, <1>4, Recursion, Zenon
<1>6. ASSUME NEW b \in S
      PROVE  f[b] = IF Whole(b) THEN After(b, f[RestOf(b)]) ELSE Stop(b)
  <2>1. CASE ~Whole(b)
    <3>1. b \in Ends /\ Base[b] = Stop(b)
      BY <2>1
    <3> HIDE DEF S, Ends, Base, Prev, Step
    <3> QED BY Zenon, <2>1, <3>1, <1>5 DEF Solves
  <2>2. CASE Whole(b)
    <3>1. b \notin Ends /\ Prev[b] = RestOf(b) /\ RestOf(b) \in S
      BY <2>2, WholeTyped
    <3>2. f[RestOf(b)] \in Results
      BY <3>1
    <3>3. Step[<<b, f[RestOf(b)]>>] = After(b, f[RestOf(b)])
      <4>1. ASSUME NEW v \in Results PROVE Step[<<b, v>>] = After(b, v)
        BY <2>2
      <4> HIDE DEF Step
      <4> QED BY <4>1, <3>2
    <3> HIDE DEF S, Ends, Base, Prev, Step
    <3> QED BY <2>2, <3>1, <3>3, <1>5 DEF Solves
  <2> QED BY <2>1, <2>2
<1> DEFINE Body(g, buf) ==
             IF Len(buf) < HeadLength THEN [err |-> "", packets |-> <<>>]
             ELSE LET h == ParseHeader(SubSeq(buf, 1, HeadLength))
                      end == HeadLength + h.size
                      p == [type |-> h.type, data |-> SubSeq(buf, HeadLength + 1, end)]
                  IN IF h.err # "" THEN [err |-> h.err, packets |-> <<>>]
                     ELSE IF end > Len(buf) THEN [err |-> "", packets |-> <<>>]
                     ELSE LET more == g[SubSeq(buf, end + 1, Len(buf))] IN
                          IF more.err # "" THEN more
                          ELSE [err |-> "", packets |-> <<p>> \o more.packets]
<1>7. ASSUME NEW g, NEW b
      PROVE  Body(g, b) = IF Whole(b) THEN After(b, g[RestOf(b)]) ELSE Stop(b)
  <2> USE DEF HeadOf, EndAt
  <2>1. CASE Len(b) < HeadLength
    BY <2>1, Zenon DEF Whole, Stop
  <2>2. CASE ~(Len(b) < HeadLength) /\ HeadOf(b).err # ""
    BY <2>2, Zenon DEF Whole, Stop
  <2>3. CASE ~(Len(b) < HeadLength) /\ HeadOf(b).err = "" /\ EndAt(b) > Len(b)
    BY <2>3, Zenon DEF Whole, Stop
  <2>4. CASE ~(Len(b) < HeadLength) /\ HeadOf(b).err = "" /\ ~(EndAt(b) > Len(b))
    <3>1. Whole(b)
      BY <2>4, Zenon DEF Whole
    <3>2. Body(g, b) = After(b, g[RestOf(b)])
      BY <2>4, Zenon DEF After, RestOf, FirstOf
    <3> QED BY <3>1, <3>2, Zenon
  <2> QED BY <2>1, <2>2, <2>3, <2>4, Zenon
<1>8. f = [buf \in Seq(Nat) |-> Body(f, buf)]
  <2> HIDE DEF Body
  <2>1. ASSUME NEW b \in Seq(Nat) PROVE f[b] = Body(f, b)
    BY <1>6, <1>7, Zenon
  <2> QED BY <2>1
<1>9. DecodePackets = [buf \in Seq(Nat) |-> Body(DecodePackets, buf)]
  BY <1>8, Zenon DEF DecodePackets
<1>10. ASSUME NEW b \in Seq(Nat) PROVE DecodePackets[b] = Body(DecodePackets, b)
  <2> HIDE DEF Body
  <2> QED BY <1>9
<1> HIDE DEF Body
<1> QED BY <1>7, <1>10, Zenon

-----------------------------------------------------------------------------
(* Packets on the stream *)

\* Packets that Encode accepts.
Accepted == [type : Handshake..Data, data : Seq(Nat)]

\* Behind place `at' of the bytes st is the packet p.
IsFrame(st, at, p) ==
  /\ st[at + 1] = p.type
  /\ \A i \in 1..3 : st[at + 1 + i] = IntToBytes(Len(p.data))[i]
  /\ \A i \in 1..Len(p.data) : st[at + HeadLength + i] = p.data[i]

\* The bytes st are the packets ps, the n-th one of which ends at ends[n].
Framed(ps, st, ends) ==
  /\ ps \in Seq(Accepted) /\ st \in Seq(Nat)
  /\ ends \in [0..Len(ps) -> Nat] /\ ends[0] = 0 /\ ends[Len(ps)] = Len(st)
  /\ \A i, j \in 0..Len(ps) : i <= j => ends[i] <= ends[j]
  /\ \A n \in 1..Len(ps) :
       /\ ends[n] = ends[n - 1] + HeadLength + Len(ps[n].data)
       /\ IsFrame(st, ends[n - 1], ps[n])

\* The sequence u over S is what is behind place `at' of s, up to place `cut'.
IsCut(u, S, s, at, cut) ==
  u \in Seq(S) /\ Len(u) = cut - at /\ \A k \in 1..(cut - at) : u[k] = s[at + k]

\* What SubSeq cuts out of a sequence.
LEMMA CutOut ==
  ASSUME NEW S, NEW s \in Seq(S), NEW at \in Nat, NEW cut \in Nat, at <= cut, cut <= Len(s)
  PROVE  IsCut(SubSeq(s, at + 1, cut), S, s, at, cut)
<1> DEFINE u == SubSeq(s, at + 1, cut)
<1>1. u \in Seq(S)
  OBVIOUS
<1>2. Len(u) = cut - at
  OBVIOUS
<1>3. \A k \in 1..(cut - at) : u[k] = s[at + k]
  OBVIOUS
<1> QED BY <1>1, <1>2, <1>3 DEF IsCut

\* The header of a packet is parsed to its type and length.
LEMMA HeadSurvives ==
  ASSUME NEW st \in Seq(Nat), NEW at \in Nat, NEW cut \in Nat, at + HeadLength <= cut,
         cut <= Len(st), NEW p \in Accepted, Len(p.data) < MaxPacketSize, IsFrame(st, at, p)
  PROVE  LET h == HeadOf(SubSeq(st, at + 1, cut)) IN
         h.err = "" /\ h.type = p.type /\ h.size = Len(p.data)
<1> DEFINE buf == SubSeq(st, at + 1, cut)
           h == SubSeq(buf, 1, HeadLength)
           t == Tail(h)
           n == Len(p.data)
           l == IntToBytes(n)
<1>1. n \in Nat /\ n < MaxPacketSize /\ p.type \in Handshake..Data
  BY DEF Accepted
<1>2. /\ buf \in Seq(Nat) /\ Len(buf) = cut - at
      /\ \A k \in 1..(cut - at) : buf[k] = st[at + k]
  <2>1. at <= cut
    BY DEF HeadLength
  <2> QED BY <2>1, CutOut, Zenon DEF IsCut
<1> HIDE DEF buf
<1>3. h \in Seq(Nat) /\ Len(h) = 4 /\ \A k \in 1..4 : h[k] = buf[k]
  <2>1. HeadLength \in Nat /\ 0 \in Nat /\ 0 <= HeadLength /\ HeadLength <= Len(buf)
    BY <1>2 DEF HeadLength
  <2>2. IsCut(SubSeq(buf, 0 + 1, HeadLength), Nat, buf, 0, HeadLength)
    BY <1>2, <2>1, CutOut, Zenon
  <2>3. 0 + 1 = 1
    OBVIOUS
  <2>4. IsCut(h, Nat, buf, 0, HeadLength)
    BY <2>2, <2>3
  <2> HIDE DEF h
  <2> QED BY <2>4 DEF IsCut, HeadLength
<1> HIDE DEF h
<1>4. ASSUME NEW k \in 1..4 PROVE h[k] = st[at + k]
  <2>1. k \in 1..(cut - at)
    BY DEF HeadLength
  <2> QED BY <2>1, <1>2, <1>3, Zenon
<1>5. \A i \in 1..3 : t[i] = st[at + 1 + i]
  <2>1. Len(h) > 0
    BY <1>3
  <2>2. \A i \in 1..(Len(h) - 1) : t[i] = h[i + 1]
    BY <1>3, <2>1, TailIs, Zenon
  <2> HIDE DEF t
  <2> TAKE i \in 1..3
  <2>3. i \in 1..(Len(h) - 1) /\ i + 1 \in 1..4 /\ at + (i + 1) = at + 1 + i
    BY <1>3
  <2>4. t[i] = h[i + 1] /\ h[i + 1] = st[at + (i + 1)]
    BY <1>4, <2>2, <2>3, Zenon
  <2> QED BY <2>3, <2>4
<1>6. h[1] = p.type
  BY <1>4 DEF IsFrame
<1>7. t[1] = l[1] /\ t[2] = l[2] /\ t[3] = l[3]
  <2> HIDE DEF t
  <2> QED BY <1>5 DEF IsFrame
<1>8. BytesToInt(t) = n
  <2>1. BytesToInt(t) = BytesToInt(l)
    BY <1>7, Zenon DEF BytesToInt
  <2> HIDE DEF n
  <2>2. BytesToInt(l) = n
    BY <1>1, LengthSurvives, Zenon
  <2> QED BY <2>1, <2>2, Zenon
<1>9. ~(n > MaxPacketSize)
  <2>1. MaxPacketSize \in Nat
    BY PacketAssumption DEF MaxPacketSize
  <2> QED BY <1>1, <2>1
<1> HIDE DEF n
<1>10. ParseHeader(h).err = "" /\ ParseHeader(h).type = p.type /\ ParseHeader(h).size = n
  BY <1>1, <1>6, <1>8, <1>9, Zenon DEF ParseHeader
<1> QED BY <1>10, Zenon DEF HeadOf, h, buf, n

\* Decode of a stream that is cut before the end of a packet stops without an error.
LEMMA CutDecodes ==
  ASSUME NEW st \in Seq(Nat), NEW at \in Nat, NEW cut \in Nat, at <= cut, cut <= Len(st),
         NEW p \in Accepted, Len(p.data) < MaxPacketSize, IsFrame(st, at, p),
         cut < at + HeadLength + Len(p.data)
  PROVE  Decodes(SubSeq(st, at + 1, cut), <<>>)
<1> DEFINE buf == SubSeq(st, at + 1, cut)
           n == Len(p.data)
<1>1. buf \in Seq(Nat) /\ Len(buf) = cut - at
  BY CutOut, Zenon DEF IsCut
<1>2. n \in Nat /\ cut < at + HeadLength + n
  BY DEF Accepted
<1>3. CASE Len(buf) < HeadLength
  <2>1. ~Whole(buf) /\ Stop(buf) = Good(<<>>)
    BY <1>3, Zenon DEF Good, Whole, Stop
  <2> HIDE DEF buf
  <2>2. Decodes(buf, <<>>)
    BY <1>1, <2>1, DecodeEquation, Zenon DEF Decodes
  <2> QED BY <2>2, Zenon DEF buf
<1>4. CASE ~(Len(buf) < HeadLength)
  <2>1. at + HeadLength <= cut
    <3> HIDE DEF buf
    <3> QED BY <1>1, <1>4 DEF HeadLength
  <2>2. HeadOf(buf).err = "" /\ HeadOf(buf).size = n
    BY <2>1, HeadSurvives, Zenon
  <2> HIDE DEF buf, n
  <2>3. HeadLength + n > Len(buf)
    BY <1>1, <1>2 DEF HeadLength
  <2>4. ~Whole(buf) /\ Stop(buf) = Good(<<>>)
    BY <1>4, <2>2, <2>3, Zenon DEF Good, Whole, Stop, EndAt
  <2>5. Decodes(buf, <<>>)
    BY <1>1, <2>4, DecodeEquation, Zenon DEF Decodes
  <2> QED BY <2>5, Zenon DEF buf
<1> QED BY <1>3, <1>4

\* Decode takes a complete packet off the stream and goes on behind it.
LEMMA FrameDecodes ==
  ASSUME NEW st \in Seq(Nat), NEW at \in Nat, NEW cut \in Nat, cut <= Len(st),
         NEW p \in Accepted, Len(p.data) < MaxPacketSize, IsFrame(st, at, p),
         NEW end, end = at + HeadLength + Len(p.data), end <= cut,
         NEW rest, Decodes(SubSeq(st, end + 1, cut), rest)
  PROVE  Decodes(SubSeq(st, at + 1, cut), <<p>> \o rest)
<1> DEFINE buf == SubSeq(st, at + 1, cut)
           d == p.data
           n == Len(d)
           e == HeadLength + n
<1>0. at \in Nat /\ cut \in Nat /\ end = at + HeadLength + n /\ end <= cut
  BY Zenon
<1>1. d \in Seq(Nat) /\ n \in Nat /\ p = [type |-> p.type, data |-> d]
  BY DEF Accepted
<1>2. /\ at <= cut /\ at + HeadLength <= cut /\ end \in Nat /\ end = at + e
      /\ e \in Nat /\ HeadLength <= e /\ at \in Nat /\ cut \in Nat /\ end <= cut
  <2> HIDE DEF n
  <2> QED BY ONLY <1>0, <1>1 DEF HeadLength
<1>3. buf \in Seq(Nat) /\ Len(buf) = cut - at /\ \A k \in 1..(cut - at) : buf[k] = st[at + k]
  <2>1. IsCut(buf, Nat, st, at, cut)
    BY <1>2, CutOut, Zenon
  <2> HIDE DEF buf
  <2> QED BY ONLY <2>1, Zenon DEF IsCut
<1>4. HeadOf(buf).err = "" /\ HeadOf(buf).type = p.type /\ HeadOf(buf).size = n
  BY <1>2, HeadSurvives, Zenon
<1> HIDE DEF buf
<1>5. EndAt(buf) = e /\ e <= Len(buf) /\ ~(Len(buf) < HeadLength) /\ ~(e > Len(buf))
  <2>1. EndAt(buf) = e
    BY <1>4, Zenon DEF EndAt
  <2>2. Len(buf) \in Nat
    BY <1>3
  <2>3. Len(buf) = cut - at
    BY <1>3, Zenon
  <2> HIDE DEF e
  <2> QED BY ONLY <1>2, <2>1, <2>2, <2>3 DEF HeadLength
<1>6. Whole(buf)
  BY <1>4, <1>5, Zenon DEF Whole
<1>7. SubSeq(buf, HeadLength + 1, e) = d
  <2> DEFINE u == SubSeq(buf, HeadLength + 1, e)
  <2>1. HeadLength \in Nat
    BY DEF HeadLength
  <2>2. IsCut(u, Nat, buf, HeadLength, e)
    BY <1>2, <1>3, <1>5, <2>1, CutOut, Zenon
  <2> HIDE DEF u
  <2>3. u \in Seq(Nat) /\ Len(u) = e - HeadLength
        /\ \A k \in 1..(e - HeadLength) : u[k] = buf[HeadLength + k]
    BY <2>2, Zenon DEF IsCut
  <2>4. e - HeadLength = n
    <3> HIDE DEF n
    <3> QED BY <1>1 DEF HeadLength
  <2>5. Len(u) = Len(d)
    BY <2>3, <2>4, Zenon
  <2>6. ASSUME NEW k \in 1..Len(u) PROVE u[k] = d[k]
    <3>1. k \in 1..(e - HeadLength) /\ k \in 1..Len(p.data)
      BY <2>3, <2>5, Zenon
    <3>2. HeadLength + k \in 1..(cut - at) /\ at + (HeadLength + k) = at + HeadLength + k
      <4> HIDE DEF e
      <4> QED BY ONLY <1>2, <3>1 DEF HeadLength
    <3>3. u[k] = st[at + (HeadLength + k)]
      BY <1>3, <2>3, <3>1, <3>2, Zenon
    <3>4. st[at + HeadLength + k] = d[k]
      BY <3>1, Zenon DEF IsFrame
    <3> QED BY <3>2, <3>3, <3>4
  <2> HIDE DEF d
  <2>7. u = d
    BY <1>1, <2>3, <2>5, <2>6, SameSeq, Zenon
  <2> QED BY <2>7, Zenon DEF u
<1>8. FirstOf(buf) = p
  BY <1>1, <1>4, <1>5, <1>7, Zenon DEF FirstOf
<1>9. RestOf(buf) = SubSeq(st, end + 1, cut)
  <2> DEFINE m == Len(buf)
             u == SubSeq(buf, e + 1, m)
             v == SubSeq(st, end + 1, cut)
  <2>1. m \in Nat /\ m = cut - at /\ e <= m /\ m <= Len(buf) /\ m - e = cut - end
    <3> HIDE DEF e
    <3> QED BY ONLY <1>0, <1>2, <1>3, <1>5
  <2> HIDE DEF e
  <2>2. IsCut(u, Nat, buf, e, m)
    <3> HIDE DEF m
    <3> QED BY <1>2, <1>3, <2>1, CutOut, Zenon
  <2>3. IsCut(v, Nat, st, end, cut)
    BY <1>2, CutOut, Zenon
  <2> HIDE DEF u, v, m
  <2>4. /\ u \in Seq(Nat) /\ Len(u) = m - e /\ \A k \in 1..(m - e) : u[k] = buf[e + k]
        /\ v \in Seq(Nat) /\ Len(v) = cut - end /\ \A k \in 1..(cut - end) : v[k] = st[end + k]
    BY <2>2, <2>3, Zenon DEF IsCut
  <2>5. Len(u) = Len(v)
    BY <2>1, <2>4, Zenon
  <2>6. ASSUME NEW k \in 1..Len(u) PROVE u[k] = v[k]
    <3>1. k \in 1..(m - e) /\ k \in 1..(cut - end)
      BY <2>1, <2>4, Zenon
    <3>2. e + k \in 1..(cut - at) /\ at + (e + k) = end + k
      BY ONLY <1>2, <2>1, <3>1
    <3>3. u[k] = st[at + (e + k)]
      BY <1>3, <2>4, <3>1, <3>2, Zenon
    <3>4. v[k] = st[end + k]
      BY <2>4, <3>1, Zenon
    <3> QED BY Zenon, <3>2, <3>3, <3>4
  <2>7. u = v
    BY <2>4, <2>5, <2>6, SameSeq, Zenon
  <2> QED BY <1>5, <2>7, Zenon DEF RestOf, u, v, m
<1>10. After(buf, Good(rest)) = Good(<<p>> \o rest)
  BY <1>8, Zenon DEF After, Good
<1>11. Decodes(buf, <<p>> \o rest)
  BY <1>3, <1>6, <1>9, <1>10, DecodeEquation, Zenon DEF Decodes
<1> QED BY <1>11, Zenon DEF buf

\* The sequence u over S is s with some elements behind it.
Extends(u, S, s) == u \in Seq(S) /\ Len(s) <= Len(u) /\ \A i \in 1..Len(s) : u[i] = s[i]

\* Encode writes the type, the length and the data behind what is on the stream.
LEMMA FrameWritten ==
  ASSUME NEW st \in Seq(Nat), NEW p \in Accepted,
         NEW u, u = st \o <<p.type>> \o IntToBytes(Len(p.data)) \o p.data
  PROVE  /\ Extends(u, Nat, st) /\ Len(u) = Len(st) + HeadLength + Len(p.data)
         /\ IsFrame(u, Len(st), p)
<1> DEFINE d == p.data
           n == Len(d)
           l == IntToBytes(n)
           t == <<p.type>>
           a == st \o t
           b == a \o l
<1>1. d \in Seq(Nat) /\ n \in Nat /\ p.type \in Nat
  BY DEF Accepted, Handshake, Data
<1>2. l \in Seq(Nat) /\ Len(l) = 3
  <2>1. ASSUME NEW x \in Nat, NEW y \in Nat \ {0} PROVE x \div y \in Nat /\ x % y \in Nat
    BY <2>1, DivisionIs
  <2>2. ByteSize \in Nat \ {0} /\ ByteSize * ByteSize \in Nat \ {0}
    BY PacketAssumption
  <2> DEFINE x == (n \div (ByteSize * ByteSize)) % ByteSize
             y == (n \div ByteSize) % ByteSize
             z == n % ByteSize
  <2>3. x \in Nat /\ y \in Nat /\ z \in Nat
    <3> HIDE DEF n
    <3> QED BY <1>1, <2>1, <2>2, Zenon
  <2>4. l = <<x, y, z>>
    BY Zenon DEF IntToBytes
  <2> HIDE DEF x, y, z, l
  <2> QED BY <2>3, <2>4
<1>3. t \in Seq(Nat) /\ Len(t) = 1 /\ t[1] = p.type
  BY <1>1
<1> HIDE DEF t, l
<1>4. IsConcat(a, Nat, st, t)
  BY <1>3, Concat, Zenon
<1> HIDE DEF a
<1>5. a \in Seq(Nat)
  BY <1>4, Zenon DEF IsConcat
<1>6. IsConcat(b, Nat, a, l)
  BY <1>2, <1>5, Concat, Zenon
<1> HIDE DEF b
<1>7. b \in Seq(Nat)
  BY <1>6, Zenon DEF IsConcat
<1>8. IsConcat(u, Nat, b, d)
  BY <1>1, <1>7, Concat, Zenon DEF a, b, t, l
<1> DEFINE m == Len(st)
<1>9. m \in Nat /\ Len(a) = m + 1 /\ Len(b) = m + 4 /\ Len(u) = m + 4 + n /\ u \in Seq(Nat)
  <2>1. Len(a) = m + Len(t) /\ Len(b) = Len(a) + Len(l) /\ Len(u) = Len(b) + n /\ u \in Seq(Nat)
    BY <1>4, <1>6, <1>8, Zenon DEF IsConcat
  <2>2. m \in Nat
    OBVIOUS
  <2> HIDE DEF m, n
  <2> QED BY ONLY <1>1, <1>2, <1>3, <2>1, <2>2
<1>10. /\ \A k \in 1..Len(st) : a[k] = st[k]
       /\ \A k \in 1..Len(t) : a[Len(st) + k] = t[k]
       /\ \A k \in 1..Len(a) : b[k] = a[k]
       /\ \A k \in 1..Len(l) : b[Len(a) + k] = l[k]
       /\ \A k \in 1..Len(b) : u[k] = b[k]
       /\ \A k \in 1..n : u[Len(b) + k] = d[k]
  BY <1>4, <1>6, <1>8, Zenon DEF IsConcat
<1>11. ASSUME NEW i \in 1..Len(st) PROVE u[i] = st[i]
  <2>1. i \in 1..m /\ i \in 1..Len(a) /\ i \in 1..Len(b)
    BY ONLY i \in 1..m, <1>9
  <2> QED BY <2>1, <1>10, Zenon
<1>12. u[m + 1] = p.type
  <2>1. 1 \in 1..Len(t) /\ m + 1 \in 1..Len(a) /\ m + 1 \in 1..Len(b)
    BY ONLY <1>3, <1>9
  <2>2. a[m + 1] = t[1] /\ b[m + 1] = a[m + 1] /\ u[m + 1] = b[m + 1]
    BY ONLY <2>1, <1>10, Zenon
  <2> QED BY <1>3, <2>2, Zenon
<1>13. ASSUME NEW i \in 1..3 PROVE u[m + 1 + i] = l[i]
  <2>1. i \in 1..Len(l) /\ m + 1 + i = Len(a) + i /\ Len(a) + i \in 1..Len(b)
    BY ONLY i \in 1..3, <1>2, <1>9
  <2> QED BY <2>1, <1>10, Zenon
<1>14. ASSUME NEW i \in 1..n PROVE u[m + HeadLength + i] = d[i]
  <2>1. m + HeadLength + i = Len(b) + i
    BY <1>9, Zenon DEF HeadLength
  <2> QED BY <2>1, <1>10, Zenon
<1>15. Extends(u, Nat, st)
  <2>1. Len(st) <= Len(u)
    <3> HIDE DEF n
    <3> QED BY ONLY <1>1, <1>9 DEF m
  <2> QED BY <1>9, <1>11, <2>1, Zenon DEF Extends
<1>16. Len(u) = Len(st) + HeadLength + Len(p.data)
  BY <1>9, Zenon DEF HeadLength
<1>17. IsFrame(u, Len(st), p)
  BY <1>12, <1>13, <1>14, Zenon DEF IsFrame, l
<1> QED BY <1>15, <1>16, <1>17, Zenon

\* A packet stays where it is when more is written behind it.
LEMMA FrameStays ==
  ASSUME NEW st \in Seq(Nat), NEW at \in Nat, NEW p \in Accepted, IsFrame(st, at, p),
         at + HeadLength + Len(p.data) <= Len(st), NEW u, Extends(u, Nat, st)
  PROVE  IsFrame(u, at, p)
<1> DEFINE n == Len(p.data)
           m == Len(st)
<1>1. n \in Nat /\ m \in Nat /\ at \in Nat /\ at + HeadLength + n <= m
  BY DEF Accepted
<1> HIDE DEF n, m
<1>2. at + 1 \in 1..m /\ \A i \in 1..3 : at + 1 + i \in 1..m
  BY ONLY <1>1 DEF HeadLength
<1>3. \A i \in 1..n : at + HeadLength + i \in 1..m
  BY ONLY <1>1 DEF HeadLength
<1>4. \A i \in 1..m : u[i] = st[i]
  BY Zenon DEF Extends, m
<1> QED BY <1>2, <1>3, <1>4, Zenon DEF IsFrame, n

\* The stream stays framed when Encode writes a packet.
LEMMA FrameAppended ==
  ASSUME NEW ps, NEW st, NEW ends, Framed(ps, st, ends), NEW p \in Accepted,
         NEW u, u = st \o <<p.type>> \o IntToBytes(Len(p.data)) \o p.data
  PROVE  \E ends2 : Framed(Append(ps, p), u, ends2)
<1> DEFINE N == Len(ps)
           qs == Append(ps, p)
           ends2 == [i \in 0..(N + 1) |-> IF i = N + 1 THEN Len(u) ELSE ends[i]]
<1>1. /\ ps \in Seq(Accepted) /\ st \in Seq(Nat)
      /\ ends \in [0..N -> Nat] /\ ends[0] = 0 /\ ends[N] = Len(st)
      /\ \A i, j \in 0..N : i <= j => ends[i] <= ends[j]
  BY Zenon DEF Framed
<1>2. \A n \in 1..N : /\ ends[n] = ends[n - 1] + HeadLength + Len(ps[n].data)
                      /\ IsFrame(st, ends[n - 1], ps[n])
  BY Zenon DEF Framed
<1>3. N \in Nat /\ qs \in Seq(Accepted) /\ Len(qs) = N + 1 /\ qs[N + 1] = p
      /\ \A n \in 1..N : qs[n] = ps[n]
  BY <1>1
<1> HIDE DEF qs
<1>4. /\ Extends(u, Nat, st) /\ Len(u) = Len(st) + HeadLength + Len(p.data)
      /\ IsFrame(u, Len(st), p)
  BY <1>1, FrameWritten, Zenon
<1>5. u \in Seq(Nat) /\ Len(u) \in Nat /\ Len(st) \in Nat /\ Len(st) <= Len(u)
  <2>1. u \in Seq(Nat) /\ Len(st) <= Len(u)
    BY <1>4, Zenon DEF Extends
  <2> QED BY ONLY <1>1, <2>1
<1> HIDE DEF N
<1>6. ends2 \in [0..(N + 1) -> Nat]
  BY ONLY <1>1, <1>3, <1>5
<1>7. ends2[N + 1] = Len(u) /\ \A i \in 0..N : ends2[i] = ends[i] /\ ends[i] \in Nat
  BY ONLY <1>1, <1>3, <1>5
<1>8. ends2[0] = 0
  BY ONLY <1>1, <1>3, <1>7
<1> HIDE DEF ends2
<1>9. ASSUME NEW i \in 0..(N + 1), NEW j \in 0..(N + 1), i <= j PROVE ends2[i] <= ends2[j]
  <2>1. CASE j # N + 1
    <3>1. i \in 0..N /\ j \in 0..N
      BY ONLY <2>1, <1>3, i \in 0..(N + 1), j \in 0..(N + 1), i <= j
    <3>2. ends[i] <= ends[j] /\ ends2[i] = ends[i] /\ ends2[j] = ends[j]
      BY <3>1, <1>1, <1>7, <1>9, Zenon
    <3> QED BY <3>2, Zenon
  <2>2. CASE j = N + 1 /\ i = N + 1
    BY ONLY <2>2, <1>5, <1>7
  <2>3. CASE j = N + 1 /\ i # N + 1
    <3>1. i \in 0..N /\ N \in 0..N /\ i <= N
      BY ONLY <2>3, <1>3, i \in 0..(N + 1)
    <3>2. ends[i] <= ends[N] /\ ends2[i] = ends[i] /\ ends[i] \in Nat
      BY ONLY <3>1, <1>1, <1>7, Zenon
    <3> QED BY ONLY <2>3, <3>2, <1>1, <1>5, <1>7
  <2> QED BY <2>1, <2>2, <2>3, Zenon
<1>10. ASSUME NEW n \in 1..(N + 1)
       PROVE  /\ ends2[n] = ends2[n - 1] + HeadLength + Len(qs[n].data)
              /\ IsFrame(u, ends2[n - 1], qs[n])
  <2>1. CASE n = N + 1
    <3>1. n - 1 = N /\ N \in 0..N
      BY ONLY <1>3, <2>1
    <3>2. ends2[n - 1] = Len(st) /\ qs[n] = p /\ ends2[n] = Len(u)
      BY ONLY <2>1, <3>1, <1>1, <1>3, <1>7, Zenon
    <3> QED BY <3>2, <1>4, Zenon
  <2>2. CASE n # N + 1
    <3>1. n \in 1..N /\ n \in 0..N /\ n - 1 \in 0..N /\ N \in 0..N /\ n <= N
      BY ONLY <1>3, <2>2, n \in 1..(N + 1)
    <3>2. /\ ends2[n] = ends[n] /\ ends2[n - 1] = ends[n - 1] /\ qs[n] = ps[n]
          /\ ends[n - 1] \in Nat /\ ends[n] <= Len(st)
      BY ONLY <3>1, <1>1, <1>3, <1>7, Zenon
    <3>3. ps[n] \in Accepted
      BY <3>1, <1>1, ElementIn, Zenon DEF N
    <3>4. IsFrame(u, ends[n - 1], ps[n])
      <4>1. ends[n - 1] + HeadLength + Len(ps[n].data) <= Len(st)
        BY ONLY <3>1, <3>2, <1>2, Zenon
      <4>2. IsFrame(st, ends[n - 1], ps[n])
        BY <3>1, <1>2, Zenon
      <4> QED BY <4>1, <4>2, <3>2, <3>3, <1>1, <1>4, FrameStays, Zenon
    <3> QED BY <3>1, <3>2, <3>4, <1>2, Zenon
  <2> QED BY <2>1, <2>2, Zenon
<1>11. Framed(qs, u, ends2)
  BY <1>3, <1>5, <1>6, <1>7, <1>8, <1>9, <1>10, Zenon DEF Framed
<1> QED BY <1>11, Zenon DEF qs

\* A sequence over a set is one over a larger set.
LEMMA WiderSeq ==
  ASSUME NEW S, NEW U, S \subseteq U, NEW s \in Seq(S)
  PROVE  s \in Seq(U)
OBVIOUS

\* The packets that were encoded are what is on the stream.
PacketInv == \E ends : Framed(sent, stream, ends)

\* PacketInv holds in every state.
LEMMA PacketInvariance == PacketSpec => []PacketInv
<1>1. PacketInit => PacketInv
  <2> SUFFICES ASSUME PacketInit PROVE PacketInv
    OBVIOUS
  <2> DEFINE ends == [i \in 0..0 |-> 0]
  <2>1. sent = <<>> /\ stream = <<>>
    BY DEF PacketInit
  <2>2. /\ sent \in Seq(Accepted) /\ stream \in Seq(Nat) /\ Len(sent) = 0 /\ Len(stream) = 0
    BY <2>1
  <2>3. ends \in [0..0 -> Nat] /\ ends[0] = 0
    OBVIOUS
  <2> HIDE DEF ends
  <2>4. \A i, j \in 0..0 : i <= j => ends[i] <= ends[j]
    BY <2>3
  <2>5. 1..0 = {}
    OBVIOUS
  <2>6. Framed(sent, stream, ends)
    BY <2>2, <2>3, <2>4, <2>5 DEF Framed
  <2> QED BY <2>6, Zenon DEF PacketInv
<1>2. PacketInv /\ [PacketNext]_packetVars => PacketInv'
  <2> SUFFICES ASSUME PacketInv, [PacketNext]_packetVars PROVE PacketInv'
    OBVIOUS
  <2>1. ASSUME NEW typ \in PacketTypes, NEW d \in Payloads, EncodePacket(typ, d)
        PROVE  PacketInv'
    <3> DEFINE p == [type |-> typ, data |-> d]
    <3>1. PICK ends : Framed(sent, stream, ends)
      BY Zenon DEF PacketInv
    <3>2. /\ typ \in Handshake..Data /\ sent' = Append(sent, p)
          /\ stream' = stream \o <<p.type>> \o IntToBytes(Len(p.data)) \o p.data
      BY <2>1 DEF EncodePacket
    <3>3. d \in Seq(Nat)
      <4>1. d \in Seq(0..(ByteSize - 1)) /\ 0..(ByteSize - 1) \subseteq Nat
        BY PacketAssumption
      <4> QED BY <4>1, WiderSeq, Zenon
    <3>4. p \in Accepted
      BY <3>2, <3>3 DEF Accepted
    <3> HIDE DEF p
    <3>5. \E ends2 : Framed(Append(sent, p), stream', ends2)
      BY <3>1, <3>2, <3>4, FrameAppended, Zenon
    <3> QED BY <3>2, <3>5, Zenon DEF PacketInv
  <2>2. CASE UNCHANGED packetVars
    BY <2>2 DEF packetVars, PacketInv
  <2> QED BY <2>1, <2>2 DEF PacketNext
<1> QED BY <1>1, <1>2, PTL DEF PacketSpec

\* EndOf[n] is the place where the n-th packet ends.
LEMMA EndsFound ==
  ASSUME NEW ends, Framed(sent, stream, ends)
  PROVE  \A n \in 0..Len(sent) : EndOf[n] = ends[n]
<1> DEFINE N == Len(sent)
           Body(f, n) == IF n = 0 THEN 0 ELSE f[n - 1] + HeadLength + Len(sent[n].data)
<1>1. /\ sent \in Seq(Accepted) /\ ends \in [0..N -> Nat] /\ ends[0] = 0
      /\ \A n \in 1..N : ends[n] = ends[n - 1] + HeadLength + Len(sent[n].data)
  BY Zenon DEF Framed
<1>2. N \in Nat
  BY <1>1
<1>3. ASSUME NEW n \in 0..N PROVE ends[n] = Body(ends, n)
  <2>1. n = 0 \/ n \in 1..N
    <3> HIDE DEF N, Body
    <3> QED BY ONLY <1>2, n \in 0..N
  <2>2. CASE n = 0
    BY <2>2, <1>1, Zenon
  <2>3. CASE n # 0
    BY <2>1, <2>3, <1>1, Zenon
  <2> QED BY <2>2, <2>3
<1>4. ends = [n \in 0..N |-> Body(ends, n)]
  <2> HIDE DEF N, Body
  <2> QED BY ONLY <1>1, <1>3
<1>5. EndOf = [n \in 0..N |-> Body(EndOf, n)]
  BY <1>4, Zenon DEF EndOf
<1> DEFINE T == {n \in 0..N : EndOf[n] # ends[n]}
<1> SUFFICES ASSUME T # {} PROVE FALSE
  OBVIOUS
<1>6. T \subseteq Nat
  <2> HIDE DEF N
  <2> QED BY ONLY <1>2 DEF T
<1>7. PICK n \in T : \A y \in T : n <= y
  <2> HIDE DEF T
  <2> QED BY <1>6, LeastNumber, Zenon
<1>8. n \in 0..N /\ EndOf[n] # ends[n]
  BY Zenon
<1>9. EndOf[n] = Body(EndOf, n)
  <2> HIDE DEF Body, N
  <2> QED BY ONLY Zenon, <1>5, <1>8
<1>10. n # 0
  BY <1>1, <1>8, <1>9, Zenon
<1>11. n - 1 \in 0..N /\ ~(n <= n - 1)
  <2> HIDE DEF N
  <2> QED BY ONLY <1>2, <1>8, <1>10
<1>12. EndOf[n - 1] = ends[n - 1]
  BY <1>7, <1>11, Zenon
<1> QED BY <1>3, <1>8, <1>9, <1>10, <1>12, Zenon

\* N is the number of packets that are complete at a cut.
IsComplete(N, ps, ends, cut) ==
  N \in 0..Len(ps) /\ ends[N] <= cut /\ (N = Len(ps) \/ ends[N + 1] > cut)

\* Complete finds that number.
LEMMA CompleteFound ==
  ASSUME NEW ends, Framed(sent, stream, ends), NEW cut \in 0..Len(stream)
  PROVE  IsComplete(Complete(cut), sent, ends, cut)
<1> DEFINE N == Len(sent)
           T == {n \in 0..N : n = N \/ ends[n + 1] > cut}
<1>1. /\ sent \in Seq(Accepted) /\ stream \in Seq(Nat)
      /\ ends \in [0..N -> Nat] /\ ends[0] = 0
  BY Zenon DEF Framed
<1>2. N \in Nat /\ cut \in Nat
  BY <1>1
<1>3. T \subseteq Nat /\ T # {}
  <2>1. N \in T
    BY <1>2
  <2>2. T \subseteq Nat
    <3> HIDE DEF N
    <3> QED BY ONLY <1>2 DEF T
  <2> HIDE DEF T
  <2> QED BY <2>1, <2>2
<1>4. PICK n \in T : \A y \in T : n <= y
  <2> HIDE DEF T
  <2> QED BY <1>3, LeastNumber, Zenon
<1>5. n \in 0..N /\ (n = N \/ ends[n + 1] > cut)
  BY Zenon
<1> HIDE DEF N
<1>6. ends[n] <= cut
  <2>1. CASE n = 0
    BY ONLY <2>1, <1>1, <1>2
  <2>2. CASE n # 0
    <3>1. n - 1 \in 0..N /\ n - 1 # N /\ ~(n <= n - 1) /\ (n - 1) + 1 = n
      BY ONLY <2>2, <1>2, <1>5
    <3>2. ~(ends[n] > cut)
      BY <3>1, <1>4, Zenon
    <3>3. ends[n] \in Nat
      BY ONLY <1>1, <1>5
    <3> QED BY ONLY <3>2, <3>3, <1>2
  <2> QED BY <2>1, <2>2
<1>7. \A k \in 0..N : EndOf[k] = ends[k]
  BY EndsFound, Zenon DEF N
<1>8. ASSUME NEW k \in 0..N
      PROVE  (EndOf[k] <= cut /\ (k = N \/ EndOf[k + 1] > cut))
               <=> (ends[k] <= cut /\ (k = N \/ ends[k + 1] > cut))
  <2>1. k = N \/ k + 1 \in 0..N
    BY ONLY <1>2, k \in 0..N
  <2>2. CASE k = N
    BY <2>2, <1>7, Zenon
  <2>3. CASE k + 1 \in 0..N
    BY <2>3, <1>7, Zenon
  <2> QED BY <2>1, <2>2, <2>3
<1>9. \E k \in 0..N : EndOf[k] <= cut /\ (k = N \/ EndOf[k + 1] > cut)
  BY <1>5, <1>6, <1>8, Zenon
<1> DEFINE c == Complete(cut)
<1>10. c \in 0..N /\ EndOf[c] <= cut /\ (c = N \/ EndOf[c + 1] > cut)
  BY <1>9, Zenon DEF Complete, N
<1> HIDE DEF c
<1>11. IsComplete(c, sent, ends, cut)
  BY <1>8, <1>10, Zenon DEF IsComplete, N
<1> QED BY <1>11, Zenon DEF c

\* The elements from k + 1 to n are that at k + 1 and those behind it.
LEMMA Peeled ==
  ASSUME NEW S, NEW s \in Seq(S), NEW k \in Nat, NEW n \in Nat, k < n, n <= Len(s)
  PROVE  SubSeq(s, k + 1, n) = <<s[k + 1]>> \o SubSeq(s, (k + 1) + 1, n)
<1> DEFINE u == SubSeq(s, k + 1, n)
           v == SubSeq(s, (k + 1) + 1, n)
           x == <<s[k + 1]>>
           w == x \o v
<1>1. IsCut(u, S, s, k, n)
  BY CutOut
<1>2. k + 1 \in Nat /\ k + 1 <= n /\ k + 1 \in 1..Len(s)
  OBVIOUS
<1>3. IsCut(v, S, s, k + 1, n)
  BY <1>2, CutOut, Zenon
<1> HIDE DEF u, v
<1>4. s[k + 1] \in S
  BY <1>2, ElementIn, Zenon
<1>5. x \in Seq(S) /\ Len(x) = 1 /\ x[1] = s[k + 1]
  BY <1>4
<1> HIDE DEF x
<1>6. /\ u \in Seq(S) /\ Len(u) = n - k /\ \A i \in 1..(n - k) : u[i] = s[k + i]
      /\ v \in Seq(S) /\ Len(v) = n - (k + 1) /\ \A i \in 1..(n - (k + 1)) : v[i] = s[(k + 1) + i]
  BY <1>1, <1>3, Zenon DEF IsCut
<1>7. IsConcat(w, S, x, v)
  BY <1>5, <1>6, Concat, Zenon
<1> HIDE DEF w
<1>8. /\ w \in Seq(S) /\ Len(w) = Len(x) + Len(v)
      /\ \A i \in 1..Len(x) : w[i] = x[i]
      /\ \A i \in 1..Len(v) : w[Len(x) + i] = v[i]
  BY <1>7, Zenon DEF IsConcat
<1>9. Len(u) = Len(w)
  <2>1. Len(x) = 1 /\ Len(v) = n - (k + 1) /\ Len(w) = Len(x) + Len(v) /\ Len(u) = n - k
    BY <1>5, <1>6, <1>8, Zenon
  <2> QED BY ONLY <2>1, k \in Nat, n \in Nat
<1>10. ASSUME NEW i \in 1..Len(u) PROVE u[i] = w[i]
  <2>1. i \in 1..(n - k) /\ u[i] = s[k + i]
    BY <1>6, Zenon
  <2>2. CASE i = 1
    <3>1. 1 \in 1..Len(x)
      BY <1>5
    <3>2. w[1] = s[k + 1]
      BY <3>1, <1>5, <1>8, Zenon
    <3> QED BY <2>1, <2>2, <3>2, Zenon
  <2>3. CASE i # 1
    <3>1. i - 1 \in 1..(n - (k + 1)) /\ 1 + (i - 1) = i /\ (k + 1) + (i - 1) = k + i
      BY <2>1, <2>3
    <3>2. w[1 + (i - 1)] = s[(k + 1) + (i - 1)]
      BY <3>1, <1>5, <1>6, <1>8, Zenon
    <3> QED BY <2>1, <3>1, <3>2, Zenon
  <2> QED BY <2>2, <2>3
<1>11. u = w
  BY <1>6, <1>8, <1>9, <1>10, SameSeq, Zenon
<1> QED BY <1>11, Zenon DEF u, v, w, x

\* From the end of any complete packet on, Decode finds the other complete ones.
LEMMA SuffixDecodes ==
  ASSUME NEW ps, NEW st, NEW ends, Framed(ps, st, ends),
         \A i \in 1..Len(ps) : Len(ps[i].data) < MaxPacketSize,
         NEW cut \in 0..Len(st), NEW N, IsComplete(N, ps, ends, cut)
  PROVE  \A k \in 0..N :
           Decodes(SubSeq(st, ends[k] + 1, cut), SubSeq(ps, k + 1, N))
<1> DEFINE P(k) == Decodes(SubSeq(st, ends[k] + 1, cut), SubSeq(ps, k + 1, N))
           M == Len(ps)
<1>1. /\ ps \in Seq(Accepted) /\ st \in Seq(Nat)
      /\ ends \in [0..M -> Nat] /\ ends[M] = Len(st)
      /\ \A i, j \in 0..M : i <= j => ends[i] <= ends[j]
  BY Zenon DEF Framed
<1>2. \A n \in 1..M : /\ ends[n] = ends[n - 1] + HeadLength + Len(ps[n].data)
                      /\ IsFrame(st, ends[n - 1], ps[n])
                      /\ Len(ps[n].data) < MaxPacketSize
  BY Zenon DEF Framed
<1>3. N \in 0..M /\ ends[N] <= cut /\ (N = M \/ ends[N + 1] > cut)
  BY Zenon DEF IsComplete
<1>4. M \in Nat /\ cut \in Nat /\ cut <= Len(st) /\ Len(st) \in Nat
  BY <1>1
<1>5. \A n \in 1..M : ps[n] \in Accepted
  BY <1>1, ElementIn, Zenon
<1> HIDE DEF M
<1>6. P(N)
  <2>1. SubSeq(ps, N + 1, N) = <<>>
    <3>1. N \in Nat
      BY ONLY <1>3, <1>4
    <3> QED BY <1>1, <3>1
  <2>2. CASE N = M
    <3> DEFINE buf == SubSeq(st, ends[N] + 1, cut)
    <3>1. ends[N] = cut /\ ends[N] \in Nat
      BY ONLY <2>2, <1>1, <1>3, <1>4
    <3>2. buf \in Seq(Nat) /\ Len(buf) = 0
      <4>1. IsCut(buf, Nat, st, ends[N], cut)
        BY <3>1, <1>1, <1>3, <1>4, CutOut, Zenon
      <4> HIDE DEF buf
      <4>2. buf \in Seq(Nat) /\ Len(buf) = cut - ends[N]
        BY <4>1, Zenon DEF IsCut
      <4> QED BY ONLY <4>2, <3>1, <1>4
    <3> HIDE DEF buf
    <3>3. Len(buf) < HeadLength
      BY ONLY <3>2 DEF HeadLength
    <3>4. ~Whole(buf) /\ Stop(buf) = Good(<<>>)
      BY <3>3, Zenon DEF Good, Whole, Stop
    <3>5. Decodes(buf, <<>>)
      BY <3>2, <3>4, DecodeEquation, Zenon DEF Decodes
    <3> QED BY <2>1, <3>5, Zenon DEF buf
  <2>3. CASE N # M
    <3>1. N + 1 \in 1..M /\ (N + 1) - 1 = N
      BY ONLY <2>3, <1>3, <1>4
    <3>2. /\ ends[N + 1] = ends[N] + HeadLength + Len(ps[N + 1].data)
          /\ IsFrame(st, ends[N], ps[N + 1]) /\ Len(ps[N + 1].data) < MaxPacketSize
          /\ ps[N + 1] \in Accepted
      BY <3>1, <1>2, <1>5, Zenon
    <3>3. ends[N] \in Nat /\ ends[N + 1] \in Nat
      BY ONLY <3>1, <1>1, <1>3, <1>4
    <3>4. cut < ends[N + 1]
      BY ONLY <2>3, <3>3, <1>3, <1>4
    <3>5. Decodes(SubSeq(st, ends[N] + 1, cut), <<>>)
      BY <3>2, <3>3, <3>4, <1>1, <1>3, <1>4, CutDecodes, Zenon
    <3> QED BY <2>1, <3>5, Zenon
  <2> QED BY <2>2, <2>3
<1>7. ASSUME NEW k \in 0..N, k # N, P(k + 1) PROVE P(k)
  <2>1. /\ k + 1 \in 1..M /\ (k + 1) - 1 = k /\ k \in 0..M /\ k + 1 \in 0..M /\ k + 1 <= N
        /\ k \in Nat /\ N \in Nat /\ k < N /\ N <= M /\ N \in 0..M
    BY ONLY <1>3, <1>4, k \in 0..N, k # N
  <2>2. /\ ends[k + 1] = ends[k] + HeadLength + Len(ps[k + 1].data)
        /\ IsFrame(st, ends[k], ps[k + 1]) /\ Len(ps[k + 1].data) < MaxPacketSize
        /\ ps[k + 1] \in Accepted
    BY <2>1, <1>2, <1>5, Zenon
  <2>3. ends[k] \in Nat /\ ends[k + 1] \in Nat /\ ends[N] \in Nat /\ ends[k + 1] <= ends[N]
    BY ONLY Zenon, <2>1, <1>1
  <2>4. ends[k + 1] <= cut
    BY ONLY <2>3, <1>3, <1>4
  <2>5. SubSeq(ps, k + 1, N) = <<ps[k + 1]>> \o SubSeq(ps, (k + 1) + 1, N)
    BY <2>1, <1>1, Peeled, Zenon DEF M
  <2> DEFINE rest == SubSeq(ps, (k + 1) + 1, N)
  <2>6. Decodes(SubSeq(st, ends[k + 1] + 1, cut), rest)
    BY <1>7, Zenon
  <2> DEFINE at == ends[k]
             end == ends[k + 1]
             p == ps[k + 1]
  <2> HIDE DEF rest, P
  <2>7. Decodes(SubSeq(st, at + 1, cut), <<p>> \o rest)
    <3>1. /\ at \in Nat /\ p \in Accepted /\ Len(p.data) < MaxPacketSize /\ IsFrame(st, at, p)
          /\ end = at + HeadLength + Len(p.data) /\ end <= cut
          /\ Decodes(SubSeq(st, end + 1, cut), rest)
      BY <2>2, <2>3, <2>4, <2>6, Zenon
    <3> HIDE DEF at, end, p
    <3> QED BY ONLY <3>1, <1>1, <1>4, FrameDecodes, Zenon
  <2> QED BY <2>5, <2>7, Zenon DEF rest, P
<1> HIDE DEF P
<1>8. N \in Nat
  BY ONLY <1>3, <1>4
<1> DEFINE T == {j \in 0..N : ~P(N - j)}
<1>9. T = {}
  <2> SUFFICES ASSUME T # {} PROVE FALSE
    OBVIOUS
  <2>1. T \subseteq Nat
    BY ONLY <1>8 DEF T
  <2>2. PICK j \in T : \A y \in T : j <= y
    <3> HIDE DEF T
    <3> QED BY <2>1, LeastNumber, Zenon
  <2>3. j \in 0..N /\ ~P(N - j)
    BY Zenon
  <2>4. j # 0
    <3>1. N - 0 = N
      BY ONLY <1>8
    <3> QED BY <3>1, <2>3, <1>6, Zenon
  <2>5. /\ j - 1 \in 0..N /\ ~(j <= j - 1) /\ N - j \in 0..N /\ N - j # N
        /\ N - (j - 1) = (N - j) + 1
    BY ONLY <1>8, <2>3, <2>4
  <2>6. P(N - (j - 1))
    BY <2>2, <2>5, Zenon
  <2> QED BY <2>3, <2>5, <2>6, <1>7, Zenon
<1>10. ASSUME NEW k \in 0..N PROVE P(k)
  <2>1. N - k \in 0..N /\ N - (N - k) = k
    BY ONLY <1>8, k \in 0..N
  <2> QED BY <2>1, <1>9, Zenon
<1> QED BY <1>10, Zenon DEF P

\* Wherever the stream is cut, Decode finds exactly the packets that are complete by then,
\* with their types and data, and reports no error.
THEOREM PacketsSurvive == PacketSpec => []FramesSurvive
<1>1. PacketInv => FramesSurvive
  <2> SUFFICES ASSUME PacketInv, \A i \in 1..Len(sent) : Len(sent[i].data) < MaxPacketSize,
                      NEW cut \in 0..Len(stream)
               PROVE  Decodes(SubSeq(stream, 1, cut), SubSeq(sent, 1, Complete(cut)))
    BY Zenon DEF FramesSurvive, Good, Decodes
  <2>1. PICK ends : Framed(sent, stream, ends)
    BY Zenon DEF PacketInv
  <2> DEFINE N == Complete(cut)
  <2>2. IsComplete(N, sent, ends, cut)
    BY <2>1, CompleteFound, Zenon
  <2> HIDE DEF N
  <2>3. 0 \in 0..N /\ 0 + 1 = 1
    <3>1. N \in 0..Len(sent) /\ sent \in Seq(Accepted)
      BY <2>1, <2>2, Zenon DEF IsComplete, Framed
    <3> QED BY ONLY <3>1
  <2>4. ends[0] = 0
    BY <2>1, Zenon DEF Framed
  <2>5. \A k \in 0..N :
          Decodes(SubSeq(stream, ends[k] + 1, cut), SubSeq(sent, k + 1, N))
    BY <2>1, <2>2, SuffixDecodes, Zenon
  <2> QED BY <2>3, <2>4, <2>5, Zenon DEF N
<1> QED BY <1>1, PacketInvariance, PTL
=============================================================================
