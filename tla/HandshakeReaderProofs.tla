----------------------- MODULE HandshakeReaderProofs -----------------------
(***************************************************************************)
(* The handshake gets the peer's messages whole, in order and once each,   *)
(* for any bodies, byte base, record size and buffer size, and however the *)
(* peer splits its bytes over records and packs them into records.         *)
(*                                                                         *)
(* The invariant is a conservation law: until the reader fails, what it    *)
(* holds, what is on the wire and what is not yet in a record is, byte for *)
(* byte, the encoding of the messages it has not returned.  A header read  *)
(* off the front of the buffer is therefore that of the next message.      *)
(*                                                                         *)
(* The bytes on the wire are a flattened sequence.  What flattening does   *)
(* is proved by induction, in the form of a set of numbers that holds 0    *)
(* and is closed under successor.                                          *)
(*                                                                         *)
(* That a peer whose messages fit is never refused needs to know where in  *)
(* the byte stream each record lies: the second invariant assigns to every *)
(* record on the wire the number of handshake bytes that come after it.    *)
(***************************************************************************)
EXTENDS HandshakeReader, SequenceTheorems, WellFoundedInduction, TLAPS

-----------------------------------------------------------------------------
(* Induction *)

\* A nonempty set of numbers has a least element.
LEMMA LeastElement ==
  ASSUME NEW T \in SUBSET Nat, T # {}
  PROVE  \E x \in T : \A y \in T : ~(y < x)
<1>1. IsWellFoundedOn(OpToRel(<, Nat), Nat)
  BY NatLessThanWellFounded, Zenon
<1>2. \A x, y \in Nat : x < y => <<x, y>> \in OpToRel(<, Nat)
  BY Zenon DEF OpToRel
<1>3. \E x \in T : \A y \in T : ~(<<y, x>> \in OpToRel(<, Nat))
  BY <1>1, WFMin, Zenon
<1> QED BY <1>2, <1>3, Zenon

\* A set that holds 0 and is closed under successor holds every number.
LEMMA SetInduction ==
  ASSUME NEW P \in SUBSET Nat, 0 \in P, \A n \in P : n + 1 \in P
  PROVE  P = Nat
<1> SUFFICES ASSUME P # Nat PROVE FALSE
  BY Zenon
<1>1. Nat \ P # {}
  BY Zenon
<1>2. PICK x \in Nat \ P : \A y \in Nat \ P : ~(y < x)
  BY <1>1, LeastElement, Zenon
<1>3. x # 0 /\ x - 1 \in Nat /\ x - 1 < x /\ (x - 1) + 1 = x
  OBVIOUS
<1>4. x - 1 \in P
  BY <1>2, <1>3, Zenon
<1> QED BY <1>3, <1>4, Zenon

-----------------------------------------------------------------------------
(* Concatenation *)

\* Concatenation is associative.
Regroups(a, b, c) == (a \o b) \o c = a \o (b \o c)
RegroupsFour(a, b, c, d) == (a \o b) \o (c \o d) = a \o ((b \o c) \o d)

LEMMA Associative ==
  ASSUME NEW T, NEW a \in Seq(T), NEW b \in Seq(T), NEW c \in Seq(T)
  PROVE  Regroups(a, b, c)
<1>1. (a \o b) \o c = a \o (b \o c)
  BY ConcatAssociative, SMTT(30)
<1> QED BY <1>1, Zenon DEF Regroups

\* What concatenation returns.
LEMMA Concat ==
  ASSUME NEW T, NEW a \in Seq(T), NEW b \in Seq(T)
  PROVE  /\ a \o b \in Seq(T) /\ Len(a \o b) = Len(a) + Len(b)
         /\ Len(a) \in Nat /\ Len(b) \in Nat
BY ConcatProperties, LenProperties, Zenon

\* Four sequences in a row may be grouped around the middle two.
LEMMA FourParts ==
  ASSUME NEW T, NEW a \in Seq(T), NEW b \in Seq(T), NEW c \in Seq(T), NEW d \in Seq(T)
  PROVE  RegroupsFour(a, b, c, d)
<1>1. Regroups(b, c, d)
  BY Associative, Zenon
<1>2. Regroups(a, b, c \o d)
  BY Associative, Concat, Zenon
<1> QED BY <1>1, <1>2, Zenon DEF Regroups, RegroupsFour

\* The elements of a concatenation are those of its two parts.
LEMMA FrontAndBack ==
  ASSUME NEW T, NEW a \in Seq(T), NEW b \in Seq(T)
  PROVE  /\ \A i \in 1 .. Len(a) : (a \o b)[i] = a[i]
         /\ \A i \in 1 .. Len(b) : (a \o b)[Len(a) + i] = b[i]
OBVIOUS

\* Two ways to cut the same sequence: the longer front begins with the shorter one.
SameJoined(a, b, c, d) == a \o b = c \o d
SameFront(a, c) == \A i \in 1 .. Len(c) : a[i] = c[i]
SameBack(a, b, c, d) == SubSeq(a, Len(c) + 1, Len(a)) \o b = d

LEMMA TwoCuts ==
  ASSUME NEW T, NEW a \in Seq(T), NEW b \in Seq(T), NEW c \in Seq(T), NEW d \in Seq(T),
         SameJoined(a, b, c, d), Len(c) <= Len(a)
  PROVE  SameFront(a, c) /\ SameBack(a, b, c, d)
<1> DEFINE r == SubSeq(a, Len(c) + 1, Len(a))
<1>1. /\ Len(a) \in Nat /\ Len(b) \in Nat /\ Len(c) \in Nat /\ Len(d) \in Nat
      /\ Len(a) + Len(b) = Len(c) + Len(d)
  <2>1. /\ Len(a) \in Nat /\ Len(b) \in Nat /\ Len(a \o b) = Len(a) + Len(b)
        /\ Len(c) \in Nat /\ Len(d) \in Nat /\ Len(c \o d) = Len(c) + Len(d)
    BY Concat, Zenon
  <2> QED BY <2>1, Zenon DEF SameJoined
<1>2. ASSUME NEW i \in 1 .. Len(c) PROVE a[i] = c[i]
  <2>1. (a \o b)[i] = a[i] /\ (c \o d)[i] = c[i]
    <3>1. i \in 1 .. Len(a)
      BY <1>1
    <3> QED BY <3>1, FrontAndBack, Zenon
  <2> QED BY <2>1, Zenon DEF SameJoined
<1>3. /\ r \in Seq(T) /\ Len(r) = Len(a) - Len(c)
      /\ \A i \in 1 .. Len(a) - Len(c) : r[i] = a[Len(c) + i]
  <2>1. \A i \in Len(c) + 1 .. Len(a) : a[i] \in T
    BY <1>1, ElementOfSeq
  <2> QED BY <2>1, <1>1, SubSeqProperties
<1> HIDE DEF r
<1>4. r \o b \in Seq(T) /\ Len(r \o b) = Len(d)
  BY <1>1, <1>3, ConcatProperties
<1>5. ASSUME NEW i \in 1 .. Len(d) PROVE (r \o b)[i] = d[i]
  <2>1. (c \o d)[Len(c) + i] = d[i]
    BY FrontAndBack
  <2>2. CASE i <= Len(r)
    <3>1. (r \o b)[i] = r[i]
      BY <2>2, <1>3, FrontAndBack
    <3>2. (a \o b)[Len(c) + i] = a[Len(c) + i]
      BY <2>2, <1>1, <1>3, FrontAndBack
    <3>3. i \in 1 .. Len(a) - Len(c)
      BY <2>2, <1>3
    <3> QED BY <2>1, <3>1, <3>2, <3>3, <1>3, Zenon DEF SameJoined
  <2>3. CASE i > Len(r)
    <3> DEFINE j == i - Len(r)
    <3>1. /\ j \in 1 .. Len(b) /\ i = Len(r) + j /\ Len(c) + i = Len(a) + j
      BY <2>3, <1>1, <1>3
    <3>2. r \in Seq(T) /\ j \in 1 .. Len(b)
      BY <1>3, <3>1, Zenon
    <3> HIDE DEF j
    <3>3. (r \o b)[Len(r) + j] = b[j]
      BY <3>2, FrontAndBack
    <3>4. (a \o b)[Len(a) + j] = b[j]
      BY <3>2, FrontAndBack
    <3> QED BY <2>1, <3>1, <3>3, <3>4, Zenon DEF SameJoined
  <2> QED BY <2>2, <2>3, <1>1, <1>3
<1>6. r \o b = d
  BY <1>4, <1>5, SeqEqual, Zenon
<1> QED BY <1>2, <1>6, Zenon DEF r, SameFront, SameBack

-----------------------------------------------------------------------------
(* Flattening *)

\* The function f flattens the first n of the sequences s, one by one.
Flattens(f, s, n) ==
  f = [i \in 1 .. n |-> IF i = 1 THEN s[i] ELSE f[i - 1] \o s[i]]

\* Such a function exists, and its values are sequences over the same set.
LEMMA FlattenExists ==
  ASSUME NEW T, NEW s \in Seq(Seq(T)), NEW m \in 0 .. Len(s)
  PROVE  \E f \in [1 .. m -> Seq(T)] : Flattens(f, s, m)
<1> DEFINE P == {n \in Nat : n <= Len(s) => \E f \in [1 .. n -> Seq(T)] : Flattens(f, s, n)}
<1>1. 0 \in P
  <2> DEFINE e == [i \in 1 .. 0 |-> << >>]
  <2>1. e \in [1 .. 0 -> Seq(T)]
    OBVIOUS
  <2>2. Flattens(e, s, 0)
    BY DEF Flattens
  <2> QED BY <2>1, <2>2, Zenon
<1>2. ASSUME NEW n \in P PROVE n + 1 \in P
  <2> SUFFICES ASSUME n + 1 <= Len(s)
               PROVE  \E f \in [1 .. n + 1 -> Seq(T)] : Flattens(f, s, n + 1)
    OBVIOUS
  <2>1. n \in Nat /\ n <= Len(s)
    OBVIOUS
  <2>2. PICK f \in [1 .. n -> Seq(T)] : Flattens(f, s, n)
    BY <2>1, Zenon
  <2> HIDE DEF P
  <2> DEFINE last == IF n = 0 THEN s[1] ELSE f[n] \o s[n + 1]
             g == [i \in 1 .. n + 1 |-> IF i <= n THEN f[i] ELSE last]
  <2>3. \A i \in 1 .. n + 1 : s[i] \in Seq(T)
    BY <2>1, ElementOfSeq
  <2>4. last \in Seq(T)
    <3>1. CASE n = 0
      BY <3>1, <2>3
    <3>2. CASE n # 0
      <4>1. f[n] \in Seq(T) /\ s[n + 1] \in Seq(T)
        BY <3>2, <2>3, <2>1
      <4> QED BY <3>2, <4>1, ConcatProperties, Zenon
    <3> QED BY <3>1, <3>2, Zenon
  <2>5. g \in [1 .. n + 1 -> Seq(T)]
    <3> HIDE DEF last
    <3> QED BY <2>4, <2>1
  <2>6. \A i \in 1 .. n + 1 : g[i] = IF i = 1 THEN s[i] ELSE g[i - 1] \o s[i]
    <3> SUFFICES ASSUME NEW i \in 1 .. n + 1
                 PROVE  g[i] = IF i = 1 THEN s[i] ELSE g[i - 1] \o s[i]
      BY Zenon
    <3>1. CASE i <= n
      <4>1. i \in 1 .. n
        BY <3>1, <2>1
      <4>2. (i = 1 => f[i] = s[i]) /\ (i # 1 => f[i] = f[i - 1] \o s[i])
        BY <4>1, <2>2, Zenon DEF Flattens
      <4>3. g[i] = f[i] /\ (i # 1 => g[i - 1] = f[i - 1])
        BY <3>1, <2>1
      <4> HIDE DEF g
      <4> QED BY <4>2, <4>3, Zenon
    <3>2. CASE i = n + 1
      <4>1. g[i] = last /\ (i # 1 => g[i - 1] = f[n])
        BY <3>2, <2>1
      <4>2. last = IF i = 1 THEN s[i] ELSE f[n] \o s[i]
        BY <3>2, <2>1
      <4> HIDE DEF g, last
      <4> QED BY <4>1, <4>2, Zenon
    <3> QED BY <3>1, <3>2, <2>1
  <2>7. Flattens(g, s, n + 1)
    <3>1. g = [i \in 1 .. n + 1 |-> g[i]]
      BY Zenon
    <3> HIDE DEF g
    <3> QED BY <3>1, <2>6, Zenon DEF Flattens
  <2> QED BY <2>5, <2>7, Zenon
<1>3. P = Nat
  <2> HIDE DEF P
  <2>1. P \in SUBSET Nat
    BY Zenon DEF P
  <2> QED BY <1>1, <1>2, <2>1, SetInduction, Zenon
<1>4. m \in Nat /\ m <= Len(s)
  BY LenProperties
<1>5. m \in P
  <2> HIDE DEF P
  <2> QED BY <1>3, <1>4, Zenon
<1> QED BY <1>4, <1>5, Zenon

\* The function Flatten takes its value from.
Flattening(s) == CHOOSE f : Flattens(f, s, Len(s))

\* The function chosen is one that flattens.
LEMMA FlatteningFlattens ==
  ASSUME NEW T, NEW s \in Seq(Seq(T))
  PROVE  Flattens(Flattening(s), s, Len(s))
<1>1. Len(s) \in 0 .. Len(s)
  BY LenProperties
<1>2. \E f : Flattens(f, s, Len(s))
  BY <1>1, FlattenExists, Zenon
<1> QED BY <1>2, Zenon DEF Flattening

\* Flatten is the last value of that function.
LEMMA FlattenIsLast ==
  ASSUME NEW s
  PROVE  Flatten(s) = IF Len(s) = 0 THEN s ELSE Flattening(s)[Len(s)]
BY Zenon DEF Flatten, Flattening, Flattens

\* Two flattenings agree as long as the sequences they flatten do.
SameUpTo(f, g, m) == \A i \in 1 .. m : f[i] = g[i]

\* Functions that flatten sequences with a common front agree on that front.
LEMMA FlattensAgree ==
  ASSUME NEW f, NEW g, NEW s, NEW t, NEW m \in Nat, NEW n \in Nat, m <= n,
         Flattens(f, s, m), Flattens(g, t, n), SameUpTo(s, t, m)
  PROVE  SameUpTo(f, g, m)
<1> DEFINE P == {j \in Nat : j + 1 <= m => f[j + 1] = g[j + 1]}
<1>0. /\ \A i \in 1 .. m : f[i] = IF i = 1 THEN s[i] ELSE f[i - 1] \o s[i]
      /\ \A i \in 1 .. n : g[i] = IF i = 1 THEN t[i] ELSE g[i - 1] \o t[i]
  BY Zenon DEF Flattens
<1>1. 0 \in P
  BY <1>0 DEF SameUpTo
<1>2. ASSUME NEW j \in P PROVE j + 1 \in P
  <2> SUFFICES ASSUME (j + 1) + 1 <= m PROVE f[(j + 1) + 1] = g[(j + 1) + 1]
    OBVIOUS
  <2> DEFINE i == (j + 1) + 1
  <2>1. /\ i \in 1 .. m /\ i \in 1 .. n /\ i # 1 /\ i - 1 = j + 1
        /\ f[j + 1] = g[j + 1]
    OBVIOUS
  <2>2. f[i] = f[i - 1] \o s[i] /\ g[i] = g[i - 1] \o t[i] /\ s[i] = t[i]
    BY <2>1, <1>0, Zenon DEF SameUpTo
  <2> QED BY <2>1, <2>2, Zenon
<1>3. P = Nat
  <2>1. P \in SUBSET Nat
    BY Zenon
  <2> HIDE DEF P
  <2> QED BY <1>1, <1>2, <2>1, SetInduction, Zenon
<1> SUFFICES ASSUME NEW i \in 1 .. m PROVE f[i] = g[i]
  BY Zenon DEF SameUpTo
<1>4. i - 1 \in Nat /\ (i - 1) + 1 = i /\ i <= m
  OBVIOUS
<1>5. i - 1 \in P
  <2> HIDE DEF P
  <2> QED BY <1>3, <1>4, Zenon
<1> QED BY <1>4, <1>5, Zenon

\* Nothing flattens to nothing.
LEMMA FlattenEmpty == Flatten(<< >>) = << >>
BY Zenon DEF Flatten

\* Flattening sequences over a set yields a sequence over that set.
LEMMA FlattenType ==
  ASSUME NEW T, NEW s \in Seq(Seq(T))
  PROVE  Flatten(s) \in Seq(T)
<1>1. CASE Len(s) = 0
  <2>1. s = << >>
    BY <1>1, EmptySeq, Zenon
  <2> QED BY <2>1, FlattenEmpty, EmptySeq, Zenon
<1>2. CASE Len(s) # 0
  <2>1. Len(s) \in Nat /\ Len(s) <= Len(s) /\ Len(s) \in 0 .. Len(s)
    BY LenProperties
  <2>2. PICK f \in [1 .. Len(s) -> Seq(T)] : Flattens(f, s, Len(s))
    BY <2>1, FlattenExists, Zenon
  <2>3. SameUpTo(f, Flattening(s), Len(s))
    <3>1. Flattens(Flattening(s), s, Len(s))
      BY FlatteningFlattens, Zenon
    <3>2. SameUpTo(s, s, Len(s))
      BY Zenon DEF SameUpTo
    <3> QED BY <2>1, <2>2, <3>1, <3>2, FlattensAgree, Zenon
  <2>4. Len(s) \in 1 .. Len(s)
    BY <1>2, <2>1
  <2> QED BY <1>2, <2>2, <2>3, <2>4, FlattenIsLast, Zenon DEF SameUpTo
<1> QED BY <1>1, <1>2, Zenon

\* Flattening one sequence more adds it at the end.
LEMMA FlattenAppend ==
  ASSUME NEW T, NEW s \in Seq(Seq(T)), NEW x \in Seq(T)
  PROVE  Flatten(Append(s, x)) = Flatten(s) \o x
<1> DEFINE t == Append(s, x)
<1>1. /\ t \in Seq(Seq(T)) /\ Len(t) = Len(s) + 1 /\ Len(s) \in Nat
      /\ \A i \in 1 .. Len(s) : s[i] = t[i]
      /\ t[Len(t)] = x
  BY AppendProperties, LenProperties
<1>2. Flattens(Flattening(s), s, Len(s)) /\ Flattens(Flattening(t), t, Len(t))
  BY <1>1, FlatteningFlattens, Zenon
<1>3. Flattening(t)[Len(t)] = IF Len(t) = 1 THEN x ELSE Flattening(t)[Len(s)] \o x
  <2> HIDE DEF t
  <2>1. \A i \in 1 .. Len(t) :
          Flattening(t)[i] = IF i = 1 THEN t[i] ELSE Flattening(t)[i - 1] \o t[i]
    BY <1>2, Zenon DEF Flattens
  <2> QED BY <2>1, <1>1
<1>4. Flatten(t) = Flattening(t)[Len(t)]
  <2> HIDE DEF t
  <2> QED BY <1>1, FlattenIsLast
<1>5. CASE Len(s) = 0
  <2>1. s = << >>
    BY <1>5, EmptySeq, Zenon
  <2>2. Flatten(s) \o x = x
    BY <2>1, FlattenEmpty, ConcatEmptySeq, Zenon
  <2> HIDE DEF t
  <2> QED BY <1>1, <1>3, <1>4, <1>5, <2>2 DEF t
<1>6. CASE Len(s) # 0
  <2> HIDE DEF t
  <2>1. SameUpTo(Flattening(s), Flattening(t), Len(s))
    <3>1. Len(t) \in Nat /\ Len(s) <= Len(t)
      BY <1>1
    <3>2. SameUpTo(s, t, Len(s))
      BY <1>1, Zenon DEF SameUpTo
    <3>3. Len(s) \in Nat
      BY <1>1, Zenon
    <3> QED BY <1>2, <3>1, <3>2, <3>3, FlattensAgree, Zenon
  <2>2. Flattening(s)[Len(s)] = Flattening(t)[Len(s)]
    <3>1. Len(s) \in 1 .. Len(s)
      BY <1>1, <1>6
    <3> QED BY <2>1, <3>1, Zenon DEF SameUpTo
  <2>3. Flatten(s) = Flattening(s)[Len(s)]
    BY <1>6, FlattenIsLast, Zenon
  <2>4. Flatten(t) = Flatten(s) \o x
    BY <2>2, <2>3, <1>1, <1>3, <1>4, <1>6
  <2> QED BY <2>4, Zenon DEF t
<1> QED BY <1>5, <1>6, Zenon

\* The first of the sequences comes first.
LEMMA FlattenHead ==
  ASSUME NEW T, NEW s \in Seq(Seq(T)), s # << >>
  PROVE  Flatten(s) = Head(s) \o Flatten(Tail(s))
<1> DEFINE P == {n \in Nat : \A t \in Seq(Seq(T)) :
                    t # << >> /\ Len(t) <= n + 1
                      => Flatten(t) = Head(t) \o Flatten(Tail(t))}
<1>1. ASSUME NEW n \in Nat, NEW t \in Seq(Seq(T)), t # << >>, Len(t) <= n + 1,
             n # 0 => n - 1 \in P
      PROVE  Flatten(t) = Head(t) \o Flatten(Tail(t))
  <2>1. PICK u \in Seq(Seq(T)), x \in Seq(T) : t = Append(u, x)
    BY <1>1, SequenceEmptyOrAppend, Zenon
  <2>2. Flatten(t) = Flatten(u) \o x
    BY <2>1, FlattenAppend, Zenon
  <2>3. /\ Head(t) = IF u = << >> THEN x ELSE Head(u)
        /\ Tail(t) = IF u = << >> THEN << >> ELSE Append(Tail(u), x)
    BY <2>1, HeadTailAppend, Zenon
  <2>4. CASE u = << >>
    BY <2>2, <2>3, <2>4, FlattenEmpty, ConcatEmptySeq, Zenon
  <2>5. CASE u # << >>
    <3>1. Len(u) \in Nat \ {0} /\ Len(u) + 1 = Len(t)
      BY <2>1, <2>5, AppendProperties, EmptySeq, Zenon
    <3>2. n # 0 /\ Len(u) <= (n - 1) + 1
      BY <3>1, <1>1
    <3>3. Flatten(u) = Head(u) \o Flatten(Tail(u))
      <4>1. n - 1 \in P
        BY <3>2, <1>1, Zenon
      <4> QED BY <3>2, <4>1, <2>5, Zenon
    <3>4. /\ Head(u) \in Seq(T) /\ Tail(u) \in Seq(Seq(T))
          /\ Flatten(Tail(u)) \in Seq(T)
      BY <2>5, HeadTailProperties, FlattenType, Zenon
    <3>5. Flatten(Tail(t)) = Flatten(Tail(u)) \o x
      BY <2>3, <2>5, <3>4, FlattenAppend, Zenon
    <3>6. (Head(u) \o Flatten(Tail(u))) \o x = Head(u) \o (Flatten(Tail(u)) \o x)
      <4> DEFINE a == Head(u)
                 b == Flatten(Tail(u))
      <4>1. a \in Seq(T) /\ b \in Seq(T)
        BY <3>4, Zenon
      <4> HIDE DEF a, b
      <4>2. Regroups(a, b, x)
        BY <4>1, Associative, Zenon
      <4> QED BY <4>2, Zenon DEF Regroups, a, b
    <3> QED BY <2>2, <2>3, <2>5, <3>3, <3>5, <3>6, Zenon
  <2> QED BY <2>4, <2>5, Zenon
<1>2. 0 \in P
  BY <1>1, Zenon
<1>3. ASSUME NEW n \in P PROVE n + 1 \in P
  <2>1. n + 1 \in Nat /\ (n + 1) - 1 = n
    OBVIOUS
  <2> QED BY <1>1, <1>3, <2>1, Zenon
<1>4. P = Nat
  <2>1. P \in SUBSET Nat
    BY Zenon
  <2> HIDE DEF P
  <2> QED BY <1>2, <1>3, <2>1, SetInduction, Zenon
<1>5. Len(s) \in Nat /\ Len(s) <= Len(s) + 1
  BY LenProperties
<1>6. Len(s) \in P
  <2> HIDE DEF P
  <2> QED BY <1>4, <1>5, Zenon
<1> QED BY <1>5, <1>6, Zenon

-----------------------------------------------------------------------------
(* Encoding and decoding *)

\* The bytes, in a base the model leaves open.
Byte == 0 .. Base - 1

\* Arithmetic the solver does not do by itself in larger steps.
LEMMA Distribute == \A a, b, c \in Nat : a * (b + c) = a * b + a * c
OBVIOUS

LEMMA SumOfFour ==
  \A a, b, c, d, n \in Nat : b + c + d = n => a + b + c + d = a + n
OBVIOUS

\* Three digits hold every length below the cube of the base.
LEMMA ThreeDigits ==
  ASSUME NEW n \in Nat, n < Base * Base * Base
  PROVE  /\ (n \div (Base * Base)) % Base \in Byte
         /\ (n \div Base) % Base \in Byte
         /\ n % Base \in Byte
         /\ ((n \div (Base * Base)) % Base) * (Base * Base)
              + ((n \div Base) % Base) * Base + (n % Base) = n
<1> DEFINE B == Base
           p == n \div B
           q == p \div B
<1>0. B \in Nat /\ B > 2
  BY ReaderAssumption, Zenon DEF Encrypted
<1> HIDE DEF B
<1>1. p \in Nat /\ n % B \in 0 .. B - 1 /\ n = B * p + (n % B)
  BY <1>0
<1> HIDE DEF p
<1>2. q \in Nat /\ p % B \in 0 .. B - 1 /\ p = B * q + (p % B)
  BY <1>0, <1>1
<1>3. q = n \div (B * B)
  BY <1>0 DEF p
<1> HIDE DEF q
<1>4. n < B * B * B
  BY Zenon DEF B
<1>5. q < B
  <2> SUFFICES ASSUME q >= B PROVE FALSE
    BY <1>0, <1>2
  <2>1. B * q >= B * B
    BY <1>0, <1>2
  <2>2. p >= B * B
    BY <2>1, <1>0, <1>1, <1>2
  <2>3. B * p >= B * (B * B)
    BY <2>2, <1>0, <1>1
  <2> QED BY <2>3, <1>0, <1>1, <1>4
<1>6. q % B = q
  BY <1>0, <1>2, <1>5
<1>7. n = q * (B * B) + (p % B) * B + (n % B)
  <2>1. B * p = B * (B * q) + B * (p % B)
    <3> DEFINE r == p % B
               t == B * q
    <3>1. t \in Nat /\ r \in Nat /\ p = t + r
      BY <1>0, <1>2
    <3> HIDE DEF r, t
    <3>2. B * p = B * t + B * r
      BY <1>0, <3>1, Distribute, Zenon
    <3> QED BY <3>2, Zenon DEF r, t
  <2>2. B * (B * q) = q * (B * B) /\ B * (p % B) = (p % B) * B
    BY <1>0, <1>1, <1>2
  <2> QED BY <2>1, <2>2, <1>0, <1>1, <1>2, Zenon
<1>8. /\ (n \div (B * B)) % B \in 0 .. B - 1
      /\ (n \div B) % B \in 0 .. B - 1
      /\ n % B \in 0 .. B - 1
      /\ ((n \div (B * B)) % B) * (B * B) + ((n \div B) % B) * B + (n % B) = n
  <2>1. p = n \div B
    BY Zenon DEF p
  <2>2. q \in 0 .. B - 1
    BY <1>0, <1>2, <1>5
  <2> QED BY <2>1, <2>2, <1>1, <1>2, <1>3, <1>6, <1>7, Zenon
<1> QED BY <1>8, Zenon DEF B, Byte

\* The length a header announces, its own four bytes included.
Total(b) == HandshakeHeaderLen + b[2] * (Base * Base) + b[3] * Base + b[4]

\* A header of four bytes and what follows it, by position.
LEMMA HeaderAndBody ==
  ASSUME NEW T, NEW h \in Seq(T), NEW b \in Seq(T), NEW n \in Nat, n = Len(h)
  PROVE  /\ h \o b \in Seq(T) /\ Len(h \o b) = n + Len(b)
         /\ \A i \in 1 .. n : (h \o b)[i] = h[i]
         /\ \A i \in 1 .. Len(b) : (h \o b)[n + i] = b[i]
<1>1. h \o b \in Seq(T) /\ Len(h \o b) = Len(h) + Len(b)
  BY Concat, Zenon
<1>2. \A i \in 1 .. Len(h) : (h \o b)[i] = h[i]
  BY FrontAndBack, Zenon
<1>3. \A i \in 1 .. Len(b) : (h \o b)[Len(h) + i] = b[i]
  BY FrontAndBack
<1> QED BY <1>1, <1>2, <1>3, Zenon

\* What that says of a header of four bytes.
IsHeader(h) == Len(h) = 4
HeaderThenBody(e, h, b) ==
  /\ Len(e) = 4 + Len(b)
  /\ \A i \in 1 .. 4 : e[i] = h[i]
  /\ \A i \in 1 .. Len(b) : e[4 + i] = b[i]

LEMMA FourAndBody ==
  ASSUME NEW T, NEW h \in Seq(T), NEW b \in Seq(T), IsHeader(h)
  PROVE  h \o b \in Seq(T) /\ HeaderThenBody(h \o b, h, b)
<1>1. PICK n \in Nat : n = 4
  BY Zenon
<1>2. n = Len(h)
  BY <1>1, Zenon DEF IsHeader
<1>3. /\ h \o b \in Seq(T) /\ Len(h \o b) = n + Len(b)
      /\ \A i \in 1 .. n : (h \o b)[i] = h[i]
      /\ \A i \in 1 .. Len(b) : (h \o b)[n + i] = b[i]
  BY ONLY <1>2, HeaderAndBody
<1> QED BY <1>1, <1>3, Zenon DEF HeaderThenBody

\* A message is encoded in bytes, and the header announces the length of the encoding.
LEMMA Encoding ==
  ASSUME NEW m \in Msg
  PROVE  LET e == encodeHandshakeMsg(m)
         IN  /\ e \in Seq(Byte)
             /\ Len(e) = 4 + Len(m.body)
             /\ e[1] = m.type
             /\ Total(e) = Len(e)
             /\ \A i \in 1 .. Len(m.body) : e[4 + i] = m.body[i]
<1> DEFINE n == Len(m.body)
           h == <<m.type, (n \div (Base * Base)) % Base, (n \div Base) % Base, n % Base>>
           e == h \o m.body
<1>1. m.body \in Seq(Byte) /\ n \in Nat /\ n < Base * Base * Base
  BY ReaderAssumption, LenProperties, Zenon DEF Msg, Byte
<1>2. m.type \in Byte
  BY ReaderAssumption DEF Msg, Byte, Hello, Encrypted
<1>3. /\ (n \div (Base * Base)) % Base \in Byte
      /\ (n \div Base) % Base \in Byte
      /\ n % Base \in Byte
      /\ ((n \div (Base * Base)) % Base) * (Base * Base)
           + ((n \div Base) % Base) * Base + (n % Base) = n
  BY <1>1, ThreeDigits, Zenon
<1>4. h \in Seq(Byte) /\ IsHeader(h)
  BY <1>2, <1>3 DEF IsHeader
<1>5. /\ h[1] = m.type /\ h[2] = (n \div (Base * Base)) % Base
      /\ h[3] = (n \div Base) % Base /\ h[4] = n % Base
  BY Zenon
<1> HIDE DEF h
<1>6. /\ e \in Seq(Byte) /\ Len(e) = 4 + n
      /\ \A i \in 1 .. 4 : e[i] = h[i]
      /\ \A i \in 1 .. n : e[4 + i] = m.body[i]
  <2>1. e \in Seq(Byte) /\ HeaderThenBody(e, h, m.body)
    BY <1>1, <1>4, FourAndBody, Zenon
  <2> QED BY <2>1, Zenon DEF HeaderThenBody
<1>7. e[1] = h[1] /\ e[2] = h[2] /\ e[3] = h[3] /\ e[4] = h[4]
  BY <1>6
<1> HIDE DEF e
<1>8. Total(e) = Len(e)
  <2> DEFINE x == e[2] * (Base * Base)
             y == e[3] * Base
  <2>1. x + y + e[4] = n
    BY <1>3, <1>5, <1>7, Zenon
  <2>2. x \in Nat /\ y \in Nat /\ e[4] \in Nat
    <3>1. e[2] \in Byte /\ e[3] \in Byte /\ e[4] \in Byte
      BY <1>3, <1>5, <1>7, Zenon
    <3>2. e[2] \in Nat /\ e[3] \in Nat /\ e[4] \in Nat /\ Base \in Nat
      BY <3>1, ReaderAssumption DEF Byte
    <3> QED BY <3>2
  <2>3. Total(e) = 4 + x + y + e[4]
    BY Zenon DEF Total, HandshakeHeaderLen
  <2> HIDE DEF x, y
  <2>4. 4 + x + y + e[4] = 4 + n
    BY <2>1, <2>2, <1>1, SumOfFour
  <2> QED BY <2>3, <2>4, <1>6, Zenon
<1>9. e = encodeHandshakeMsg(m)
  BY Zenon DEF e, h, encodeHandshakeMsg
<1> QED BY <1>5, <1>6, <1>7, <1>8, <1>9, Zenon

\* A buffer that begins with an encoded message and has its header announces its length.
LEMMA HeaderRead ==
  ASSUME NEW b \in Seq(Byte), NEW c \in Seq(Byte), NEW m \in Msg, NEW r \in Seq(Byte),
         b \o c = encodeHandshakeMsg(m) \o r, Len(b) >= 4
  PROVE  b[1] = m.type /\ Total(b) = Len(encodeHandshakeMsg(m))
<1> DEFINE e == encodeHandshakeMsg(m)
<1>1. /\ e \in Seq(Byte) /\ Len(e) = 4 + Len(m.body) /\ e[1] = m.type
      /\ Total(e) = Len(e) /\ Len(m.body) \in Nat
  <2>1. m.body \in Seq(Byte)
    BY ReaderAssumption, Zenon DEF Msg, Byte
  <2> QED BY <2>1, Encoding, LenProperties, Zenon
<1>2. b \o c = e \o r
  BY Zenon
<1> HIDE DEF e
<1>3. ASSUME NEW i \in 1 .. 4 PROVE b[i] = e[i]
  <2>1. i \in 1 .. Len(b) /\ i \in 1 .. Len(e)
    BY <1>1
  <2>2. (b \o c)[i] = b[i] /\ (e \o r)[i] = e[i]
    BY ONLY <2>1, <1>1, FrontAndBack
  <2> QED BY <2>2, <1>2, Zenon
<1>4. b[1] = e[1] /\ b[2] = e[2] /\ b[3] = e[3] /\ b[4] = e[4]
  BY <1>3
<1> QED BY <1>1, <1>4, Zenon DEF Total, e

\* One that has all of the message yields it and keeps what follows.
LEMMA Decoding ==
  ASSUME NEW b \in Seq(Byte), NEW c \in Seq(Byte), NEW m \in Msg, NEW r \in Seq(Byte),
         b \o c = encodeHandshakeMsg(m) \o r, Len(b) >= 4, Len(b) >= Total(b)
  PROVE  /\ Total(b) = Len(encodeHandshakeMsg(m))
         /\ [type |-> b[1], body |-> SubSeq(b, 5, Total(b))] = m
         /\ SubSeq(b, Total(b) + 1, Len(b)) \o c = r
<1> DEFINE e == encodeHandshakeMsg(m)
<1>1. /\ e \in Seq(Byte) /\ Len(e) = 4 + Len(m.body) /\ e[1] = m.type
      /\ \A i \in 1 .. Len(m.body) : e[4 + i] = m.body[i]
  BY Encoding, Zenon
<1>2. m.body \in Seq(Byte) /\ Len(m.body) \in Nat /\ m = [type |-> m.type, body |-> m.body]
  BY ReaderAssumption, LenProperties, Zenon DEF Msg, Byte
<1>3. b \o c = e \o r
  BY Zenon
<1>4. b[1] = m.type /\ Total(b) = Len(e)
  BY HeaderRead, Zenon
<1> HIDE DEF e
<1>5. /\ \A i \in 1 .. Len(e) : b[i] = e[i]
      /\ SubSeq(b, Len(e) + 1, Len(b)) \o c = r
  <2>0. SameJoined(b, c, e, r)
    BY <1>3, Zenon DEF SameJoined
  <2>1. Len(e) <= Len(b)
    BY <1>1, <1>2, <1>4, Zenon
  <2>2. e \in Seq(Byte)
    BY <1>1, Zenon
  <2>3. SameFront(b, e) /\ SameBack(b, c, e, r)
    BY <2>0, <2>1, <2>2, TwoCuts, Zenon
  <2> QED BY <2>3, Zenon DEF SameFront, SameBack
<1>6. SubSeq(b, 5, Len(e)) = m.body
  <2> DEFINE d == m.body
             t == SubSeq(b, 5, Len(e))
  <2>1. d \in Seq(Byte) /\ Len(d) \in Nat /\ Len(e) = 4 + Len(d) /\ Len(b) \in Nat
    BY <1>1, <1>2
  <2>2. \A i \in 1 .. Len(d) : b[4 + i] = d[i]
    BY <1>1, <1>5, <2>1
  <2> HIDE DEF d
  <2>3. \A i \in 5 .. Len(e) : b[i] \in Byte
    BY <2>1, <1>4, ElementOfSeq
  <2>4. /\ t \in Seq(Byte) /\ Len(t) = Len(d)
        /\ \A i \in 1 .. Len(d) : t[i] = b[4 + i]
    BY <2>1, <2>3, SubSeqProperties
  <2> HIDE DEF t
  <2>5. \A i \in 1 .. Len(t) : t[i] = d[i]
    BY <2>2, <2>4, Zenon
  <2>6. t = d
    BY <2>1, <2>4, <2>5, SeqEqual, Zenon
  <2> QED BY <2>6, Zenon DEF t, d
<1> QED BY <1>2, <1>4, <1>5, <1>6, Zenon DEF e

-----------------------------------------------------------------------------
(* Bytes on their way *)

\* The handshake bytes of each record of w; the encodings of the messages of s after
\* the first k.
WireData(w) == [i \in 1 .. Len(w) |-> HandshakeData(w[i])]
Encodings(s, k) == [i \in 1 .. Len(s) - k |-> encodeHandshakeMsg(s[k + i])]

\* The handshake bytes of a record are bytes.
LEMMA DataType ==
  ASSUME NEW r \in Records
  PROVE  HandshakeData(r) \in Seq(Byte)
BY EmptySeq, Zenon DEF HandshakeData, Records, Byte

\* So are those of all records on the wire.
LEMMA WireDataType ==
  ASSUME NEW w \in Seq(Records)
  PROVE  WireData(w) \in Seq(Seq(Byte)) /\ Len(WireData(w)) = Len(w)
<1>1. \A i \in 1 .. Len(w) : HandshakeData(w[i]) \in Seq(Byte)
  BY ElementOfSeq, DataType, Zenon
<1>2. Len(w) \in Nat
  BY LenProperties, Zenon
<1> QED BY <1>1, <1>2 DEF WireData

\* Putting a record on the wire adds its bytes at the end.
LEMMA WireDataAppend ==
  ASSUME NEW w \in Seq(Records), NEW r \in Records
  PROVE  WireData(Append(w, r)) = Append(WireData(w), HandshakeData(r))
<1> DEFINE v == Append(w, r)
<1>1. /\ Len(v) = Len(w) + 1 /\ Len(w) \in Nat /\ v[Len(w) + 1] = r
      /\ \A i \in 1 .. Len(w) : v[i] = w[i]
  BY AppendProperties, LenProperties
<1>2. WireData(w) \in Seq(Seq(Byte)) /\ Len(WireData(w)) = Len(w)
  BY WireDataType, Zenon
<1> HIDE DEF v
<1>3. HandshakeData(r) \in Seq(Byte)
  BY DataType, Zenon
<1>4. v \in Seq(Records)
  BY AppendProperties, Zenon DEF v
<1>5. WireData(v) \in Seq(Seq(Byte)) /\ Len(WireData(v)) = Len(w) + 1
  BY <1>1, <1>4, WireDataType, Zenon
<1> DEFINE x == Append(WireData(w), HandshakeData(r))
<1>6. /\ x \in Seq(Seq(Byte)) /\ Len(x) = Len(w) + 1 /\ x[Len(w) + 1] = HandshakeData(r)
      /\ \A i \in 1 .. Len(w) : x[i] = WireData(w)[i]
  BY <1>2, <1>3, AppendProperties
<1> HIDE DEF x
<1>7. ASSUME NEW i \in 1 .. Len(w) + 1 PROVE WireData(v)[i] = x[i]
  <2>1. WireData(v)[i] = HandshakeData(v[i])
    BY <1>1, Zenon DEF WireData
  <2>2. CASE i = Len(w) + 1
    BY <2>1, <2>2, <1>1, <1>6, Zenon
  <2>3. CASE i \in 1 .. Len(w)
    <3>1. WireData(w)[i] = HandshakeData(w[i])
      BY <2>3, Zenon DEF WireData
    <3> QED BY <2>1, <2>3, <3>1, <1>1, <1>6, Zenon
  <2> QED BY <2>2, <2>3, <1>1
<1>8. WireData(v) = x
  BY <1>5, <1>6, <1>7, SeqEqual, Zenon
<1> QED BY <1>8, Zenon DEF v, x

\* Taking a record off the wire takes its bytes from the front.
LEMMA WireDataTail ==
  ASSUME NEW w \in Seq(Records), w # << >>
  PROVE  /\ WireData(w) # << >>
         /\ Head(WireData(w)) = HandshakeData(Head(w))
         /\ Tail(WireData(w)) = WireData(Tail(w))
<1>1. Len(w) \in Nat \ {0} /\ Tail(w) \in Seq(Records) /\ Len(Tail(w)) = Len(w) - 1
  BY EmptySeq, HeadTailProperties, Zenon
<1>2. WireData(w) \in Seq(Seq(Byte)) /\ Len(WireData(w)) = Len(w) /\ WireData(w) # << >>
  BY <1>1, WireDataType, EmptySeq, Zenon
<1>3. Head(WireData(w)) = HandshakeData(Head(w))
  BY <1>1, <1>2 DEF WireData
<1>4. /\ Tail(WireData(w)) \in Seq(Seq(Byte)) /\ Len(Tail(WireData(w))) = Len(w) - 1
      /\ \A i \in 1 .. Len(w) - 1 : Tail(WireData(w))[i] = WireData(w)[i + 1]
  BY <1>1, <1>2, HeadTailProperties, Zenon
<1>5. WireData(Tail(w)) \in Seq(Seq(Byte)) /\ Len(WireData(Tail(w))) = Len(w) - 1
  BY <1>1, WireDataType, Zenon
<1>6. ASSUME NEW i \in 1 .. Len(w) - 1 PROVE Tail(WireData(w))[i] = WireData(Tail(w))[i]
  <2>1. i + 1 \in 1 .. Len(w) /\ Tail(w)[i] = w[i + 1]
    BY <1>1, HeadTailProperties
  <2>2. WireData(w)[i + 1] = HandshakeData(w[i + 1])
    BY <2>1, Zenon DEF WireData
  <2>3. WireData(Tail(w))[i] = HandshakeData(Tail(w)[i])
    BY <1>1, Zenon DEF WireData
  <2> QED BY <2>1, <2>2, <2>3, <1>4, Zenon
<1>7. Tail(WireData(w)) = WireData(Tail(w))
  BY <1>4, <1>5, <1>6, SeqEqual, Zenon
<1> QED BY <1>2, <1>3, <1>7, Zenon

\* The encodings of the messages after the first k are sequences of bytes.
LEMMA EncodingsType ==
  ASSUME NEW s \in Seq(Msg), NEW k \in 0 .. Len(s)
  PROVE  Encodings(s, k) \in Seq(Seq(Byte)) /\ Len(Encodings(s, k)) = Len(s) - k
<1>1. Len(s) \in Nat /\ k \in Nat /\ Len(s) - k \in Nat
  BY LenProperties
<1>2. \A i \in 1 .. Len(s) - k : encodeHandshakeMsg(s[k + i]) \in Seq(Byte)
  <2> SUFFICES ASSUME NEW i \in 1 .. Len(s) - k
               PROVE  encodeHandshakeMsg(s[k + i]) \in Seq(Byte)
    BY Zenon
  <2>1. k + i \in 1 .. Len(s)
    BY <1>1
  <2>2. s[k + i] \in Msg
    BY <2>1, ElementOfSeq, Zenon
  <2> QED BY <2>2, Encoding, Zenon
<1> QED BY <1>1, <1>2 DEF Encodings

\* A message written is encoded after the others.
LEMMA EncodingsAppend ==
  ASSUME NEW s \in Seq(Msg), NEW k \in 0 .. Len(s), NEW m \in Msg
  PROVE  Encodings(Append(s, m), k) = Append(Encodings(s, k), encodeHandshakeMsg(m))
<1> DEFINE v == Append(s, m)
           n == Len(s) - k
           e == encodeHandshakeMsg(m)
<1>1. /\ Len(v) = Len(s) + 1 /\ Len(s) \in Nat /\ v[Len(s) + 1] = m /\ v \in Seq(Msg)
      /\ \A i \in 1 .. Len(s) : v[i] = s[i]
  BY AppendProperties, LenProperties
<1> HIDE DEF v
<1>2. k \in Nat /\ n \in Nat /\ k \in 0 .. Len(v) /\ Len(v) - k = n + 1
      /\ k + (n + 1) = Len(s) + 1
  BY <1>1
<1>3. Encodings(s, k) \in Seq(Seq(Byte)) /\ Len(Encodings(s, k)) = n
  BY EncodingsType, Zenon
<1>4. Encodings(v, k) \in Seq(Seq(Byte)) /\ Len(Encodings(v, k)) = n + 1
  BY <1>1, <1>2, EncodingsType, Zenon
<1>5. e \in Seq(Byte)
  BY Encoding, Zenon
<1> DEFINE x == Append(Encodings(s, k), e)
<1> HIDE DEF e
<1>6. /\ x \in Seq(Seq(Byte)) /\ Len(x) = n + 1 /\ x[n + 1] = e
      /\ \A i \in 1 .. n : x[i] = Encodings(s, k)[i]
  BY <1>3, <1>5, AppendProperties
<1> HIDE DEF x
<1>7. ASSUME NEW i \in 1 .. n + 1 PROVE Encodings(v, k)[i] = x[i]
  <2>1. Encodings(v, k)[i] = encodeHandshakeMsg(v[k + i])
    BY <1>2, Zenon DEF Encodings
  <2>2. CASE i = n + 1
    BY <2>1, <2>2, <1>1, <1>2, <1>6, Zenon DEF e
  <2>3. CASE i \in 1 .. n
    <3>1. Encodings(s, k)[i] = encodeHandshakeMsg(s[k + i])
      BY <2>3, Zenon DEF Encodings
    <3>2. k + i \in 1 .. Len(s)
      BY <2>3, <1>1, <1>2
    <3>3. v[k + i] = s[k + i]
      BY <3>2, <1>1, Zenon
    <3> QED BY <2>1, <2>3, <3>1, <3>3, <1>6, Zenon
  <2> QED BY <2>2, <2>3, <1>2
<1>8. Encodings(v, k) = x
  BY <1>2, <1>4, <1>6, <1>7, SeqEqual, Zenon
<1> QED BY <1>8, Zenon DEF v, x, e

\* The message after the first k is encoded before the others.
LEMMA EncodingsTail ==
  ASSUME NEW s \in Seq(Msg), NEW k \in 0 .. Len(s), k < Len(s)
  PROVE  /\ Encodings(s, k) # << >>
         /\ Head(Encodings(s, k)) = encodeHandshakeMsg(s[k + 1])
         /\ Tail(Encodings(s, k)) = Encodings(s, k + 1)
<1> DEFINE x == Encodings(s, k)
           y == Encodings(s, k + 1)
           n == Len(s) - k
<1>1. Len(s) \in Nat /\ k \in Nat /\ n \in Nat \ {0} /\ k + 1 \in 0 .. Len(s)
      /\ Len(s) - (k + 1) = n - 1
  BY LenProperties
<1>2. x \in Seq(Seq(Byte)) /\ Len(x) = n /\ y \in Seq(Seq(Byte)) /\ Len(y) = n - 1
  BY <1>1, EncodingsType, Zenon
<1>3. \A i \in 1 .. n : x[i] = encodeHandshakeMsg(s[k + i])
  BY Zenon DEF Encodings
<1>4. \A i \in 1 .. n - 1 : y[i] = encodeHandshakeMsg(s[(k + 1) + i])
  BY <1>1, Zenon DEF Encodings
<1> HIDE DEF x, y, n
<1>5. x # << >> /\ Head(x) = encodeHandshakeMsg(s[k + 1])
  <2>1. x # << >> /\ Head(x) = x[1]
    BY <1>1, <1>2
  <2>2. 1 \in 1 .. n
    BY <1>1
  <2> QED BY <2>1, <2>2, <1>3, Zenon
<1>6. /\ Tail(x) \in Seq(Seq(Byte)) /\ Len(Tail(x)) = n - 1
      /\ \A i \in 1 .. n - 1 : Tail(x)[i] = x[i + 1]
  BY <1>2, <1>5, HeadTailProperties, Zenon
<1>7. ASSUME NEW i \in 1 .. n - 1 PROVE Tail(x)[i] = y[i]
  <2>1. i + 1 \in 1 .. n /\ k + (i + 1) = (k + 1) + i
    BY <1>1
  <2> QED BY <2>1, <1>3, <1>4, <1>6, Zenon
<1>8. Tail(x) = y
  BY <1>2, <1>6, <1>7, SeqEqual, Zenon
<1> QED BY <1>5, <1>8, Zenon DEF x, y

\* All the messages after the first k, encoded: bytes, which begin with the encoding of
\* the next message.
LEMMA EncodedAfter ==
  ASSUME NEW s \in Seq(Msg), NEW k \in 0 .. Len(s)
  PROVE  /\ Flatten(Encodings(s, k)) \in Seq(Byte)
         /\ k = Len(s) => Flatten(Encodings(s, k)) = << >>
         /\ k < Len(s) => Flatten(Encodings(s, k))
                            = encodeHandshakeMsg(s[k + 1]) \o Flatten(Encodings(s, k + 1))
<1>1. Len(s) \in Nat
  BY LenProperties, Zenon
<1>2. Encodings(s, k) \in Seq(Seq(Byte)) /\ Len(Encodings(s, k)) = Len(s) - k
  BY EncodingsType, Zenon
<1>3. Flatten(Encodings(s, k)) \in Seq(Byte)
  BY <1>2, FlattenType, Zenon
<1>4. ASSUME k = Len(s) PROVE Flatten(Encodings(s, k)) = << >>
  <2>1. Len(Encodings(s, k)) = 0
    BY <1>1, <1>2, <1>4
  <2>2. Encodings(s, k) = << >>
    BY <2>1, <1>2, EmptySeq, Zenon
  <2> QED BY <2>2, FlattenEmpty, Zenon
<1>5. ASSUME k < Len(s)
      PROVE  Flatten(Encodings(s, k))
               = encodeHandshakeMsg(s[k + 1]) \o Flatten(Encodings(s, k + 1))
  <2>1. /\ Encodings(s, k) # << >>
        /\ Head(Encodings(s, k)) = encodeHandshakeMsg(s[k + 1])
        /\ Tail(Encodings(s, k)) = Encodings(s, k + 1)
    BY <1>5, EncodingsTail, Zenon
  <2>2. Flatten(Encodings(s, k))
          = Head(Encodings(s, k)) \o Flatten(Tail(Encodings(s, k)))
    BY <1>2, <2>1, FlattenHead, Zenon
  <2> QED BY <2>1, <2>2, Zenon
<1> QED BY <1>3, <1>4, <1>5, Zenon

-----------------------------------------------------------------------------
(* The inductive invariant *)

\* What was returned is what was sent, as far as it goes.
ReceivedInv ==
  /\ Len(rcvd) <= Len(sent)
  /\ \A i \in 1 .. Len(rcvd) : rcvd[i] = sent[i]

\* The reader's phase follows from the number of messages it returned.
CountInv ==
  /\ pc = "plain" => Len(rcvd) = 0
  /\ pc = "encrypted" => Len(rcvd) <= K
  /\ pc \in {"check", "done"} => Len(rcvd) = K + 1
  /\ pc = "done" => buf = << >>

\* No byte is lost, added or reordered on the way.
BalanceInv == pc # "failed" => buf \o Coming = WrittenAfter(Len(rcvd))

\* The inductive invariant.
IInv == TypeOK /\ ReceivedInv /\ CountInv /\ BalanceInv

\* What is coming consists of bytes.
LEMMA ComingType ==
  ASSUME TypeOK
  PROVE  /\ Coming = Flatten(WireData(wire)) \o out
         /\ Flatten(WireData(wire)) \in Seq(Byte)
         /\ out \in Seq(Byte) /\ buf \in Seq(Byte) /\ Coming \in Seq(Byte)
<1>1. wire \in Seq(Records) /\ out \in Seq(Byte) /\ buf \in Seq(Byte)
  BY Zenon DEF TypeOK, Byte
<1>2. Coming = Flatten(WireData(wire)) \o out
  BY Zenon DEF Coming, WireData
<1>3. Flatten(WireData(wire)) \in Seq(Byte)
  BY <1>1, WireDataType, FlattenType, Zenon
<1> QED BY <1>1, <1>2, <1>3, Concat, Zenon

\* That is what was written.
LEMMA WrittenAfterType ==
  ASSUME TypeOK, NEW k \in 0 .. Len(sent)
  PROVE  /\ WrittenAfter(k) = Flatten(Encodings(sent, k))
         /\ WrittenAfter(k) \in Seq(Byte)
         /\ k = Len(sent) => WrittenAfter(k) = << >>
         /\ k < Len(sent) =>
              WrittenAfter(k) = encodeHandshakeMsg(sent[k + 1]) \o WrittenAfter(k + 1)
<1>1. sent \in Seq(Msg)
  BY Zenon DEF TypeOK
<1>2. \A j : WrittenAfter(j) = Flatten(Encodings(sent, j))
  BY Zenon DEF WrittenAfter, Encodings
<1> QED BY <1>1, <1>2, EncodedAfter, Zenon

-----------------------------------------------------------------------------
(* Every step keeps the invariant *)

\* The invariant holds at first, when nothing was written.
LEMMA InitInv == Init => IInv
<1> SUFFICES ASSUME Init PROVE IInv
  BY Zenon
<1>1. /\ sent = << >> /\ out = << >> /\ wire = << >> /\ buf = << >> /\ rcvd = << >>
      /\ pc = "plain" /\ peer = "writing" /\ own \in BOOLEAN
  BY Zenon DEF Init
<1>2. TypeOK
  <2>1. /\ sent \in Seq(Msg) /\ rcvd \in Seq(Msg) /\ out \in Seq(0 .. Base - 1)
        /\ buf \in Seq(0 .. Base - 1) /\ wire \in Seq(Records)
    BY <1>1, EmptySeq, Zenon
  <2>2. Len(buf) <= maxHandshakeBufferSize /\ Len(wire) <= Cap
    BY <1>1, ReaderAssumption
  <2> QED BY <1>1, <2>1, <2>2, Zenon DEF TypeOK
<1>3. ReceivedInv /\ CountInv
  BY <1>1 DEF ReceivedInv, CountInv
<1>4. BalanceInv
  <2>1. WireData(wire) = << >> /\ Len(rcvd) = 0 /\ Len(sent) = 0
    BY <1>1 DEF WireData
  <2>2. WrittenAfter(Len(rcvd)) = << >>
    BY <1>2, <2>1, WrittenAfterType
  <2>3. Coming = << >> \o << >>
    BY <1>1, <1>2, <2>1, ComingType, FlattenEmpty, Zenon
  <2>4. << >> \o << >> = << >>
    BY ConcatEmptySeq, EmptySeq, Zenon
  <2> QED BY <1>1, <2>2, <2>3, <2>4, Zenon DEF BalanceInv
<1> QED BY <1>2, <1>3, <1>4, Zenon DEF IInv

\* Nothing that the invariant mentions but the wire and the peer's state changes, and
\* the bytes on their way are the same.
LEMMA MovedInv ==
  ASSUME IInv, TypeOK', Coming' = Coming, UNCHANGED <<sent, pc, buf, rcvd>>
  PROVE  IInv'
<1>1. ReceivedInv' /\ CountInv'
  BY Zenon DEF IInv, ReceivedInv, CountInv
<1>2. WrittenAfter(Len(rcvd))' = WrittenAfter(Len(rcvd))
  BY Zenon DEF WrittenAfter
<1>3. BalanceInv'
  BY <1>2, Zenon DEF IInv, BalanceInv
<1> QED BY <1>1, <1>3, Zenon DEF IInv

\* A reader that has failed need only keep its types.
LEMMA FailInv ==
  ASSUME IInv, TypeOK', pc' = "failed", UNCHANGED <<sent, rcvd>>
  PROVE  IInv'
<1>1. ReceivedInv'
  BY Zenon DEF IInv, ReceivedInv
<1>2. CountInv' /\ BalanceInv'
  BY Zenon DEF CountInv, BalanceInv
<1> QED BY <1>1, <1>2, Zenon DEF IInv

\* A message is encoded into the pending bytes.
LEMMA MessageBegunInv ==
  ASSUME IInv, NEW m \in Msg, sent' = Append(sent, m), out' = out \o encodeHandshakeMsg(m),
         UNCHANGED <<own, wire, pc, buf, rcvd>>,
         peer' \in {"writing", "application", "mixed", "stopped"}
  PROVE  IInv'
<1> DEFINE e == encodeHandshakeMsg(m)
<1>1. sent' = Append(sent, m) /\ out' = out \o e
  BY Zenon
<1>2. m \in Msg
  BY Zenon
<1>3. /\ UNCHANGED <<own, wire, pc, buf, rcvd>>
      /\ peer' \in {"writing", "application", "mixed", "stopped"}
  BY Zenon
<1>4. TypeOK
  BY Zenon DEF IInv
<1>5. e \in Seq(Byte)
  BY <1>2, Encoding, Zenon
<1> HIDE DEF e
<1>6. TypeOK'
  <2>1. sent \in Seq(Msg) /\ out \in Seq(Byte)
    BY <1>4, Zenon DEF TypeOK, Byte
  <2>2. sent' \in Seq(Msg)
    <3>1. Append(sent, m) \in Seq(Msg)
      BY <1>2, <2>1, AppendProperties
    <3> QED BY <1>1, <3>1, Zenon
  <2>3. out' \in Seq(Byte)
    BY <1>1, <1>5, <2>1, Concat, Zenon
  <2> QED BY <1>3, <1>4, <2>2, <2>3, Zenon DEF TypeOK, Byte
<1>7. /\ sent \in Seq(Msg) /\ rcvd \in Seq(Msg)
      /\ Len(rcvd) \in 0 .. Len(sent) /\ Len(sent) \in Nat
  BY LenProperties DEF IInv, TypeOK, ReceivedInv
<1>8. ReceivedInv'
  <2>1. Len(sent') = Len(sent) + 1 /\ \A j \in 1 .. Len(sent) : sent'[j] = sent[j]
    BY <1>1, <1>2, <1>7, AppendProperties
  <2>2. \A j \in 1 .. Len(rcvd) : rcvd[j] = sent[j]
    BY Zenon DEF IInv, ReceivedInv
  <2> QED BY <1>3, <1>7, <2>1, <2>2 DEF ReceivedInv
<1>9. CountInv'
  BY <1>3, Zenon DEF IInv, CountInv
<1>10. Coming' = Coming \o e
  <2> DEFINE f == Flatten(WireData(wire))
  <2>1. f \in Seq(Byte) /\ out \in Seq(Byte) /\ Coming = f \o out
    BY <1>4, ComingType, Zenon
  <2>2. Coming' = f \o (out \o e)
    <3>1. Coming' = Flatten(WireData(wire))' \o out'
      BY <1>6, Zenon DEF Coming, WireData
    <3>2. Flatten(WireData(wire))' = f
      BY <1>3, Zenon
    <3> QED BY <1>1, <3>1, <3>2, Zenon
  <2> HIDE DEF f
  <2>3. Regroups(f, out, e)
    BY <1>5, <2>1, Associative, Zenon
  <2> QED BY <2>1, <2>2, <2>3, Zenon DEF Regroups
<1>11. WrittenAfter(Len(rcvd))' = WrittenAfter(Len(rcvd)) \o e
  <2> DEFINE k == Len(rcvd)
             x == Encodings(sent, k)
  <2>1. WrittenAfter(k) = Flatten(x) /\ x \in Seq(Seq(Byte))
    BY <1>4, <1>7, WrittenAfterType, EncodingsType, Zenon
  <2>2. WrittenAfter(k)' = Flatten(Encodings(sent', k))
    BY <1>3, Zenon DEF WrittenAfter, Encodings
  <2>3. Encodings(sent', k) = Append(x, e)
    BY <1>1, <1>2, <1>7, EncodingsAppend, Zenon DEF e
  <2> HIDE DEF x
  <2>4. Flatten(Append(x, e)) = Flatten(x) \o e
    BY <1>5, <2>1, FlattenAppend, Zenon
  <2> QED BY <2>1, <2>2, <2>3, <2>4, Zenon
<1>12. BalanceInv'
  <2> SUFFICES ASSUME pc' # "failed" PROVE buf' \o Coming' = WrittenAfter(Len(rcvd))'
    BY Zenon DEF BalanceInv
  <2> DEFINE c == Coming
  <2>1. buf \in Seq(Byte) /\ c \in Seq(Byte)
    BY <1>4, ComingType, Zenon
  <2>2. buf \o c = WrittenAfter(Len(rcvd))
    BY <1>3, Zenon DEF IInv, BalanceInv
  <2> HIDE DEF c
  <2>3. Regroups(buf, c, e)
    BY <1>5, <2>1, Associative, Zenon
  <2> QED BY <1>3, <1>10, <1>11, <2>2, <2>3, Zenon DEF Regroups, c
<1> QED BY <1>6, <1>8, <1>9, <1>12, Zenon DEF IInv

\* The writer encodes its next message.
LEMMA WriteMsgInv == IInv /\ WriteMsg => IInv'
<1> SUFFICES ASSUME IInv, WriteMsg PROVE IInv'
  BY Zenon
<1>1. PICK b \in Body :
        LET m == [type |-> IF Len(sent) + 1 = 1 THEN Hello ELSE Encrypted, body |-> b]
        IN  sent' = Append(sent, m) /\ out' = out \o encodeHandshakeMsg(m)
  BY Zenon DEF WriteMsg
<1> DEFINE m == [type |-> IF Len(sent) + 1 = 1 THEN Hello ELSE Encrypted, body |-> b]
<1>2. m \in Msg
  BY Zenon DEF Msg
<1>3. sent' = Append(sent, m) /\ out' = out \o encodeHandshakeMsg(m)
  BY <1>1, Zenon
<1> HIDE DEF m
<1>4. UNCHANGED <<own, wire, pc, buf, rcvd>> /\ peer' = "writing"
  BY Zenon DEF WriteMsg
<1> QED BY <1>2, <1>3, <1>4, MessageBegunInv, Zenon

\* Another implementation encodes it behind its hello.
LEMMA PackBehindHelloInv == IInv /\ PackBehindHello => IInv'
<1> SUFFICES ASSUME IInv, PackBehindHello PROVE IInv'
  BY Zenon
<1>1. PICK b \in Body :
        LET m == [type |-> Encrypted, body |-> b]
        IN  sent' = Append(sent, m) /\ out' = out \o encodeHandshakeMsg(m)
  BY Zenon DEF PackBehindHello
<1> DEFINE m == [type |-> Encrypted, body |-> b]
<1>2. m \in Msg
  BY Zenon DEF Msg
<1>3. sent' = Append(sent, m) /\ out' = out \o encodeHandshakeMsg(m)
  BY <1>1, Zenon
<1> HIDE DEF m
<1>4. UNCHANGED <<own, wire, pc, buf, rcvd>> /\ peer' = "mixed"
  BY Zenon DEF PackBehindHello
<1> QED BY <1>2, <1>3, <1>4, MessageBegunInv, Zenon

\* A record more on the wire adds its handshake bytes to those in the other records.
LEMMA RecordAdded ==
  ASSUME TypeOK, NEW r \in Records
  PROVE  Flatten(WireData(Append(wire, r)))
           = Flatten(WireData(wire)) \o HandshakeData(r)
<1> DEFINE w == WireData(wire)
           d == HandshakeData(r)
<1>1. wire \in Seq(Records)
  BY Zenon DEF TypeOK
<1>2. w \in Seq(Seq(Byte)) /\ d \in Seq(Byte) /\ WireData(Append(wire, r)) = Append(w, d)
  BY <1>1, WireDataType, WireDataAppend, DataType, Zenon
<1> HIDE DEF w, d
<1>3. Flatten(Append(w, d)) = Flatten(w) \o d
  BY <1>2, FlattenAppend, Zenon
<1> QED BY <1>2, <1>3, Zenon DEF w, d

\* The writer moves pending bytes into a record.
LEMMA WriteRecordInv == IInv /\ WriteRecord => IInv'
<1> SUFFICES ASSUME IInv, WriteRecord PROVE IInv'
  BY Zenon
<1>1. PICK n \in ChunkSizes :
        /\ wire' = Append(wire, Record(WriteKey, "handshake", SubSeq(out, 1, n)))
        /\ out' = SubSeq(out, n + 1, Len(out))
  BY Zenon DEF WriteRecord
<1>2. UNCHANGED <<own, sent, peer, pc, buf, rcvd>> /\ out # << >> /\ Len(wire) < Cap
  BY Zenon DEF WriteRecord
<1>3. TypeOK /\ out \in Seq(Byte) /\ wire \in Seq(Records)
  BY Zenon DEF IInv, TypeOK, Byte
<1>4. Len(out) \in Nat /\ n \in 1 .. Len(out)
  <2>1. Len(out) \in Nat \ {0}
    BY <1>2, <1>3, EmptySeq, Zenon
  <2> QED BY <2>1, ReaderAssumption DEF ChunkSizes
<1> DEFINE a == SubSeq(out, 1, n)
           z == SubSeq(out, n + 1, Len(out))
           r == Record(WriteKey, "handshake", a)
<1>5. a \in Seq(Byte) /\ z \in Seq(Byte) /\ a \o z = out
  <2>1. \A j \in 1 .. Len(out) : out[j] \in Byte
    BY <1>3, ElementOfSeq, Zenon
  <2>2. a \in Seq(Byte)
    BY <2>1, <1>4, SubSeqProperties
  <2>3. z \in Seq(Byte)
    BY <2>1, <1>4, SubSeqProperties
  <2>4. a \o z = SubSeq(out, 1, Len(out))
    BY <1>3, <1>4, ConcatAdjacentSubSeq
  <2>5. SubSeq(out, 1, Len(out)) = out
    BY <1>3, SubSeqFull, Zenon
  <2> QED BY <2>2, <2>3, <2>4, <2>5, Zenon
<1>6. wire' = Append(wire, r) /\ out' = z
  BY <1>1, Zenon
<1> HIDE DEF a, z
<1>7. r \in Records /\ HandshakeData(r) = a
  BY <1>5, Zenon DEF Records, Record, WriteKey, KeyOf, HandshakeData, Byte
<1> HIDE DEF r
<1>8. TypeOK'
  <2>1. wire' \in Seq(Records) /\ Len(wire') <= Cap
    <3>1. wire' \in Seq(Records) /\ Len(wire') = Len(wire) + 1 /\ Len(wire) \in Nat
      BY <1>3, <1>6, <1>7, AppendProperties, LenProperties, Zenon
    <3> QED BY <3>1, <1>2, ReaderAssumption
  <2> QED BY <1>2, <1>3, <1>5, <1>6, <2>1, Zenon DEF TypeOK, Byte
<1>9. Coming' = Coming
  <2> DEFINE f == Flatten(WireData(wire))
  <2>1. f \in Seq(Byte) /\ Coming = f \o out
    BY <1>3, ComingType, Zenon
  <2>2. Coming' = Flatten(WireData(wire')) \o out'
    BY Zenon DEF Coming, WireData
  <2>3. Flatten(WireData(wire')) = f \o a
    BY <1>3, <1>6, <1>7, RecordAdded, Zenon
  <2> HIDE DEF f
  <2>4. Regroups(f, a, z)
    BY <1>5, <2>1, Associative, Zenon
  <2> QED BY <1>5, <1>6, <2>1, <2>2, <2>3, <2>4, Zenon DEF Regroups
<1> QED BY <1>2, <1>8, <1>9, MovedInv, Zenon

\* A record with no handshake data moves no handshake bytes.
LEMMA OtherRecordInv ==
  ASSUME IInv, NEW r \in Records, HandshakeData(r) = << >>, Len(wire) < Cap,
         wire' = Append(wire, r), peer' \in {"writing", "application", "mixed", "stopped"},
         UNCHANGED <<own, sent, out, pc, buf, rcvd>>
  PROVE  IInv'
<1>1. TypeOK /\ wire \in Seq(Records)
  BY Zenon DEF IInv, TypeOK
<1>2. TypeOK'
  <2>1. wire' \in Seq(Records) /\ Len(wire') = Len(wire) + 1 /\ Len(wire) \in Nat
    BY <1>1, AppendProperties, LenProperties, Zenon
  <2>2. Len(wire') <= Cap
    BY <2>1, ReaderAssumption
  <2> QED BY <1>1, <2>1, <2>2, Zenon DEF TypeOK
<1>3. Coming' = Coming
  <2> DEFINE f == Flatten(WireData(wire))
  <2>1. f \in Seq(Byte) /\ Coming = f \o out
    BY <1>1, ComingType, Zenon
  <2>2. Coming' = Flatten(WireData(wire')) \o out'
    BY Zenon DEF Coming, WireData
  <2>3. Flatten(WireData(wire')) = f \o << >>
    BY <1>1, RecordAdded, Zenon
  <2> HIDE DEF f
  <2>4. f \o << >> = f
    BY <2>1, ConcatEmptySeq, Zenon
  <2> QED BY <2>1, <2>2, <2>3, <2>4, Zenon
<1> QED BY <1>2, <1>3, MovedInv, Zenon

\* The writer interleaves application data.
LEMMA WriteAppDataInv == IInv /\ WriteAppData => IInv'
<1> SUFFICES ASSUME IInv, WriteAppData PROVE IInv'
  BY Zenon
<1> DEFINE r == Record("application", "data", << >>)
<1>1. r \in Records /\ HandshakeData(r) = << >>
  BY EmptySeq, Zenon DEF Records, Record, HandshakeData
<1>2. /\ Len(wire) < Cap /\ wire' = Append(wire, r) /\ peer' = "application"
      /\ UNCHANGED <<own, sent, out, pc, buf, rcvd>>
  BY Zenon DEF WriteAppData
<1> HIDE DEF r
<1> QED BY <1>1, <1>2, OtherRecordInv, Zenon

\* The writer interleaves an alert.
LEMMA WriteAlertInv == IInv /\ WriteAlert => IInv'
<1> SUFFICES ASSUME IInv, WriteAlert PROVE IInv'
  BY Zenon
<1> DEFINE r == Record(KeyOf(Len(sent)), "alert", << >>)
<1>1. r \in Records /\ HandshakeData(r) = << >>
  BY EmptySeq, Zenon DEF Records, Record, HandshakeData, KeyOf
<1>2. /\ Len(wire) < Cap /\ wire' = Append(wire, r) /\ peer' = "stopped"
      /\ UNCHANGED <<own, sent, out, pc, buf, rcvd>>
  BY Zenon DEF WriteAlert
<1> HIDE DEF r
<1> QED BY <1>1, <1>2, OtherRecordInv, Zenon

\* The connection is cut.
LEMMA CutInv == IInv /\ Cut => IInv'
<1> SUFFICES ASSUME IInv, Cut PROVE IInv'
  BY Zenon
<1>1. UNCHANGED <<own, sent, out, wire, pc, buf, rcvd>> /\ peer' = "stopped"
  BY Zenon DEF Cut
<1>2. TypeOK'
  BY <1>1, Zenon DEF IInv, TypeOK
<1>3. Coming' = Coming
  BY <1>1, Zenon DEF Coming
<1> QED BY <1>1, <1>2, <1>3, MovedInv, Zenon

\* A reader that gives up has all its types.
LEMMA GiveUpInv ==
  ASSUME IInv, Fail, UNCHANGED <<own, sent, out, peer>>,
         wire' \in Seq(Records), Len(wire') <= Cap
  PROVE  IInv'
<1>1. pc' = "failed" /\ UNCHANGED <<buf, rcvd>>
  BY Zenon DEF Fail
<1>2. TypeOK'
  BY <1>1, Zenon DEF IInv, TypeOK
<1> QED BY <1>1, <1>2, FailInv, Zenon

\* The reader takes a record off the wire.
LEMMA ReadRecordInv == IInv /\ ReadRecord => IInv'
<1> SUFFICES ASSUME IInv, ReadRecord PROVE IInv'
  BY Zenon
<1>1. /\ wire # << >> /\ wire' = Tail(wire) /\ UNCHANGED <<own, sent, out, peer>>
      /\ pc \in {"plain", "encrypted"}
  BY Zenon DEF ReadRecord
<1>2. TypeOK /\ wire \in Seq(Records) /\ Len(wire) <= Cap
  BY Zenon DEF IInv, TypeOK
<1>3. /\ Head(wire) \in Records /\ Tail(wire) \in Seq(Records)
      /\ Len(Tail(wire)) = Len(wire) - 1 /\ Len(wire) \in Nat
  BY <1>1, <1>2, HeadTailProperties, LenProperties, Zenon
<1>4. wire' \in Seq(Records) /\ Len(wire') <= Cap
  BY <1>1, <1>2, <1>3, ReaderAssumption
<1>5. CASE ~RecordOK(Head(wire)) /\ Fail
  BY <1>1, <1>4, <1>5, GiveUpInv, Zenon
<1>6. CASE RecordOK(Head(wire)) /\ buf' = Buffered(Head(wire)) /\ UNCHANGED <<pc, rcvd>>
  <2> DEFINE d == Head(wire).data
             w == WireData(wire)
             f == Flatten(Tail(w))
  <2>1. /\ HandshakeData(Head(wire)) = d /\ d \in Seq(Byte)
        /\ buf' = buf \o d /\ Len(buf \o d) <= maxHandshakeBufferSize
    <3>1. Head(wire).type = "handshake" /\ Len(Buffered(Head(wire))) <= maxHandshakeBufferSize
      BY <1>6, Zenon DEF RecordOK
    <3>2. HandshakeData(Head(wire)) = d
      BY <3>1, Zenon DEF HandshakeData
    <3> QED BY <1>3, <1>6, <3>1, <3>2, DataType, Zenon DEF Buffered
  <2>2. out \in Seq(Byte) /\ buf \in Seq(Byte) /\ Coming = Flatten(w) \o out
    BY <1>2, ComingType, Zenon
  <2>3. TypeOK'
    <3>1. buf' \in Seq(Byte) /\ Len(buf') <= maxHandshakeBufferSize
      BY <2>1, <2>2, Concat, Zenon
    <3> QED BY <1>1, <1>2, <1>4, <1>6, <3>1, Zenon DEF TypeOK, Byte
  <2>4. w \in Seq(Seq(Byte)) /\ w # << >> /\ Head(w) = d /\ Tail(w) = WireData(Tail(wire))
    BY <1>1, <1>2, <2>1, WireDataType, WireDataTail, Zenon
  <2>5. Flatten(w) = d \o f /\ f \in Seq(Byte)
    <3>1. Flatten(w) = Head(w) \o Flatten(Tail(w))
      BY <2>4, FlattenHead, Zenon
    <3>2. Tail(w) \in Seq(Seq(Byte))
      BY <2>4, HeadTailProperties, Zenon
    <3> QED BY <2>4, <3>1, <3>2, FlattenType, Zenon
  <2>6. Coming' = f \o out
    <3>1. Coming' = Flatten(WireData(wire')) \o out'
      BY Zenon DEF Coming, WireData
    <3> QED BY <1>1, <2>4, <3>1, Zenon
  <2>7. buf' \o Coming' = buf \o Coming
    <3> HIDE DEF d, f, w
    <3>1. RegroupsFour(buf, d, f, out)
      BY <2>1, <2>2, <2>5, FourParts, Zenon
    <3> QED BY <2>1, <2>2, <2>5, <2>6, <3>1, Zenon DEF RegroupsFour
  <2>8. WrittenAfter(Len(rcvd))' = WrittenAfter(Len(rcvd))
    BY <1>1, <1>6, Zenon DEF WrittenAfter
  <2>9. BalanceInv'
    BY <1>6, <2>7, <2>8, Zenon DEF IInv, BalanceInv
  <2>10. ReceivedInv'
    BY <1>1, <1>6, Zenon DEF IInv, ReceivedInv
  <2>11. CountInv'
    BY <1>1, <1>6, Zenon DEF IInv, CountInv
  <2> QED BY <2>3, <2>9, <2>10, <2>11, Zenon DEF IInv
<1> QED BY <1>5, <1>6, Zenon DEF ReadRecord

\* A whole message at the front of the buffer is the next one that was sent.
LEMMA NextMessage ==
  ASSUME IInv, pc # "failed", Complete
  PROVE  /\ Len(rcvd) < Len(sent)
         /\ Message = sent[Len(rcvd) + 1]
         /\ Rest \in Seq(Byte) /\ Len(Rest) <= Len(buf)
         /\ Len(buf) = TotalLen => Rest = << >>
         /\ Rest \o Coming = WrittenAfter(Len(rcvd) + 1)
<1> DEFINE k == Len(rcvd)
           c == Coming
<1>1. /\ TypeOK /\ buf \in Seq(Byte) /\ c \in Seq(Byte) /\ Len(buf) \in Nat
      /\ sent \in Seq(Msg) /\ Len(sent) \in Nat /\ k \in 0 .. Len(sent)
  <2>1. TypeOK /\ sent \in Seq(Msg) /\ rcvd \in Seq(Msg) /\ Len(rcvd) <= Len(sent)
    BY Zenon DEF IInv, TypeOK, ReceivedInv
  <2>2. buf \in Seq(Byte) /\ c \in Seq(Byte)
    BY <2>1, ComingType, Zenon
  <2> QED BY <2>1, <2>2, LenProperties
<1>2. buf \o c = WrittenAfter(k)
  BY Zenon DEF IInv, BalanceInv
<1>3. TotalLen = Total(buf) /\ Len(buf) >= 4 /\ Len(buf) >= Total(buf)
  BY Zenon DEF Complete, HasHeader, TotalLen, Total, HandshakeHeaderLen
<1>4. k < Len(sent)
  <2> SUFFICES ASSUME k = Len(sent) PROVE FALSE
    BY <1>1
  <2>1. buf \o c = << >>
    BY <1>1, <1>2, WrittenAfterType, Zenon
  <2>2. Len(buf \o c) = Len(buf) + Len(c) /\ Len(c) \in Nat
    BY <1>1, Concat, Zenon
  <2> HIDE DEF c
  <2> QED BY ONLY <2>1, <2>2, <1>1, <1>3, EmptySeq
<1> DEFINE m == sent[k + 1]
           r == WrittenAfter(k + 1)
<1>5. m \in Msg /\ r \in Seq(Byte) /\ buf \o c = encodeHandshakeMsg(m) \o r
  <2>1. k + 1 \in 1 .. Len(sent) /\ k + 1 \in 0 .. Len(sent)
    BY <1>1, <1>4
  <2> QED BY <1>1, <1>2, <1>4, <2>1, ElementOfSeq, WrittenAfterType, Zenon
<1>6. /\ Total(buf) = Len(encodeHandshakeMsg(m))
      /\ [type |-> buf[1], body |-> SubSeq(buf, 5, Total(buf))] = m
      /\ SubSeq(buf, Total(buf) + 1, Len(buf)) \o c = r
  <2> HIDE DEF c, m, r
  <2> QED BY <1>1, <1>3, <1>5, Decoding, Zenon
<1>7. Message = m /\ Rest = SubSeq(buf, Total(buf) + 1, Len(buf))
  <2>1. HandshakeHeaderLen + 1 = 5
    BY DEF HandshakeHeaderLen
  <2> QED BY <1>3, <1>6, <2>1, Zenon DEF Message, Rest
<1>8. Rest \in Seq(Byte) /\ Len(Rest) <= Len(buf) /\ (Len(buf) = TotalLen => Rest = << >>)
  <2>1. Total(buf) \in Nat
    <3>1. encodeHandshakeMsg(m) \in Seq(Byte)
      BY <1>5, Encoding, Zenon
    <3> QED BY <3>1, <1>6, LenProperties, Zenon
  <2> DEFINE t == Total(buf)
  <2>2. t = TotalLen /\ t <= Len(buf) /\ t \in Nat
    BY <1>1, <1>3, <2>1, Zenon
  <2> HIDE DEF t
  <2>3. \A j \in t + 1 .. Len(buf) : buf[j] \in Byte
    BY <1>1, <2>2, ElementOfSeq
  <2>4. /\ SubSeq(buf, t + 1, Len(buf)) \in Seq(Byte)
        /\ Len(SubSeq(buf, t + 1, Len(buf))) <= Len(buf)
    BY <1>1, <2>2, <2>3, SubSeqProperties
  <2>5. Len(buf) = t => SubSeq(buf, t + 1, Len(buf)) = << >>
    BY <1>1, <2>2, SubSeqEmpty
  <2> QED BY <1>7, <2>2, <2>4, <2>5, Zenon DEF t
<1> QED BY <1>4, <1>6, <1>7, <1>8, Zenon

\* Returning the next message, and keeping what follows it, keeps the invariant.
LEMMA ReturnInv ==
  ASSUME IInv, pc # "failed", Complete, rcvd' = Append(rcvd, Message), buf' = Rest,
         UNCHANGED <<own, sent, out, wire, peer>>,
         pc' \in {"plain", "encrypted", "check", "done", "failed"}, CountInv'
  PROVE  IInv'
<1> DEFINE k == Len(rcvd)
<1>1. /\ k < Len(sent) /\ Message = sent[k + 1] /\ Rest \in Seq(Byte)
      /\ Len(Rest) <= Len(buf) /\ Rest \o Coming = WrittenAfter(k + 1)
  BY NextMessage, Zenon
<1>2. /\ TypeOK /\ sent \in Seq(Msg) /\ rcvd \in Seq(Msg) /\ k \in Nat /\ Len(sent) \in Nat
      /\ Len(buf) \in Nat /\ Len(Rest) \in Nat /\ Len(buf) <= maxHandshakeBufferSize
      /\ \A i \in 1 .. k : rcvd[i] = sent[i]
  <2>1. /\ TypeOK /\ sent \in Seq(Msg) /\ rcvd \in Seq(Msg) /\ buf \in Seq(Byte)
        /\ Len(buf) <= maxHandshakeBufferSize
        /\ \A i \in 1 .. k : rcvd[i] = sent[i]
    BY Zenon DEF IInv, TypeOK, ReceivedInv, Byte
  <2> QED BY <1>1, <2>1, LenProperties, Zenon
<1>3. Message \in Msg
  BY <1>1, <1>2, ElementOfSeq
<1>4. /\ rcvd' \in Seq(Msg) /\ Len(rcvd') = k + 1 /\ rcvd'[k + 1] = Message
      /\ \A i \in 1 .. k : rcvd'[i] = rcvd[i]
  BY <1>2, <1>3, AppendProperties
<1>5. TypeOK'
  <2>1. Len(Rest) <= maxHandshakeBufferSize
    BY <1>1, <1>2, ReaderAssumption
  <2> QED BY <1>1, <1>2, <1>4, <2>1, Zenon DEF TypeOK, Byte
<1>6. ReceivedInv'
  <2>1. \A i \in 1 .. k + 1 : rcvd'[i] = sent[i]
    <3> TAKE i \in 1 .. k + 1
    <3>1. CASE i = k + 1
      BY <3>1, <1>1, <1>4, Zenon
    <3>2. CASE i # k + 1
      <4>1. i \in 1 .. k
        BY <3>2, <1>2
      <4> QED BY <4>1, <1>2, <1>4, Zenon
    <3> QED BY <3>1, <3>2, Zenon
  <2>2. k + 1 <= Len(sent)
    BY <1>1, <1>2
  <2> QED BY <1>4, <2>1, <2>2, Zenon DEF ReceivedInv
<1>7. BalanceInv'
  <2>1. Coming' = Coming
    BY Zenon DEF Coming
  <2>2. WrittenAfter(Len(rcvd))' = WrittenAfter(k + 1)
    BY <1>4, Zenon DEF WrittenAfter
  <2> QED BY <1>1, <2>1, <2>2, Zenon DEF BalanceInv
<1> QED BY <1>5, <1>6, <1>7, Zenon DEF IInv

\* The reader returns the plaintext hello.
LEMMA ReturnHelloInv == IInv /\ ReturnHello => IInv'
<1> SUFFICES ASSUME IInv, ReturnHello PROVE IInv'
  BY Zenon
<1>1. /\ pc = "plain" /\ Complete /\ UNCHANGED <<own, sent, out, wire, peer>>
  BY Zenon DEF ReturnHello
<1>2. TypeOK /\ wire \in Seq(Records) /\ Len(wire) <= Cap /\ rcvd \in Seq(Msg) /\ Len(rcvd) = 0
  BY <1>1, Zenon DEF IInv, TypeOK, CountInv
<1>3. CASE Fail
  BY <1>1, <1>2, <1>3, GiveUpInv, Zenon
<1>4. CASE /\ Len(buf) = TotalLen /\ rcvd' = Append(rcvd, Message)
           /\ buf' = << >> /\ pc' = "encrypted"
  <2>1. pc # "failed"
    BY <1>1, Zenon
  <2>2. buf' = Rest /\ Message = sent[Len(rcvd) + 1] /\ Len(rcvd) < Len(sent)
    BY <1>1, <1>4, <2>1, NextMessage, Zenon
  <2>3. CountInv'
    <3>1. Len(rcvd') = 1
      <4>1. sent \in Seq(Msg) /\ Len(sent) \in Nat
        BY <1>2, LenProperties, Zenon DEF TypeOK
      <4>2. Message \in Msg
        BY <4>1, <1>2, <2>2, ElementOfSeq
      <4> QED BY <4>2, <1>2, <1>4, AppendProperties
    <3> QED BY <3>1, <1>4, ReaderAssumption DEF CountInv
  <2> QED BY <1>1, <1>4, <2>1, <2>2, <2>3, ReturnInv, Zenon
<1> QED BY <1>3, <1>4, Zenon DEF ReturnHello

\* The reader returns an encrypted message.
LEMMA ReturnMsgInv == IInv /\ ReturnMsg => IInv'
<1> SUFFICES ASSUME IInv, ReturnMsg PROVE IInv'
  BY Zenon
<1>1. /\ pc = "encrypted" /\ Complete /\ UNCHANGED <<own, sent, out, wire, peer>>
      /\ rcvd' = Append(rcvd, Message) /\ buf' = Rest
      /\ pc' = IF Len(rcvd) = K THEN "check" ELSE "encrypted"
  BY Zenon DEF ReturnMsg
<1>2. pc # "failed" /\ pc' \in {"plain", "encrypted", "check", "done", "failed"}
  BY <1>1, Zenon
<1>3. /\ TypeOK /\ sent \in Seq(Msg) /\ Len(sent) \in Nat /\ rcvd \in Seq(Msg)
      /\ Len(rcvd) \in Nat /\ Len(rcvd) <= K
  BY <1>1, LenProperties, Zenon DEF IInv, TypeOK, CountInv
<1>4. CountInv'
  <2>1. Message = sent[Len(rcvd) + 1] /\ Len(rcvd) < Len(sent)
    BY <1>1, <1>2, NextMessage, Zenon
  <2>2. Message \in Msg
    BY <1>3, <2>1, ElementOfSeq
  <2>3. Len(rcvd') = Len(rcvd) + 1
    BY <1>1, <1>3, <2>2, AppendProperties, Zenon
  <2> QED BY <1>1, <1>3, <2>3, ReaderAssumption DEF CountInv
<1> QED BY <1>1, <1>2, <1>4, ReturnInv, Zenon

\* The handshake ends.
LEMMA FinishInv == IInv /\ Finish => IInv'
<1> SUFFICES ASSUME IInv, Finish PROVE IInv'
  BY Zenon
<1>1. /\ pc = "check" /\ pc' = (IF HasRemaining THEN "failed" ELSE "done")
      /\ UNCHANGED <<own, sent, out, wire, peer, buf, rcvd>>
  BY Zenon DEF Finish
<1>2. TypeOK'
  <2>1. pc' \in {"plain", "encrypted", "check", "done", "failed"}
    BY <1>1, Zenon
  <2> QED BY <1>1, <2>1, Zenon DEF IInv, TypeOK
<1>3. ReceivedInv'
  BY <1>1, Zenon DEF IInv, ReceivedInv
<1>4. CountInv'
  BY <1>1, Zenon DEF IInv, CountInv, HasRemaining
<1>5. BalanceInv'
  <2>1. Coming' = Coming /\ WrittenAfter(Len(rcvd))' = WrittenAfter(Len(rcvd))
    BY <1>1, Zenon DEF Coming, WrittenAfter
  <2>2. pc # "failed"
    BY <1>1, Zenon
  <2> QED BY <1>1, <2>1, <2>2, Zenon DEF IInv, BalanceInv
<1> QED BY <1>2, <1>3, <1>4, <1>5, Zenon DEF IInv

\* Every step keeps the invariant.
LEMMA NextInv == IInv /\ [Next]_vars => IInv'
<1> SUFFICES ASSUME IInv, [Next]_vars PROVE IInv'
  BY Zenon
<1>1. wire \in Seq(Records) /\ Len(wire) <= Cap
  BY Zenon DEF IInv, TypeOK
<1>2. CASE ReadTooLong
  BY <1>1, <1>2, GiveUpInv, Zenon DEF ReadTooLong
<1>3. CASE ReadEOF
  BY <1>1, <1>3, GiveUpInv, Zenon DEF ReadEOF
<1>4. CASE UNCHANGED vars
  <2>1. UNCHANGED <<own, sent, out, wire, peer, pc, buf, rcvd>>
    BY <1>4, Zenon DEF vars
  <2>2. TypeOK' /\ Coming' = Coming
    BY <2>1, Zenon DEF IInv, TypeOK, Coming
  <2> QED BY <2>1, <2>2, MovedInv, Zenon
<1>5. CASE WriteMsg \/ WriteRecord \/ WriteAppData \/ PackBehindHello \/ WriteAlert \/ Cut
  BY <1>5, WriteMsgInv, WriteRecordInv, WriteAppDataInv, PackBehindHelloInv, WriteAlertInv,
     CutInv, Zenon
<1>6. CASE ReadRecord \/ ReturnHello \/ ReturnMsg \/ Finish
  BY <1>6, ReadRecordInv, ReturnHelloInv, ReturnMsgInv, FinishInv, Zenon
<1> QED BY <1>2, <1>3, <1>4, <1>5, <1>6, Zenon DEF Next, Writer, Reader

\* The inductive invariant holds throughout.
LEMMA Invariant == Spec => []IInv
<1> QED BY InitInv, NextInv, PTL DEF Spec

-----------------------------------------------------------------------------
(* No refusal *)

\* Bytes of the messages of s after the first j.
Remaining(s, j) == Len(Flatten(Encodings(s, j)))

\* A record of bytes of the messages s, read when hi of them are left and leaving lo.  It
\* has the key of a message at or before which its bytes begin; the hello shares no record
\* with another message, and this code (o) puts no two messages in one.
HandshakePlaced(r, hi, lo, s, o) ==
  /\ r.type = "handshake"
  /\ hi > lo /\ hi = lo + Len(r.data) /\ Len(r.data) <= MaxPlaintextLength
  /\ \E j \in 1 .. Len(s) :
       /\ r.key = KeyOf(j)
       /\ hi <= Remaining(s, j - 1)
       /\ o \/ j = 1 => lo >= Remaining(s, j)

\* Application data comes after all the handshake bytes.
DataPlaced(r, hi, lo, s, p) ==
  r.type = "data" /\ hi = 0 /\ lo = 0 /\ p = "application" /\ Len(s) > K

RecordPlaced(r, hi, lo, s, o, p) ==
  HandshakePlaced(r, hi, lo, s, o) \/ DataPlaced(r, hi, lo, s, p)

\* The bytes x that are in no record yet belong to messages with the key they will get.
OutPlaced(x, s, o) ==
  /\ Len(s) = 0 => x = << >>
  /\ Len(s) # 0 =>
       \E j \in 1 .. Len(s) :
         /\ KeyOf(j) = KeyOf(Len(s)) /\ (o => j = Len(s))
         /\ Len(x) <= Remaining(s, j - 1)

\* After the first i records, left[i] handshake bytes are still to come.
Placement(left) ==
  /\ left[Len(wire)] = Len(out)
  /\ Len(buf) + left[0] = Remaining(sent, Len(rcvd))
  /\ \A i \in 1 .. Len(wire) : RecordPlaced(wire[i], left[i - 1], left[i], sent, own, peer)
  /\ pc = "plain" /\ Len(sent) # 0 => left[0] >= Remaining(sent, 1)

\* The peer goes on, with no message too many, and all of them fit.
Going ==
  /\ peer \notin {"stopped", "mixed"} /\ Len(sent) <= K + 1
  /\ \A i \in 1 .. Len(sent) : Fits(sent[i])

\* Then the reader has not failed, and what is on its way to it will not make it fail.
Accepted ==
  /\ pc # "failed" /\ OutPlaced(out, sent, own) /\ (pc # "plain" => Len(rcvd) >= 1)
  /\ \E left \in [0 .. Len(wire) -> Nat] : Placement(left)

AcceptedInv == Going => Accepted

\* The message after the first j accounts for the difference.
LEMMA RemainingNext ==
  ASSUME NEW s \in Seq(Msg)
  PROVE  /\ Len(s) \in Nat
         /\ \A j \in 0 .. Len(s) : Remaining(s, j) \in Nat
         /\ Remaining(s, Len(s)) = 0
         /\ \A j \in 0 .. Len(s) :
              j < Len(s) =>
                /\ Len(encodeHandshakeMsg(s[j + 1])) \in Nat
                /\ Len(encodeHandshakeMsg(s[j + 1])) >= 4
                /\ Remaining(s, j) = Len(encodeHandshakeMsg(s[j + 1])) + Remaining(s, j + 1)
<1>1. Len(s) \in Nat
  BY LenProperties, Zenon
<1>2. ASSUME NEW j \in 0 .. Len(s) PROVE Remaining(s, j) \in Nat
  BY EncodedAfter, LenProperties, Zenon DEF Remaining
<1>3. Remaining(s, Len(s)) = 0
  <2>1. Len(s) \in 0 .. Len(s)
    BY <1>1
  <2>2. Flatten(Encodings(s, Len(s))) = << >>
    BY <2>1, EncodedAfter, Zenon
  <2> QED BY <2>2 DEF Remaining
<1>4. ASSUME NEW j \in 0 .. Len(s), j < Len(s)
      PROVE  /\ Len(encodeHandshakeMsg(s[j + 1])) \in Nat
             /\ Len(encodeHandshakeMsg(s[j + 1])) >= 4
             /\ Remaining(s, j) = Len(encodeHandshakeMsg(s[j + 1])) + Remaining(s, j + 1)
  <2> DEFINE m == s[j + 1]
             e == encodeHandshakeMsg(m)
             w == Flatten(Encodings(s, j + 1))
  <2>1. j + 1 \in 1 .. Len(s) /\ j + 1 \in 0 .. Len(s)
    BY <1>1, <1>4
  <2>2. m \in Msg
    BY <2>1, ElementOfSeq, Zenon
  <2>3. w \in Seq(Byte) /\ Flatten(Encodings(s, j)) = e \o w
    BY <1>4, <2>1, EncodedAfter, Zenon
  <2>4. e \in Seq(Byte) /\ Len(e) = 4 + Len(m.body) /\ Len(m.body) \in Nat
    <3>1. m.body \in Seq(Byte)
      BY <2>2, ReaderAssumption, Zenon DEF Msg, Byte
    <3> QED BY <2>2, <3>1, Encoding, LenProperties, Zenon
  <2> HIDE DEF e, w
  <2>5. Len(e \o w) = Len(e) + Len(w) /\ Len(e) \in Nat
    BY <2>3, <2>4, Concat, Zenon
  <2>6. Len(e) >= 4
    BY <2>4
  <2> QED BY <2>3, <2>5, <2>6, Zenon DEF Remaining, e, w
<1> QED BY <1>1, <1>2, <1>3, <1>4, Zenon

\* The later, the fewer.
LEMMA RemainingFalls ==
  ASSUME NEW s \in Seq(Msg), NEW i \in 0 .. Len(s), NEW j \in i .. Len(s)
  PROVE  Remaining(s, j) <= Remaining(s, i)
<1> DEFINE P == {n \in Nat : i + n <= Len(s) => Remaining(s, i + n) <= Remaining(s, i)}
<1>1. Len(s) \in Nat /\ i \in Nat /\ Remaining(s, i) \in Nat /\ i + 0 = i
  BY RemainingNext
<1>2. 0 \in P
  BY <1>1
<1>3. ASSUME NEW n \in P PROVE n + 1 \in P
  <2>1. n \in Nat /\ n + 1 \in Nat
    OBVIOUS
  <2> SUFFICES ASSUME i + (n + 1) <= Len(s)
               PROVE  Remaining(s, i + (n + 1)) <= Remaining(s, i)
    BY <2>1, Zenon
  <2> DEFINE a == i + n
  <2>2. /\ a \in 0 .. Len(s) /\ a < Len(s) /\ i + (n + 1) = a + 1
        /\ a + 1 \in 0 .. Len(s) /\ a <= Len(s)
    BY <1>1, <2>1
  <2>3. Remaining(s, a) <= Remaining(s, i)
    BY <2>2, Zenon
  <2> HIDE DEF a, P
  <2> DEFINE l == Len(encodeHandshakeMsg(s[a + 1]))
             x == Remaining(s, a)
             y == Remaining(s, a + 1)
             z == Remaining(s, i)
  <2>4. x \in Nat /\ y \in Nat /\ l \in Nat /\ x = l + y /\ x <= z /\ z \in Nat
    BY <1>1, <2>2, <2>3, RemainingNext, Zenon
  <2> HIDE DEF l, x, y, z
  <2>5. y <= z
    BY <2>4
  <2> QED BY <2>2, <2>5, Zenon DEF y, z
<1> HIDE DEF P
<1>4. P = Nat
  <2>1. P \in SUBSET Nat
    BY Zenon DEF P
  <2> QED BY <1>2, <1>3, <2>1, SetInduction, Zenon
<1>5. j - i \in Nat /\ i + (j - i) = j /\ i + (j - i) <= Len(s)
  BY <1>1
<1> QED BY <1>4, <1>5, Zenon DEF P

\* A message more adds its bytes to all that was remaining.
LEMMA RemainingAppend ==
  ASSUME NEW s \in Seq(Msg), NEW m \in Msg, NEW j \in 0 .. Len(s)
  PROVE  Remaining(Append(s, m), j) = Remaining(s, j) + Len(encodeHandshakeMsg(m))
<1> DEFINE x == Encodings(s, j)
           e == encodeHandshakeMsg(m)
<1>1. x \in Seq(Seq(Byte)) /\ e \in Seq(Byte) /\ Encodings(Append(s, m), j) = Append(x, e)
  BY EncodingsType, Encoding, EncodingsAppend, Zenon
<1> HIDE DEF x, e
<1>2. Flatten(Append(x, e)) = Flatten(x) \o e /\ Flatten(x) \in Seq(Byte)
  BY <1>1, FlattenAppend, FlattenType, Zenon
<1>3. Len(Flatten(x) \o e) = Len(Flatten(x)) + Len(e)
  BY <1>1, <1>2, Concat, Zenon
<1> QED BY <1>1, <1>2, <1>3, Zenon DEF Remaining, x, e

\* The header in the buffer is that of the next message; an incomplete message is shorter
\* than what was sent.
LEMMA NextLength ==
  ASSUME IInv, pc # "failed", Len(rcvd) < Len(sent)
  PROVE  LET l == Len(encodeHandshakeMsg(sent[Len(rcvd) + 1]))
         IN  /\ HasHeader => TotalLen = l
             /\ ~Complete => Len(buf) < l
<1> DEFINE k == Len(rcvd)
           c == Coming
           m == sent[k + 1]
           l == Len(encodeHandshakeMsg(m))
           r == WrittenAfter(k + 1)
<1>1. /\ TypeOK /\ buf \in Seq(Byte) /\ c \in Seq(Byte) /\ Len(buf) \in Nat
      /\ sent \in Seq(Msg) /\ Len(sent) \in Nat /\ k \in 0 .. Len(sent) /\ k < Len(sent)
  <2>1. TypeOK /\ sent \in Seq(Msg) /\ rcvd \in Seq(Msg) /\ Len(rcvd) <= Len(sent)
    BY Zenon DEF IInv, TypeOK, ReceivedInv
  <2>2. buf \in Seq(Byte) /\ c \in Seq(Byte)
    BY <2>1, ComingType, Zenon
  <2> QED BY <2>1, <2>2, LenProperties
<1>2. k + 1 \in 1 .. Len(sent) /\ k + 1 \in 0 .. Len(sent)
  BY <1>1
<1>3. m \in Msg /\ r \in Seq(Byte) /\ buf \o c = encodeHandshakeMsg(m) \o r
  <2>1. buf \o c = WrittenAfter(k)
    BY Zenon DEF IInv, BalanceInv
  <2> QED BY <1>1, <1>2, <2>1, ElementOfSeq, WrittenAfterType, Zenon
<1>4. ASSUME HasHeader PROVE TotalLen = l
  <2>1. Len(buf) >= 4 /\ TotalLen = Total(buf)
    BY <1>4, Zenon DEF HasHeader, HandshakeHeaderLen, TotalLen, Total
  <2> HIDE DEF c, m, r
  <2> QED BY <1>1, <1>3, <2>1, HeaderRead, Zenon
<1>5. l \in Nat /\ l >= 4
  BY <1>1, RemainingNext, Zenon
<1> HIDE DEF l, k
<1>6. ASSUME ~Complete PROVE Len(buf) < l
  <2>1. CASE HasHeader
    BY <1>1, <1>4, <1>5, <1>6, <2>1 DEF Complete
  <2>2. CASE ~HasHeader
    BY <1>1, <1>5, <2>2 DEF HasHeader, HandshakeHeaderLen
  <2> QED BY <2>1, <2>2, Zenon
<1> QED BY <1>4, <1>6, Zenon DEF l, k

\* A reader that needs a record gets one that it takes.
LEMMA HeadAccepted ==
  ASSUME IInv, Going, pc \in {"plain", "encrypted"}, ~Complete, wire # << >>,
         pc # "plain" => Len(rcvd) >= 1, NEW left \in [0 .. Len(wire) -> Nat],
         Placement(left)
  PROVE  /\ RecordOK(Head(wire))
         /\ left[0] = left[1] + Len(Head(wire).data)
         /\ pc = "plain" => left[1] >= Remaining(sent, 1)
<1> DEFINE k == Len(rcvd)
           r == Head(wire)
           hi == left[0]
           lo == left[1]
           R(j) == Remaining(sent, j)
<1>1. /\ sent \in Seq(Msg) /\ Len(sent) \in Nat /\ k \in 0 .. Len(sent) /\ k \in Nat
      /\ buf \in Seq(Byte) /\ Len(buf) \in Nat /\ k <= K
      /\ pc = "plain" => k = 0
  <2>1. /\ sent \in Seq(Msg) /\ rcvd \in Seq(Msg) /\ k <= Len(sent) /\ buf \in Seq(Byte)
        /\ pc = "plain" => k = 0
        /\ pc = "encrypted" => k <= K
    BY Zenon DEF IInv, TypeOK, ReceivedInv, CountInv, Byte
  <2> QED BY <2>1, LenProperties, ReaderAssumption
<1>2. /\ r \in Records /\ r = wire[1] /\ 1 \in 1 .. Len(wire)
      /\ hi \in Nat /\ lo \in Nat
  <2>1. wire \in Seq(Records)
    BY Zenon DEF IInv, TypeOK
  <2>2. Len(wire) \in Nat /\ Len(wire) # 0
    BY <2>1, EmptySeq, LenProperties, Zenon
  <2>3. 1 \in 1 .. Len(wire) /\ 0 \in 0 .. Len(wire) /\ 1 \in 0 .. Len(wire)
    BY <2>2
  <2> QED BY <2>1, <2>3, HeadTailProperties, ElementOfSeq
<1>3. /\ Len(buf) + hi = R(k)
      /\ RecordPlaced(r, hi, lo, sent, own, peer)
  <2>1. 1 - 1 = 0
    OBVIOUS
  <2> QED BY <1>2, <2>1, Zenon DEF Placement
<1> HIDE DEF k, r, hi, lo
<1>4. /\ \A j \in 0 .. Len(sent) : R(j) \in Nat
      /\ R(Len(sent)) = 0
  BY <1>1, RemainingNext, Zenon
<1>5. k < Len(sent)
  <2>1. CASE DataPlaced(r, hi, lo, sent, peer)
    BY <2>1, <1>1, ReaderAssumption DEF DataPlaced
  <2>2. CASE HandshakePlaced(r, hi, lo, sent, own)
    <3> SUFFICES ASSUME k = Len(sent) PROVE FALSE
      BY <1>1
    <3>1. hi > lo
      BY <2>2, Zenon DEF HandshakePlaced
    <3> QED BY <3>1, <1>1, <1>2, <1>3, <1>4
  <2> QED BY <1>3, <2>1, <2>2, Zenon DEF RecordPlaced
<1>6. k + 1 \in 1 .. Len(sent) /\ k + 1 \in 0 .. Len(sent)
  BY <1>1, <1>5
<1> DEFINE l == Len(encodeHandshakeMsg(sent[k + 1]))
<1>7. l \in Nat /\ R(k) = l + R(k + 1) /\ R(k) \in Nat /\ R(k + 1) \in Nat
  BY <1>1, <1>5, <1>6, RemainingNext, Zenon
<1>8. Len(buf) < l
  <2>1. pc # "failed"
    BY Zenon
  <2> QED BY <2>1, <1>5, NextLength, Zenon DEF k
<1>9. l + (IF own THEN 0 ELSE MaxPlaintextLength - 1) <= maxHandshakeBufferSize
  BY <1>6, Zenon DEF Going, Fits
<1> HIDE DEF l, R
<1>10. hi > R(k + 1)
  BY <1>1, <1>2, <1>3, <1>7, <1>8
<1>11. HandshakePlaced(r, hi, lo, sent, own)
  <2>1. hi # 0
    BY <1>2, <1>7, <1>10
  <2> QED BY <1>3, <2>1, Zenon DEF RecordPlaced, DataPlaced
<1>12. /\ r.type = "handshake" /\ hi > lo /\ hi = lo + Len(r.data)
       /\ Len(r.data) <= MaxPlaintextLength
  BY <1>11, Zenon DEF HandshakePlaced
<1>13. PICK j \in 1 .. Len(sent) : /\ r.key = KeyOf(j)
                                   /\ hi <= R(j - 1)
                                   /\ own \/ j = 1 => lo >= R(j)
  BY <1>11, Zenon DEF HandshakePlaced, R
<1>14. j \in Nat /\ j - 1 \in 0 .. Len(sent) /\ j \in 0 .. Len(sent)
  BY <1>1
<1>15. \A a \in 0 .. Len(sent) : \A b \in a .. Len(sent) : R(b) <= R(a)
  BY <1>1, RemainingFalls, Zenon DEF R
<1>16. j <= k + 1
  <2> SUFFICES ASSUME j - 1 >= k + 1 PROVE FALSE
    BY <1>1, <1>14
  <2>1. j - 1 \in k + 1 .. Len(sent)
    BY <1>14, <1>6
  <2>2. R(j - 1) <= R(k + 1)
    BY <1>6, <1>15, <2>1, Zenon
  <2>3. R(j - 1) \in Nat
    BY <1>4, <1>14, Zenon DEF R
  <2> QED BY <1>2, <1>7, <1>10, <1>13, <2>2, <2>3
<1>17. r.key = IF pc = "plain" THEN "plain" ELSE "handshake"
  <2>1. CASE pc = "plain"
    <3>1. j = 1
      BY <2>1, <1>1, <1>14, <1>16
    <3> QED BY <2>1, <3>1, <1>13, Zenon DEF KeyOf
  <2>2. CASE pc # "plain"
    <3>1. j # 1
      <4> SUFFICES ASSUME j = 1 PROVE FALSE
        BY Zenon
      <4>1. k \in 1 .. Len(sent) /\ 1 \in 0 .. Len(sent)
        BY <2>2, <1>1 DEF k
      <4>2. lo >= R(1) /\ R(k) <= R(1) /\ R(1) \in Nat
        BY <4>1, <1>4, <1>13, <1>15, Zenon DEF R
      <4> QED BY <4>2, <1>1, <1>2, <1>3, <1>7, <1>12
    <3> QED BY <2>2, <3>1, <1>13, Zenon DEF KeyOf
  <2> QED BY <2>1, <2>2, Zenon
<1>18. Len(buf) + Len(r.data) <= maxHandshakeBufferSize
  <2>1. Len(r.data) \in Nat
    <3>1. r.data \in Seq(Byte)
      BY <1>2, Zenon DEF Records, Byte
    <3> QED BY <3>1, LenProperties, Zenon
  <2>2. CASE own
    <3>1. k + 1 \in j .. Len(sent)
      BY <1>1, <1>6, <1>14, <1>16
    <3>2. R(k + 1) <= R(j) /\ lo >= R(j) /\ R(j) \in Nat
      BY <2>2, <3>1, <1>4, <1>13, <1>14, <1>15, Zenon DEF R
    <3>3. l <= maxHandshakeBufferSize
      BY <2>2, <1>7, <1>9
    <3>4. lo >= R(k + 1)
      BY <3>2, <1>2, <1>7
    <3>5. Len(buf) + Len(r.data) <= l
      <4> DEFINE b == Len(buf)
                 d == Len(r.data)
                 x == R(k + 1)
      <4>1. /\ b \in Nat /\ d \in Nat /\ x \in Nat /\ l \in Nat /\ hi \in Nat /\ lo \in Nat
            /\ b + hi = l + x /\ hi = lo + d /\ lo >= x
        BY <2>1, <3>4, <1>1, <1>2, <1>3, <1>7, <1>12, Zenon
      <4> HIDE DEF b, d, x
      <4>2. b + d <= l
        BY <4>1
      <4> QED BY <4>2, Zenon DEF b, d
    <3> QED BY <2>1, <3>3, <3>5, <1>1, <1>7, ReaderAssumption
  <2>3. CASE ~own
    BY <2>1, <2>3, <1>1, <1>7, <1>8, <1>9, <1>12, ReaderAssumption
  <2> QED BY <2>2, <2>3, Zenon
<1>19. Len(Buffered(r)) <= maxHandshakeBufferSize
  <2>1. r.data \in Seq(Byte)
    BY <1>2, Zenon DEF Records, Byte
  <2>2. Len(buf \o r.data) = Len(buf) + Len(r.data)
    BY <2>1, <1>1, Concat, Zenon
  <2> QED BY <2>2, <1>18, Zenon DEF Buffered
<1>20. pc = "plain" => lo >= R(1)
  <2> SUFFICES ASSUME pc = "plain" PROVE lo >= R(1)
    BY Zenon
  <2>1. j = 1
    BY <1>1, <1>14, <1>16
  <2> QED BY <2>1, <1>13, Zenon
<1> QED BY <1>12, <1>17, <1>19, <1>20, Zenon DEF RecordOK, r, hi, lo, R

\* A message more moves no record; there is only more to come after each.
LEMMA PlacedAppend ==
  ASSUME NEW s \in Seq(Msg), NEW m \in Msg, NEW r, NEW hi \in Nat, NEW lo \in Nat, NEW o,
         NEW l \in Nat, l = Len(encodeHandshakeMsg(m)), Len(r.data) \in Nat,
         HandshakePlaced(r, hi, lo, s, o)
  PROVE  HandshakePlaced(r, hi + l, lo + l, Append(s, m), o)
<1>1. r.type = "handshake" /\ hi > lo /\ hi = lo + Len(r.data)
      /\ Len(r.data) <= MaxPlaintextLength
  BY Zenon DEF HandshakePlaced
<1>2. PICK j \in 1 .. Len(s) : /\ r.key = KeyOf(j)
                               /\ hi <= Remaining(s, j - 1)
                               /\ o \/ j = 1 => lo >= Remaining(s, j)
  BY Zenon DEF HandshakePlaced
<1>3. Len(s) \in Nat /\ Len(Append(s, m)) = Len(s) + 1
  BY AppendProperties, LenProperties, Zenon
<1>4. j \in 0 .. Len(s) /\ j - 1 \in 0 .. Len(s) /\ j \in 1 .. Len(Append(s, m))
  BY <1>3
<1> DEFINE a == Remaining(s, j - 1)
           b == Remaining(s, j)
<1>5. /\ a \in Nat /\ b \in Nat
      /\ Remaining(Append(s, m), j - 1) = a + l /\ Remaining(Append(s, m), j) = b + l
  BY <1>4, RemainingNext, RemainingAppend, Zenon
<1>6. hi <= a /\ (o \/ j = 1 => lo >= b)
  BY <1>2, Zenon
<1> HIDE DEF a, b
<1>7. hi + l <= a + l /\ (lo >= b => lo + l >= b + l)
  BY <1>5, <1>6
<1>8. hi + l > lo + l /\ hi + l = lo + l + Len(r.data)
  <2> DEFINE d == Len(r.data)
  <2>1. d \in Nat /\ hi > lo /\ hi = lo + d
    BY <1>1, Zenon
  <2> HIDE DEF d
  <2>2. hi + l > lo + l /\ hi + l = lo + l + d
    BY <2>1
  <2> QED BY <2>2, Zenon DEF d
<1> QED BY <1>1, <1>2, <1>4, <1>5, <1>6, <1>7, <1>8, Zenon DEF HandshakePlaced

\* The bytes of a message more are placed if this code, or the hello, has left none.
LEMMA OutPlacedAppend ==
  ASSUME NEW s \in Seq(Msg), NEW m \in Msg, NEW x \in Seq(Byte), NEW o,
         OutPlaced(x, s, o), o \/ Len(s) = 1 => x = << >>
  PROVE  OutPlaced(x \o encodeHandshakeMsg(m), Append(s, m), o)
<1> DEFINE e == encodeHandshakeMsg(m)
           n == Len(s)
           t == Append(s, m)
<1>1. e \in Seq(Byte) /\ Len(e) \in Nat /\ n \in Nat /\ Len(t) = n + 1
  <2>1. e \in Seq(Byte)
    BY Encoding, Zenon
  <2>2. Len(t) = n + 1
    BY AppendProperties, Zenon
  <2> HIDE DEF e, t
  <2> QED BY <2>1, <2>2, LenProperties, Zenon
<1>2. Len(x \o e) = Len(x) + Len(e) /\ Len(x) \in Nat
  BY <1>1, Concat, Zenon
<1>3. \A j \in 0 .. n : Remaining(t, j) = Remaining(s, j) + Len(e) /\ Remaining(s, j) \in Nat
  BY RemainingAppend, RemainingNext, Zenon
<1> HIDE DEF e, t
<1>4. CASE x = << >>
  <2>1. Len(x) = 0
    BY <1>4, EmptySeq, Zenon
  <2>2. n \in 0 .. n /\ n + 1 \in 1 .. Len(t) /\ (n + 1) - 1 = n /\ Len(t) # 0
    BY <1>1
  <2>3. Remaining(t, n) = Remaining(s, n) + Len(e) /\ Remaining(s, n) \in Nat
    BY <1>3, <2>2, Zenon
  <2>4. Len(x \o e) <= Remaining(t, n)
    BY <1>1, <1>2, <2>1, <2>3
  <2> QED BY <1>1, <2>2, <2>4, Zenon DEF OutPlaced, e, t
<1>5. CASE x # << >>
  <2>1. ~o /\ n # 0 /\ n # 1
    BY <1>5, Zenon DEF OutPlaced
  <2>2. PICK j \in 1 .. n : KeyOf(j) = KeyOf(n) /\ Len(x) <= Remaining(s, j - 1)
    BY <2>1, Zenon DEF OutPlaced
  <2>3. KeyOf(n) = KeyOf(n + 1)
    <3>1. n + 1 # 1
      BY <1>1, <2>1
    <3> QED BY <2>1, <3>1, Zenon DEF KeyOf
  <2>4. j - 1 \in 0 .. n /\ j \in 1 .. Len(t) /\ Len(t) # 0
    BY <1>1
  <2>5. Remaining(t, j - 1) = Remaining(s, j - 1) + Len(e) /\ Remaining(s, j - 1) \in Nat
    BY <1>3, <2>4, Zenon
  <2>6. Len(x \o e) <= Remaining(t, j - 1)
    BY <1>1, <1>2, <2>2, <2>5
  <2> QED BY <1>1, <2>1, <2>2, <2>3, <2>4, <2>6, Zenon DEF OutPlaced, e, t
<1> QED BY <1>4, <1>5, Zenon

\* A record of the bytes that come next is placed, and so are the bytes it leaves.
LEMMA OutToRecord ==
  ASSUME NEW s \in Seq(Msg), NEW x \in Seq(Byte), NEW y \in Seq(Byte), NEW o, NEW r,
         OutPlaced(x, s, o), r.type = "handshake", r.key = KeyOf(Len(s)),
         Len(r.data) \in Nat \ {0}, Len(r.data) <= MaxPlaintextLength,
         Len(x) = Len(y) + Len(r.data), Len(s) # 0
  PROVE  HandshakePlaced(r, Len(x), Len(y), s, o) /\ OutPlaced(y, s, o)
<1>1. PICK j \in 1 .. Len(s) :
        KeyOf(j) = KeyOf(Len(s)) /\ (o => j = Len(s)) /\ Len(x) <= Remaining(s, j - 1)
  BY Zenon DEF OutPlaced
<1>2. /\ Len(s) \in Nat /\ Len(x) \in Nat /\ Len(y) \in Nat
      /\ Remaining(s, Len(s)) = 0
  BY RemainingNext, LenProperties, Zenon
<1>3. j - 1 \in 0 .. Len(s)
  BY <1>2
<1>4. Remaining(s, j - 1) \in Nat
  BY <1>3, RemainingNext, Zenon
<1>5. Len(x) > Len(y) /\ Len(y) <= Remaining(s, j - 1) /\ Len(y) >= 0
  BY <1>1, <1>2, <1>4
<1>6. j = 1 => Len(s) = 1
  BY <1>1, Zenon DEF KeyOf
<1>7. o \/ j = 1 => Len(y) >= Remaining(s, j)
  BY <1>1, <1>2, <1>5, <1>6, Zenon
<1>8. HandshakePlaced(r, Len(x), Len(y), s, o)
  BY <1>1, <1>5, <1>7, Zenon DEF HandshakePlaced
<1>9. OutPlaced(y, s, o)
  BY <1>1, <1>5, Zenon DEF OutPlaced
<1> QED BY <1>8, <1>9, Zenon

\* The writer encodes a message.
LEMMA WriteMsgAccepted ==
  ASSUME IInv, Accepted, WriteMsg
  PROVE  Accepted'
<1>1. PICK b \in Body :
        LET m == [type |-> IF Len(sent) + 1 = 1 THEN Hello ELSE Encrypted, body |-> b]
        IN  sent' = Append(sent, m) /\ out' = out \o encodeHandshakeMsg(m)
  BY Zenon DEF WriteMsg
<1> DEFINE m == [type |-> IF Len(sent) + 1 = 1 THEN Hello ELSE Encrypted, body |-> b]
           l == Len(encodeHandshakeMsg(m))
<1>2. sent' = Append(sent, m) /\ out' = out \o encodeHandshakeMsg(m)
  BY <1>1, Zenon
<1>3. m \in Msg
  BY Zenon DEF Msg
<1> HIDE DEF m
<1>4. /\ UNCHANGED <<own, wire, peer, pc, buf, rcvd>> /\ peer = "writing"
      /\ own \/ Len(sent) + 1 = 2 => out = << >>
  BY Zenon DEF WriteMsg
<1>5. /\ sent \in Seq(Msg) /\ out \in Seq(Byte) /\ wire \in Seq(Records) /\ buf \in Seq(Byte)
      /\ Len(sent) \in Nat /\ Len(wire) \in Nat /\ Len(buf) \in Nat
      /\ Len(rcvd) \in 0 .. Len(sent) /\ Len(out) \in Nat
  <2>1. /\ sent \in Seq(Msg) /\ out \in Seq(Byte) /\ wire \in Seq(Records)
        /\ rcvd \in Seq(Msg) /\ Len(rcvd) <= Len(sent) /\ buf \in Seq(Byte)
    BY Zenon DEF IInv, TypeOK, ReceivedInv, Byte
  <2> QED BY <2>1, LenProperties
<1>6. l \in Nat /\ encodeHandshakeMsg(m) \in Seq(Byte) /\ Len(out') = Len(out) + l
  BY <1>2, <1>3, <1>5, Encoding, LenProperties, Concat, Zenon
<1>7. \A j \in 0 .. Len(sent) : /\ Remaining(sent', j) = Remaining(sent, j) + l
                                /\ Remaining(sent, j) \in Nat
  BY <1>2, <1>3, <1>5, RemainingAppend, RemainingNext, Zenon
<1> HIDE DEF l
<1>8. OutPlaced(out', sent', own')
  <2>1. OutPlaced(out, sent, own)
    BY Zenon DEF Accepted
  <2>2. own \/ Len(sent) = 1 => out = << >>
    BY <1>4, 1 + 1 = 2, Zenon
  <2> QED BY <1>2, <1>3, <1>4, <1>5, <2>1, <2>2, OutPlacedAppend, Zenon
<1>9. PICK left \in [0 .. Len(wire) -> Nat] : Placement(left)
  BY Zenon DEF Accepted
<1>10. PICK g \in [0 .. Len(wire) -> Nat] :
         \A i \in 0 .. Len(wire) : g[i] = left[i] + l /\ left[i] \in Nat
  <2> DEFINE f == [i \in 0 .. Len(wire) |-> left[i] + l]
  <2>1. f \in [0 .. Len(wire) -> Nat]
    BY <1>6
  <2>2. \A i \in 0 .. Len(wire) : f[i] = left[i] + l /\ left[i] \in Nat
    BY Zenon
  <2> QED BY <2>1, <2>2, Zenon
<1>11. 0 \in 0 .. Len(wire) /\ Len(wire) \in 0 .. Len(wire)
  BY <1>5
<1>12. g[Len(wire')] = Len(out')
  <2>1. left[Len(wire)] = Len(out)
    BY <1>9, Zenon DEF Placement
  <2> QED BY <1>4, <1>6, <1>10, <1>11, <2>1, Zenon
<1>13. Len(buf') + g[0] = Remaining(sent', Len(rcvd'))
  <2>1. Len(buf) + left[0] = Remaining(sent, Len(rcvd))
    BY <1>9, Zenon DEF Placement
  <2>2. Remaining(sent', Len(rcvd)) = Remaining(sent, Len(rcvd)) + l
    BY <1>5, <1>7, Zenon
  <2>3. g[0] = left[0] + l /\ left[0] \in Nat
    BY <1>10, <1>11, Zenon
  <2>4. Len(buf) + g[0] = Remaining(sent', Len(rcvd))
    BY <1>5, <1>6, <2>1, <2>2, <2>3
  <2> QED BY <1>4, <2>4, Zenon
<1>14. ASSUME NEW i \in 1 .. Len(wire')
       PROVE  RecordPlaced(wire'[i], g[i - 1], g[i], sent', own', peer')
  <2>1. i \in 1 .. Len(wire) /\ wire'[i] = wire[i]
    BY <1>4, Zenon
  <2>2. i - 1 \in 0 .. Len(wire) /\ i \in 0 .. Len(wire)
    BY <1>5, <2>1
  <2>3. HandshakePlaced(wire[i], left[i - 1], left[i], sent, own)
    BY <1>4, <1>9, <2>1, Zenon DEF Placement, RecordPlaced, DataPlaced
  <2>4. Len(wire[i].data) \in Nat
    <3>1. wire[i] \in Records
      BY <1>5, <2>1, ElementOfSeq, Zenon
    <3> QED BY <3>1, LenProperties, Zenon DEF Records
  <2>5. HandshakePlaced(wire[i], left[i - 1] + l, left[i] + l, Append(sent, m), own)
    BY <1>3, <1>5, <1>6, <1>10, <2>2, <2>3, <2>4, PlacedAppend, Zenon DEF l
  <2> QED BY <1>2, <1>4, <1>10, <2>1, <2>2, <2>5, Zenon DEF RecordPlaced
<1>15. ASSUME pc' = "plain", Len(sent') # 0 PROVE g[0] >= Remaining(sent', 1)
  <2>1. g[0] = left[0] + l /\ left[0] \in Nat
    BY <1>10, <1>11, Zenon
  <2>2. CASE Len(sent) = 0
    <3>1. sent' \in Seq(Msg) /\ Len(sent') = 1
      BY <1>2, <1>3, <1>5, <2>2, AppendProperties
    <3>2. Remaining(sent', 1) = 0
      BY <3>1, RemainingNext, Zenon
    <3> QED BY <2>1, <3>2, <1>6
  <2>3. CASE Len(sent) # 0
    <3>1. left[0] >= Remaining(sent, 1)
      BY <1>4, <1>9, <1>15, <2>3, Zenon DEF Placement
    <3>2. 1 \in 0 .. Len(sent)
      BY <1>5, <2>3
    <3>3. Remaining(sent', 1) = Remaining(sent, 1) + l /\ Remaining(sent, 1) \in Nat
      BY <1>7, <3>2, Zenon
    <3> QED BY <2>1, <3>1, <3>3, <1>6
  <2> QED BY <2>2, <2>3, Zenon
<1>16. Placement(g)'
  BY <1>12, <1>13, <1>14, <1>15, Zenon DEF Placement
<1> QED BY <1>4, <1>8, <1>10, <1>16, Zenon DEF Accepted

\* A record more at the end of the wire takes its bytes from those in no record.
LEMMA RecordAppended ==
  ASSUME IInv, Accepted, NEW r \in Records, wire' = Append(wire, r), peer = "writing",
         UNCHANGED <<own, sent, pc, buf, rcvd>>, out' \in Seq(Byte),
         RecordPlaced(r, Len(out), Len(out'), sent, own, peer'), OutPlaced(out', sent, own)
  PROVE  Accepted'
<1> DEFINE n == Len(wire)
<1>1. /\ wire \in Seq(Records) /\ n \in Nat /\ Len(out') \in Nat
      /\ Len(wire') = n + 1 /\ wire'[n + 1] = r
      /\ \A i \in 1 .. n : wire'[i] = wire[i]
  <2>1. wire \in Seq(Records)
    BY Zenon DEF IInv, TypeOK
  <2> QED BY <2>1, AppendProperties, LenProperties
<1>2. PICK left \in [0 .. n -> Nat] : Placement(left)
  BY Zenon DEF Accepted
<1>3. PICK g \in [0 .. n + 1 -> Nat] :
        g[n + 1] = Len(out') /\ \A i \in 0 .. n : g[i] = left[i]
  <2> DEFINE f == [i \in 0 .. n + 1 |-> IF i = n + 1 THEN Len(out') ELSE left[i]]
  <2>1. f \in [0 .. n + 1 -> Nat] /\ f[n + 1] = Len(out') /\ \A i \in 0 .. n : f[i] = left[i]
    <3> HIDE DEF n
    <3>1. ASSUME NEW i \in 0 .. n + 1, i # n + 1 PROVE i \in 0 .. n
      BY <1>1, <3>1
    <3>2. ASSUME NEW i \in 0 .. n PROVE i \in 0 .. n + 1 /\ i # n + 1
      BY <1>1
    <3>3. n + 1 \in 0 .. n + 1
      BY <1>1
    <3> QED BY <1>1, <3>1, <3>2, <3>3, Zenon
  <2> HIDE DEF f
  <2> QED BY <2>1, Zenon
<1>4. 0 \in 0 .. n /\ n \in 0 .. n
  BY <1>1
<1>5. g[Len(wire')] = Len(out')
  BY <1>1, <1>3, Zenon
<1>6. Len(buf') + g[0] = Remaining(sent', Len(rcvd'))
  BY <1>2, <1>3, <1>4, Zenon DEF Placement
<1>7. ASSUME NEW i \in 1 .. Len(wire')
      PROVE  RecordPlaced(wire'[i], g[i - 1], g[i], sent', own', peer')
  <2>1. CASE i = n + 1
    <3>1. i - 1 = n
      BY <1>1, <2>1
    <3>2. g[i - 1] = Len(out) /\ g[i] = Len(out')
      BY <1>2, <1>3, <1>4, <2>1, <3>1, Zenon DEF Placement
    <3> QED BY <1>1, <2>1, <3>2, Zenon
  <2>2. CASE i # n + 1
    <3>1. i \in 1 .. n /\ i \in 0 .. n /\ i - 1 \in 0 .. n
      BY <1>1, <2>2
    <3>2. HandshakePlaced(wire[i], left[i - 1], left[i], sent, own)
      BY <1>2, <3>1, Zenon DEF Placement, RecordPlaced, DataPlaced
    <3> QED BY <1>1, <1>3, <3>1, <3>2, Zenon DEF RecordPlaced
  <2> QED BY <2>1, <2>2, Zenon
<1>8. ASSUME pc' = "plain", Len(sent') # 0 PROVE g[0] >= Remaining(sent', 1)
  BY <1>2, <1>3, <1>4, <1>8, Zenon DEF Placement
<1>9. Placement(g)'
  BY <1>5, <1>6, <1>7, <1>8, Zenon DEF Placement
<1>10. g \in [0 .. Len(wire') -> Nat]
  BY <1>1, Zenon
<1> QED BY <1>9, <1>10, Zenon DEF Accepted

\* The writer fills a record.
LEMMA WriteRecordAccepted ==
  ASSUME IInv, Going, Accepted, WriteRecord
  PROVE  Accepted'
<1>1. PICK n \in ChunkSizes :
        /\ wire' = Append(wire, Record(WriteKey, "handshake", SubSeq(out, 1, n)))
        /\ out' = SubSeq(out, n + 1, Len(out))
  BY Zenon DEF WriteRecord
<1>2. UNCHANGED <<own, sent, peer, pc, buf, rcvd>> /\ out # << >> /\ peer = "writing"
  BY Zenon DEF WriteRecord, Going
<1>3. sent \in Seq(Msg) /\ out \in Seq(Byte) /\ OutPlaced(out, sent, own)
  BY Zenon DEF IInv, TypeOK, Accepted, Byte
<1>4. Len(out) \in Nat /\ n \in 1 .. Len(out) /\ n <= MaxPlaintextLength
  <2>1. Len(out) \in Nat \ {0}
    BY <1>2, <1>3, EmptySeq, Zenon
  <2> QED BY <2>1, ReaderAssumption DEF ChunkSizes
<1> DEFINE a == SubSeq(out, 1, n)
           z == SubSeq(out, n + 1, Len(out))
           r == Record(WriteKey, "handshake", a)
<1>5. a \in Seq(Byte) /\ Len(a) = n /\ z \in Seq(Byte) /\ Len(z) = Len(out) - n
  <2>1. \A j \in 1 .. Len(out) : out[j] \in Byte
    BY <1>3, ElementOfSeq, Zenon
  <2>2. a \in Seq(Byte) /\ Len(a) = n
    BY <2>1, <1>4, SubSeqProperties
  <2>3. z \in Seq(Byte) /\ Len(z) = Len(out) - n
    BY <2>1, <1>4, SubSeqProperties
  <2> QED BY <2>2, <2>3, Zenon
<1>6. wire' = Append(wire, r) /\ out' = z
  BY <1>1, Zenon
<1> HIDE DEF a, z
<1>7. /\ r \in Records /\ r.type = "handshake" /\ r.key = KeyOf(Len(sent)) /\ r.data = a
  BY <1>2, <1>5, Zenon DEF Records, Record, WriteKey, KeyOf, Byte
<1> HIDE DEF r
<1>8. /\ Len(r.data) \in Nat \ {0} /\ Len(r.data) <= MaxPlaintextLength
      /\ Len(out) = Len(z) + Len(r.data)
  <2>1. n \in Nat \ {0} /\ Len(out) = Len(z) + n
    BY <1>4, <1>5
  <2> QED BY <1>4, <1>5, <1>7, <2>1, Zenon
<1>9. Len(sent) # 0
  BY <1>2, <1>3, Zenon DEF OutPlaced
<1>10. HandshakePlaced(r, Len(out), Len(z), sent, own) /\ OutPlaced(z, sent, own)
  BY <1>3, <1>5, <1>7, <1>8, <1>9, OutToRecord, Zenon
<1> QED BY <1>2, <1>5, <1>6, <1>7, <1>10, RecordAppended, Zenon DEF RecordPlaced

\* The writer begins with application data.
LEMMA WriteAppDataAccepted ==
  ASSUME IInv, Accepted, WriteAppData
  PROVE  Accepted'
<1> DEFINE r == Record("application", "data", << >>)
<1>1. r \in Records /\ r.type = "data"
  BY EmptySeq, Zenon DEF Records, Record
<1>2. /\ wire' = Append(wire, r) /\ peer' = "application" /\ peer = "writing"
      /\ UNCHANGED <<own, sent, out, pc, buf, rcvd>> /\ out = << >> /\ Len(sent) > K
  BY Zenon DEF WriteAppData
<1> HIDE DEF r
<1>3. Len(out) = 0 /\ out \in Seq(Byte) /\ OutPlaced(out, sent, own)
  BY <1>2, EmptySeq, Zenon DEF Accepted
<1>4. RecordPlaced(r, Len(out), Len(out'), sent, own, peer')
  BY <1>1, <1>2, <1>3, Zenon DEF RecordPlaced, DataPlaced
<1> QED BY <1>1, <1>2, <1>3, <1>4, RecordAppended, Zenon

\* The reader takes a record.
LEMMA ReadRecordAccepted ==
  ASSUME IInv, Going, Accepted, ReadRecord
  PROVE  Accepted'
<1>1. /\ pc \in {"plain", "encrypted"} /\ ~Complete /\ wire # << >> /\ wire' = Tail(wire)
      /\ UNCHANGED <<own, sent, out, peer>>
  BY Zenon DEF ReadRecord
<1> DEFINE n == Len(wire)
           d == Head(wire).data
<1>2. /\ wire \in Seq(Records) /\ Head(wire) \in Records /\ n \in Nat \ {0}
      /\ Len(wire') = n - 1 /\ \A i \in 1 .. n - 1 : wire'[i] = wire[i + 1]
  <2>1. wire \in Seq(Records)
    BY Zenon DEF IInv, TypeOK
  <2> QED BY <1>1, <2>1, HeadTailProperties, EmptySeq, Zenon
<1>3. PICK left \in [0 .. n -> Nat] : Placement(left)
  BY Zenon DEF Accepted
<1>4. /\ RecordOK(Head(wire)) /\ left[0] = left[1] + Len(d)
      /\ pc = "plain" => left[1] >= Remaining(sent, 1)
  <2>1. pc # "plain" => Len(rcvd) >= 1
    BY Zenon DEF Accepted
  <2> QED BY <1>1, <1>3, <2>1, HeadAccepted, Zenon
<1>5. buf' = buf \o d /\ UNCHANGED <<pc, rcvd>>
  BY <1>4, Zenon DEF ReadRecord, Buffered
<1>6. PICK g \in [0 .. n - 1 -> Nat] : \A i \in 0 .. n - 1 : g[i] = left[i + 1]
  <2> DEFINE f == [i \in 0 .. n - 1 |-> left[i + 1]]
  <2>1. \A i \in 0 .. n - 1 : i + 1 \in 0 .. n
    BY <1>2
  <2>2. f \in [0 .. n - 1 -> Nat] /\ \A i \in 0 .. n - 1 : f[i] = left[i + 1]
    BY <2>1, Zenon
  <2> HIDE DEF f
  <2> QED BY <2>2, Zenon
<1>7. /\ 0 \in 0 .. n - 1 /\ n - 1 \in 0 .. n - 1 /\ (n - 1) + 1 = n /\ 0 + 1 = 1
      /\ 0 \in 0 .. n /\ 1 \in 0 .. n
  BY <1>2
<1>8. g[Len(wire')] = Len(out')
  BY <1>1, <1>2, <1>3, <1>6, <1>7, Zenon DEF Placement
<1>9. Len(buf') + g[0] = Remaining(sent', Len(rcvd'))
  <2>1. buf \in Seq(Byte) /\ d \in Seq(Byte)
    BY <1>2, Zenon DEF IInv, TypeOK, Records, Byte
  <2>2. Len(buf') = Len(buf) + Len(d) /\ Len(buf) \in Nat /\ Len(d) \in Nat
    BY <1>5, <2>1, Concat, Zenon
  <2>3. g[0] = left[1] /\ left[1] \in Nat /\ left[0] \in Nat
    BY <1>6, <1>7, Zenon
  <2>4. Len(buf) + left[0] = Remaining(sent, Len(rcvd))
    BY <1>3, Zenon DEF Placement
  <2> HIDE DEF d
  <2>5. Len(buf') + g[0] = Remaining(sent, Len(rcvd))
    BY <1>4, <2>2, <2>3, <2>4
  <2> QED BY <1>1, <1>5, <2>5, Zenon
<1>10. ASSUME NEW i \in 1 .. Len(wire')
       PROVE  RecordPlaced(wire'[i], g[i - 1], g[i], sent', own', peer')
  <2>1. /\ i \in 1 .. n - 1 /\ i + 1 \in 1 .. n /\ i \in 0 .. n - 1 /\ i - 1 \in 0 .. n - 1
        /\ (i - 1) + 1 = i /\ (i + 1) - 1 = i
    BY <1>2
  <2>2. RecordPlaced(wire[i + 1], left[(i + 1) - 1], left[i + 1], sent, own, peer)
    BY <1>3, <2>1, Zenon DEF Placement
  <2>3. g[i - 1] = left[i] /\ g[i] = left[i + 1] /\ wire'[i] = wire[i + 1]
    BY <1>2, <1>6, <2>1, Zenon
  <2> QED BY <1>1, <2>1, <2>2, <2>3, Zenon
<1>11. ASSUME pc' = "plain", Len(sent') # 0 PROVE g[0] >= Remaining(sent', 1)
  BY <1>1, <1>4, <1>5, <1>6, <1>7, <1>11, Zenon
<1>12. Placement(g)'
  BY <1>8, <1>9, <1>10, <1>11, Zenon DEF Placement
<1>13. g \in [0 .. Len(wire') -> Nat]
  BY <1>2, Zenon
<1> QED BY <1>1, <1>5, <1>12, <1>13, Zenon DEF Accepted

\* As many bytes are to come as BalanceInv says.
BytesBalance ==
  /\ Len(buf) \in Nat /\ Len(Coming) \in Nat
  /\ Len(buf) + Len(Coming) = Remaining(sent, Len(rcvd))

LEMMA Balanced == IInv /\ pc # "failed" => BytesBalance
<1> SUFFICES ASSUME IInv, pc # "failed" PROVE BytesBalance
  BY Zenon
<1>1. buf \in Seq(Byte) /\ Coming \in Seq(Byte)
  BY ComingType, Zenon DEF IInv
<1>2. Len(buf \o Coming) = Len(buf) + Len(Coming) /\ Len(buf) \in Nat /\ Len(Coming) \in Nat
  BY <1>1, Concat, Zenon
<1>3. Len(rcvd) \in 0 .. Len(sent)
  <2>1. sent \in Seq(Msg) /\ rcvd \in Seq(Msg) /\ Len(rcvd) <= Len(sent)
    BY Zenon DEF IInv, TypeOK, ReceivedInv
  <2> QED BY <2>1, LenProperties
<1>4. buf \o Coming = Flatten(Encodings(sent, Len(rcvd)))
  BY <1>3, WrittenAfterType, Zenon DEF IInv, BalanceInv
<1> QED BY <1>2, <1>4, Zenon DEF BytesBalance, Remaining

\* A step that only moves bytes out of the buffer, and goes on, leaves the rest in place.
LEMMA ReturnAccepted ==
  ASSUME IInv, IInv', Accepted, pc' \notin {"failed", "plain"}, Len(rcvd') >= 1,
         UNCHANGED <<own, sent, out, wire, peer>>
  PROVE  Accepted'
<1>1. PICK left \in [0 .. Len(wire) -> Nat] : Placement(left)
  BY Zenon DEF Accepted
<1>2. BytesBalance
  BY Balanced, Zenon DEF Accepted
<1>3. (IInv /\ pc # "failed" => BytesBalance)'
  BY Balanced, PTL
<1>4. Coming' = Coming
  BY Zenon DEF Coming
<1>5. /\ Len(buf') \in Nat /\ Len(Coming) \in Nat
      /\ Len(buf') + Len(Coming) = Remaining(sent', Len(rcvd'))
  BY <1>3, <1>4, Zenon DEF BytesBalance
<1>6. left[0] = Len(Coming)
  <2>1. Len(buf) + left[0] = Remaining(sent, Len(rcvd))
    BY <1>1, Zenon DEF Placement
  <2>2. left[0] \in Nat
    <3>1. wire \in Seq(Records)
      BY Zenon DEF IInv, TypeOK
    <3>2. 0 \in 0 .. Len(wire)
      BY <3>1, LenProperties
    <3> QED BY <3>2, Zenon
  <2> QED BY <1>2, <2>1, <2>2 DEF BytesBalance
<1>7. Placement(left)'
  BY <1>1, <1>5, <1>6, Zenon DEF Placement
<1> QED BY <1>7, Zenon DEF Accepted

\* The hello is all that the plaintext reader has got when it has got all of it.
LEMMA ReturnHelloAccepted ==
  ASSUME IInv, IInv', Accepted, ReturnHello
  PROVE  Accepted'
<1>1. pc = "plain" /\ Complete /\ UNCHANGED <<own, sent, out, wire, peer>>
  BY Zenon DEF ReturnHello
<1>2. Len(rcvd) = 0 /\ rcvd \in Seq(Msg) /\ sent \in Seq(Msg)
  BY <1>1, Zenon DEF IInv, CountInv, TypeOK
<1>3. Len(rcvd) < Len(sent) /\ Message = sent[Len(rcvd) + 1]
  BY <1>1, NextMessage, Zenon
<1>4. ~(Len(buf) > TotalLen)
  <2>1. PICK left \in [0 .. Len(wire) -> Nat] : Placement(left)
    BY Zenon DEF Accepted
  <2> DEFINE l == Len(encodeHandshakeMsg(sent[Len(rcvd) + 1]))
  <2>2. TotalLen = l
    BY <1>1, <1>3, NextLength, Zenon DEF Complete
  <2>3. Len(sent) \in Nat /\ 0 \in 0 .. Len(sent) /\ 0 < Len(sent) /\ 1 \in 0 .. Len(sent)
    BY <1>2, <1>3, LenProperties
  <2>4. l \in Nat /\ Remaining(sent, 0) = l + Remaining(sent, 1) /\ Remaining(sent, 1) \in Nat
    BY <1>2, <2>3, 0 + 1 = 1, RemainingNext, Zenon
  <2>5. Len(buf) + left[0] = Remaining(sent, 0) /\ left[0] >= Remaining(sent, 1)
    <3>1. Len(sent) # 0
      BY <2>3
    <3> QED BY <1>1, <1>2, <2>1, <3>1, Zenon DEF Placement
  <2>6. Len(buf) \in Nat /\ left[0] \in Nat
    <3>1. wire \in Seq(Records) /\ buf \in Seq(Byte)
      BY Zenon DEF IInv, TypeOK, Byte
    <3>2. 0 \in 0 .. Len(wire)
      BY <3>1, LenProperties
    <3> QED BY <3>1, <3>2, LenProperties, Zenon
  <2> HIDE DEF l
  <2> QED BY <2>2, <2>4, <2>5, <2>6
<1>5. rcvd' = Append(rcvd, Message) /\ pc' = "encrypted"
  BY <1>4, Zenon DEF ReturnHello
<1>6. Len(rcvd') >= 1
  <2>1. Message \in Msg
    <3>1. Len(rcvd) + 1 \in 1 .. Len(sent)
      BY <1>2, <1>3, LenProperties
    <3> QED BY <1>2, <1>3, <3>1, ElementOfSeq, Zenon
  <2>2. Len(rcvd') = Len(rcvd) + 1
    BY <1>2, <1>5, <2>1, AppendProperties, Zenon
  <2> QED BY <1>2, <2>2
<1>7. pc' \notin {"failed", "plain"}
  BY <1>5, Zenon
<1> QED BY <1>1, <1>6, <1>7, ReturnAccepted, Zenon

\* An encrypted message is returned.
LEMMA ReturnMsgAccepted ==
  ASSUME IInv, IInv', Accepted, ReturnMsg
  PROVE  Accepted'
<1>1. /\ pc = "encrypted" /\ Complete /\ UNCHANGED <<own, sent, out, wire, peer>>
      /\ rcvd' = Append(rcvd, Message) /\ pc' \in {"check", "encrypted"}
  BY Zenon DEF ReturnMsg
<1>2. Len(rcvd') >= 1
  <2>1. rcvd \in Seq(Msg) /\ rcvd' \in Seq(Msg) /\ rcvd' # << >>
    <3>1. rcvd \in Seq(Msg) /\ rcvd' \in Seq(Msg)
      BY Zenon DEF IInv, TypeOK
    <3>2. Len(rcvd) < Len(sent) /\ Message = sent[Len(rcvd) + 1] /\ sent \in Seq(Msg)
      BY <1>1, NextMessage, Zenon DEF IInv, TypeOK
    <3>3. Len(rcvd) + 1 \in 1 .. Len(sent)
      BY <3>1, <3>2, LenProperties
    <3>4. Message \in Msg
      BY <3>2, <3>3, ElementOfSeq, Zenon
    <3>5. Append(rcvd, Message) # << >>
      BY <3>1, <3>4, AppendProperties, Zenon
    <3> QED BY <1>1, <3>1, <3>5, Zenon
  <2>2. Len(rcvd') \in Nat /\ Len(rcvd') # 0
    BY <2>1, EmptySeq, LenProperties, Zenon
  <2> QED BY <2>2
<1>3. pc' \notin {"failed", "plain"}
  BY <1>1, Zenon
<1> QED BY <1>1, <1>2, <1>3, ReturnAccepted, Zenon

\* Nothing follows Finished.
LEMMA FinishAccepted ==
  ASSUME IInv, IInv', Going, Accepted, Finish
  PROVE  Accepted'
<1>1. /\ pc = "check" /\ pc' = (IF HasRemaining THEN "failed" ELSE "done")
      /\ UNCHANGED <<own, sent, out, wire, peer, buf, rcvd>>
  BY Zenon DEF Finish
<1>2. buf = << >>
  <2>1. /\ Len(rcvd) = K + 1 /\ Len(sent) <= K + 1 /\ Len(rcvd) <= Len(sent)
        /\ sent \in Seq(Msg) /\ buf \in Seq(Byte)
    BY <1>1, Zenon DEF IInv, CountInv, ReceivedInv, TypeOK, Going, Byte
  <2>2. Len(rcvd) = Len(sent)
    BY <2>1, LenProperties, ReaderAssumption
  <2>3. Remaining(sent, Len(rcvd)) = 0
    BY <2>1, <2>2, RemainingNext, Zenon
  <2>4. BytesBalance
    BY Balanced, Zenon DEF Accepted
  <2>5. Len(buf) = 0
    BY <2>3, <2>4 DEF BytesBalance
  <2> QED BY <2>1, <2>5, EmptySeq, Zenon
<1>3. pc' = "done"
  BY <1>1, <1>2, Zenon DEF HasRemaining
<1>4. pc' \notin {"failed", "plain"} /\ Len(rcvd') >= 1
  BY <1>1, <1>3, Zenon DEF Accepted
<1> QED BY <1>1, <1>4, ReturnAccepted, Zenon

\* No header announces too much.
LEMMA NotTooLong ==
  ASSUME IInv, Going, Accepted
  PROVE  ~ReadTooLong
<1> SUFFICES ASSUME ReadTooLong PROVE FALSE
  BY Zenon
<1>1. HasHeader /\ TotalLen > maxHandshakeBufferSize /\ pc # "failed"
  BY Zenon DEF ReadTooLong, Announced, Accepted
<1>2. BytesBalance /\ sent \in Seq(Msg) /\ rcvd \in Seq(Msg) /\ Len(rcvd) <= Len(sent)
  BY <1>1, Balanced, Zenon DEF IInv, TypeOK, ReceivedInv
<1>3. Len(rcvd) < Len(sent)
  <2> SUFFICES ASSUME Len(rcvd) = Len(sent) PROVE FALSE
    BY <1>2, LenProperties
  <2>1. Remaining(sent, Len(rcvd)) = 0
    BY <1>2, RemainingNext, Zenon
  <2> QED BY <1>1, <1>2, <2>1 DEF BytesBalance, HasHeader, HandshakeHeaderLen
<1> DEFINE k == Len(rcvd)
           l == Len(encodeHandshakeMsg(sent[k + 1]))
<1>4. TotalLen = l
  BY <1>1, <1>3, NextLength, Zenon
<1>5. k \in 0 .. Len(sent) /\ k + 1 \in 1 .. Len(sent)
  BY <1>2, <1>3, LenProperties
<1>6. l \in Nat
  BY <1>2, <1>3, <1>5, RemainingNext, Zenon
<1>7. l + (IF own THEN 0 ELSE MaxPlaintextLength - 1) <= maxHandshakeBufferSize
  BY <1>5, Zenon DEF Going, Fits
<1> HIDE DEF l
<1> QED BY <1>1, <1>4, <1>6, <1>7, ReaderAssumption

\* The peer does not come back to going on.
LEMMA StillGoing ==
  ASSUME TypeOK, [Next]_vars, Going'
  PROVE  Going
<1>1. own' = own /\ (peer \in {"stopped", "mixed"} => peer' \in {"stopped", "mixed"})
  BY Zenon DEF Next, Writer, Reader, WriteMsg, WriteRecord, WriteAppData, PackBehindHello,
               WriteAlert, Cut, ReadTooLong, ReadRecord, ReadEOF, ReturnHello, ReturnMsg,
               Finish, vars
<1>2. \/ sent' = sent
      \/ \E m \in Msg : sent' = Append(sent, m)
  <2>1. CASE WriteMsg
    <3>1. PICK b \in Body :
            sent' = Append(sent, [type |-> IF Len(sent) + 1 = 1 THEN Hello ELSE Encrypted,
                                  body |-> b])
      BY <2>1, Zenon DEF WriteMsg
    <3>2. [type |-> IF Len(sent) + 1 = 1 THEN Hello ELSE Encrypted, body |-> b] \in Msg
      BY Zenon DEF Msg
    <3> QED BY <3>1, <3>2, Zenon
  <2>2. CASE PackBehindHello
    BY <2>2, Zenon DEF PackBehindHello, Msg
  <2>3. CASE ~(WriteMsg \/ PackBehindHello)
    BY <2>3, Zenon DEF Next, Writer, Reader, WriteRecord, WriteAppData, WriteAlert, Cut,
                       ReadTooLong, ReadRecord, ReadEOF, ReturnHello, ReturnMsg, Finish, vars
  <2> QED BY <2>1, <2>2, <2>3, Zenon
<1>3. /\ Len(sent) \in Nat /\ Len(sent') \in Nat /\ Len(sent) <= Len(sent')
      /\ \A i \in 1 .. Len(sent) : sent'[i] = sent[i]
  <2>1. sent \in Seq(Msg) /\ Len(sent) \in Nat
    BY LenProperties, Zenon DEF TypeOK
  <2>2. CASE sent' = sent
    BY <2>1, <2>2
  <2>3. ASSUME NEW m \in Msg, sent' = Append(sent, m)
        PROVE  /\ Len(sent') \in Nat /\ Len(sent) <= Len(sent')
               /\ \A i \in 1 .. Len(sent) : sent'[i] = sent[i]
    BY <2>1, <2>3, AppendProperties
  <2> QED BY <1>2, <2>1, <2>2, <2>3, Zenon
<1>4. ASSUME NEW i \in 1 .. Len(sent) PROVE Fits(sent[i])
  <2>1. i \in 1 .. Len(sent')
    BY <1>3
  <2>2. Fits(sent[i])'
    BY <2>1, Zenon DEF Going
  <2> QED BY <1>1, <1>3, <2>2, Zenon DEF Fits
<1>5. Len(sent) <= K + 1
  BY <1>3, ReaderAssumption DEF Going
<1> QED BY <1>1, <1>4, <1>5, Zenon DEF Going

\* Nothing is refused at first.
LEMMA InitAccepted == Init => AcceptedInv
<1> SUFFICES ASSUME Init PROVE Accepted
  BY Zenon DEF AcceptedInv
<1>1. /\ sent = << >> /\ out = << >> /\ wire = << >> /\ buf = << >> /\ rcvd = << >>
      /\ pc = "plain" /\ << >> \in Seq(Msg) /\ Len(<< >>) = 0
  BY EmptySeq, Zenon DEF Init
<1>2. PICK left \in [0 .. 0 -> Nat] : left[0] = 0
  <2> DEFINE f == [i \in 0 .. 0 |-> 0]
  <2>1. f \in [0 .. 0 -> Nat] /\ f[0] = 0
    OBVIOUS
  <2> QED BY <2>1, Zenon
<1>3. Remaining(<< >>, 0) = 0
  BY <1>1, RemainingNext, Zenon
<1>4. 1 .. 0 = {} /\ 0 + 0 = 0
  OBVIOUS
<1>5. Placement(left)
  BY <1>1, <1>2, <1>3, <1>4, Zenon DEF Placement
<1>6. OutPlaced(out, sent, own)
  BY <1>1, Zenon DEF OutPlaced
<1> QED BY <1>1, <1>5, <1>6, Zenon DEF Accepted

\* Every step keeps it so.
LEMMA NextAccepted == IInv /\ IInv' /\ AcceptedInv /\ [Next]_vars => AcceptedInv'
<1> SUFFICES ASSUME IInv, IInv', AcceptedInv, [Next]_vars, Going' PROVE Accepted'
  BY Zenon DEF AcceptedInv
<1>1. Going /\ Accepted
  <2>1. TypeOK
    BY Zenon DEF IInv
  <2> QED BY <2>1, StillGoing, Zenon DEF AcceptedInv
<1>2. CASE WriteMsg \/ WriteRecord \/ WriteAppData
  BY <1>1, <1>2, WriteMsgAccepted, WriteRecordAccepted, WriteAppDataAccepted, Zenon
<1>3. ~(PackBehindHello \/ WriteAlert \/ Cut)
  BY Zenon DEF PackBehindHello, WriteAlert, Cut, Going
<1>4. ~(ReadTooLong \/ ReadEOF)
  BY <1>1, NotTooLong, Zenon DEF ReadEOF, Going
<1>5. CASE ReadRecord \/ ReturnHello \/ ReturnMsg \/ Finish
  BY <1>1, <1>5, ReadRecordAccepted, ReturnHelloAccepted, ReturnMsgAccepted,
     FinishAccepted, Zenon
<1>6. CASE UNCHANGED vars
  <2>1. UNCHANGED <<own, sent, out, wire, peer, pc, buf, rcvd>>
    BY <1>6, Zenon DEF vars
  <2>2. PICK left \in [0 .. Len(wire) -> Nat] : Placement(left)
    BY <1>1, Zenon DEF Accepted
  <2>3. Placement(left)'
    BY <2>1, <2>2, Zenon DEF Placement
  <2> QED BY <1>1, <2>1, <2>3, Zenon DEF Accepted
<1> QED BY <1>2, <1>3, <1>4, <1>5, <1>6, Zenon DEF Next, Writer, Reader

-----------------------------------------------------------------------------
(* Theorems *)

\* The buffer of either reader is bounded, and everything has its type, for every record
\* and buffer size.
THEOREM TypeCorrect == Spec => []TypeOK
<1>1. IInv => TypeOK
  BY Zenon DEF IInv
<1> QED BY <1>1, Invariant, PTL

\* A completed handshake has taken its own messages and left the rest: the bytes still to
\* be read are exactly the encoding of what was written after Finished.
THEOREM HandoffIsClean == Spec => []HandoffClean
<1>1. IInv => HandoffClean
  <2> SUFFICES ASSUME IInv, pc = "done"
               PROVE  Len(rcvd) = K + 1 /\ buf = << >> /\ Coming = WrittenAfter(K + 1)
    BY Zenon DEF HandoffClean
  <2>1. Len(rcvd) = K + 1 /\ buf = << >> /\ pc # "failed"
    BY Zenon DEF IInv, CountInv
  <2>2. buf \o Coming = WrittenAfter(Len(rcvd))
    BY <2>1, Zenon DEF IInv, BalanceInv
  <2>3. Coming \in Seq(Byte)
    BY ComingType, Zenon DEF IInv
  <2>4. << >> \o Coming = Coming
    BY <2>3, ConcatEmptySeq, Zenon
  <2> QED BY <2>1, <2>2, <2>4, Zenon
<1> QED BY <1>1, Invariant, PTL

\* The reader implements a channel of messages: every step that returns one returns the
\* next one the peer wrote, whole, whatever records it came in.
THEOREM MessagesInOrder == Spec => ImplementsMessages
<1>1. Init => Messages!Init
  BY Zenon DEF Init, Messages!Init
<1>2. IInv /\ [Next]_vars => [Messages!Next]_<<sent, rcvd>>
  <2> SUFFICES ASSUME IInv, [Next]_vars, ~UNCHANGED <<sent, rcvd>> PROVE Messages!Next
    BY Zenon
  <2>1. CASE WriteMsg
    <3>1. PICK b \in Body :
            sent' = Append(sent, [type |-> IF Len(sent) + 1 = 1 THEN Hello ELSE Encrypted,
                                  body |-> b])
      BY <2>1, Zenon DEF WriteMsg
    <3>2. [type |-> IF Len(sent) + 1 = 1 THEN Hello ELSE Encrypted, body |-> b] \in Msg
      BY Zenon DEF Msg
    <3>3. UNCHANGED rcvd
      BY <2>1, Zenon DEF WriteMsg
    <3> QED BY <3>1, <3>2, <3>3, Zenon DEF Messages!Next, Messages!Send
  <2>2. CASE PackBehindHello
    <3>1. PICK b \in Body : sent' = Append(sent, [type |-> Encrypted, body |-> b])
      BY <2>2, Zenon DEF PackBehindHello
    <3>2. [type |-> Encrypted, body |-> b] \in Msg /\ UNCHANGED rcvd
      BY <2>2, Zenon DEF Msg, PackBehindHello
    <3> QED BY <3>1, <3>2, Zenon DEF Messages!Next, Messages!Send
  <2>3. ASSUME pc # "failed", Complete, rcvd' = Append(rcvd, Message), UNCHANGED sent
        PROVE  Messages!Next
    <3>1. Len(rcvd) < Len(sent) /\ Message = sent[Len(rcvd) + 1]
      BY <2>3, NextMessage, Zenon
    <3> QED BY <2>3, <3>1, Zenon DEF Messages!Next, Messages!Receive
  <2>4. CASE ReturnHello
    <3>1. /\ pc = "plain" /\ Complete /\ UNCHANGED sent
          /\ rcvd' = Append(rcvd, Message) \/ UNCHANGED rcvd
      BY <2>4, Zenon DEF ReturnHello, Fail
    <3>2. pc # "failed"
      BY <3>1, Zenon
    <3> QED BY <2>3, <3>1, <3>2, Zenon
  <2>5. CASE ReturnMsg
    <3>1. pc = "encrypted" /\ Complete /\ UNCHANGED sent /\ rcvd' = Append(rcvd, Message)
      BY <2>5, Zenon DEF ReturnMsg
    <3>2. pc # "failed"
      BY <3>1, Zenon
    <3> QED BY <2>3, <3>1, <3>2, Zenon
  <2>6. ~(WriteRecord \/ WriteAppData \/ WriteAlert \/ Cut)
    BY Zenon DEF WriteRecord, WriteAppData, WriteAlert, Cut
  <2>7. ~(ReadTooLong \/ ReadRecord \/ ReadEOF \/ Finish \/ UNCHANGED vars)
    BY Zenon DEF ReadTooLong, ReadRecord, ReadEOF, Finish, Fail, vars
  <2> QED BY <2>1, <2>2, <2>4, <2>5, <2>6, <2>7, Zenon DEF Next, Writer, Reader
<1> QED BY <1>1, <1>2, Invariant, PTL DEF Spec, ImplementsMessages, Messages!Spec

\* A peer whose messages fit is not refused: the reader fails only if the peer stopped,
\* packed a message behind its hello, went on after Finished, or sent a message the buffer cannot hold with what may be packed
\* behind it.  This is the safety half of FittingDelivered.
NeverRefused ==
  pc = "failed" => \/ peer \in {"stopped", "mixed"}
                   \/ Len(sent) > K + 1
                   \/ \E i \in 1 .. Len(sent) : ~Fits(sent[i])

\* RecordOK, the length check of ReadMsg and HasRemaining refuse no peer that keeps to the
\* protocol, however it uses records.
THEOREM FittingNeverRefused == Spec => []NeverRefused
<1>1. TypeOK /\ AcceptedInv => NeverRefused
  <2> SUFFICES ASSUME TypeOK, AcceptedInv, pc = "failed", peer \notin {"stopped", "mixed"},
                      ~(Len(sent) > K + 1), \A i \in 1 .. Len(sent) : Fits(sent[i])
               PROVE  FALSE
    BY Zenon DEF NeverRefused
  <2>1. Len(sent) <= K + 1
    <3>1. sent \in Seq(Msg)
      BY Zenon DEF TypeOK
    <3> QED BY <3>1, LenProperties, ReaderAssumption
  <2> QED BY <2>1, Zenon DEF AcceptedInv, Accepted, Going
<1>2. IInv => TypeOK
  BY Zenon DEF IInv
<1> QED BY <1>1, <1>2, Invariant, InitAccepted, NextAccepted, PTL DEF Spec
=============================================================================
