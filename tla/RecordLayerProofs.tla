------------------------- MODULE RecordLayerProofs -------------------------
(***************************************************************************)
(* NonceUnique, InOrderDelivery and ImplementsChannel of RecordLayer, for  *)
(* every number of goroutines, width of the sequence number, base IV, set  *)
(* of plaintexts and size limit.                                           *)
(***************************************************************************)
EXTENDS RecordLayer, SequenceTheorems, FiniteSetTheorems, WellFoundedInduction, TLAPS

\* A goroutine past Lock holds the mutex of its cipher; the two kinds of call keep
\* to their own labels.
LockInv ==
  /\ \A g \in Sealer :
       /\ pc[g] \in {"idle", "sealing", "seal locked", "seal nonce"}
       /\ pc[g] \in {"seal locked", "seal nonce"} => outMu = g
  /\ \A g \in Opener :
       /\ pc[g] \in {"idle", "unsealing", "unseal locked", "unseal opened"}
       /\ pc[g] \in {"unseal locked", "unseal opened"} => inMu = g

\* The i-th record carries the i-th request under the nonce of i - 1.
FrameOf(r, x) == \E n \in Nat : r.inner = InnerPlaintext(x.type, x.data, n)

SealedInv ==
  /\ outSeq = Len(sent) /\ Len(sealed) = Len(sent)
  /\ \A i \in 1 .. Len(sealed) :
       sealed[i].nonce = deriveNonce(i - 1) /\ FrameOf(sealed[i], sent[i])

\* What a sealer past the argument checks has in hand.
SealerInv ==
  \A g \in Sealer :
    /\ pc[g] # "idle" => sealArg[g].type \in SealType /\ sealArg[g].data \in Plaintext
    /\ pc[g] \in {"seal locked", "seal nonce"} => sealArg[g].padding >= 0
    /\ pc[g] = "seal nonce" => outSeq # SeqMax /\ nonce[g] = deriveNonce(outSeq)

\* An opener's record was sealed, and past Open it is the one inSeq asks for.
OpenerInv ==
  \A g \in Opener :
    /\ pc[g] # "idle" => \E i \in 1 .. Len(sealed) :
                           /\ openArg[g].nonce = sealed[i].nonce
                           /\ openArg[g].inner = sealed[i].inner
    /\ pc[g] = "unseal opened" =>
         inSeq # SeqMax /\ openArg[g].nonce = deriveNonce(inSeq)

OpenedInv == inSeq = Len(opened) /\ InOrderDelivery

IInv == TypeOK /\ LockInv /\ SealedInv /\ SealerInv /\ OpenerInv /\ OpenedInv

-----------------------------------------------------------------------------
(* Sequence numbers and nonces *)

\* A set that holds 0 and is closed under successor holds every number.
LEMMA SetInduction ==
  ASSUME NEW P \in SUBSET Nat, 0 \in P, \A n \in P : n + 1 \in P
  PROVE  P = Nat
<1> SUFFICES ASSUME P # Nat PROVE FALSE
  BY Zenon
<1>1. IsWellFoundedOn(OpToRel(<, Nat), Nat)
  BY NatLessThanWellFounded, Zenon
<1>2. PICK x \in Nat \ P : \A y \in Nat \ P : ~(<<y, x>> \in OpToRel(<, Nat))
  BY <1>1, WFMin, Zenon
<1>3. x # 0 /\ x - 1 \in Nat /\ x - 1 < x /\ (x - 1) + 1 = x
  OBVIOUS
<1>4. x - 1 \in P
  BY <1>2, <1>3, Zenon DEF OpToRel
<1> QED BY <1>3, <1>4, Zenon

\* Two to the power of n is the number of subsets of 1 .. n, which is what the library
\* knows about powers.
LEMMA Subsets ==
  ASSUME NEW n \in Nat
  PROVE  IsFiniteSet(SUBSET (1 .. n)) /\ Cardinality(SUBSET (1 .. n)) = 2^n
<1>1. IsFiniteSet(1 .. n) /\ Cardinality(1 .. n) = n
  BY FS_Interval
<1> QED BY <1>1, FS_SUBSET, Zenon

\* The powers of two, one after the other ...
LEMMA PowerZero == 2^0 = 1
<1>1. SUBSET (1 .. 0) = {{}}
  OBVIOUS
<1>2. Cardinality({{}}) = 1
  BY FS_Singleton, Zenon
<1>3. Cardinality(SUBSET (1 .. 0)) = 2^0
  BY Subsets, 0 \in Nat, Zenon
<1> QED BY <1>1, <1>2, <1>3, Zenon

\* The subsets of 1 .. n + 1 are those of 1 .. n, without n + 1 and with it.
LEMMA PowerNext ==
  ASSUME NEW n \in Nat
  PROVE  2^n \in Nat /\ 2^(n + 1) = 2 * 2^n
<1> DEFINE A == SUBSET (1 .. n)
           B == {x \cup {n + 1} : x \in A}
           h == [x \in A |-> x \cup {n + 1}]
<1>1. IsFiniteSet(A) /\ Cardinality(A) = 2^n /\ Cardinality(SUBSET (1 .. n + 1)) = 2^(n + 1)
  BY Subsets, n + 1 \in Nat, Zenon
<1>2. Cardinality(A) \in Nat
  BY <1>1, FS_CardinalityType, Zenon
<1>3. \A x \in A : n + 1 \notin x
  OBVIOUS
<1>4. h \in Bijection(A, B)
  <2>1. h \in [A -> B] /\ \A y \in B : \E x \in A : h[x] = y
    BY Zenon
  <2>2. ASSUME NEW x \in A, NEW y \in A, h[x] = h[y] PROVE x = y
    <3>1. x \cup {n + 1} = y \cup {n + 1}
      BY <2>2, Zenon
    <3> QED BY <3>1, <1>3
  <2>3. DOMAIN h = A
    BY Zenon
  <2> HIDE DEF A, B, h
  <2>4. h \in Injection(A, B)
    BY <2>1, <2>2, <2>3, Zenon DEF Injection, IsInjective
  <2>5. h \in Surjection(A, B)
    BY <2>1, Zenon DEF Surjection
  <2> QED BY <2>4, <2>5, Zenon DEF Bijection
<1>5. IsFiniteSet(B) /\ Cardinality(B) = 2^n
  <2> HIDE DEF A, B, h
  <2>1. ExistsBijection(A, B)
    BY <1>4, Zenon DEF ExistsBijection
  <2> QED BY <1>1, <2>1, FS_Bijection, Zenon
<1>6. A \cap B = {}
  BY <1>3
<1>7. A \cup B = SUBSET (1 .. n + 1)
  <2>1. 1 .. n + 1 = (1 .. n) \cup {n + 1}
    OBVIOUS
  <2>2. ASSUME NEW y \in SUBSET (1 .. n + 1) PROVE y \in A \cup B
    <3>1. CASE n + 1 \in y
      <4>1. y \ {n + 1} \in A /\ y = (y \ {n + 1}) \cup {n + 1}
        BY <2>1, <3>1
      <4> QED BY <4>1, Zenon
    <3>2. CASE n + 1 \notin y
      BY <2>1, <3>2
    <3> QED BY <3>1, <3>2
  <2>3. ASSUME NEW y \in A \cup B PROVE y \in SUBSET (1 .. n + 1)
    BY <2>1
  <2> QED BY <2>2, <2>3, Zenon
<1> HIDE DEF A, B
<1>8. Cardinality(A \cup B) = Cardinality(A) + Cardinality(B) - Cardinality(A \cap B)
  BY <1>1, <1>5, FS_Union, Zenon
<1>9. Cardinality({}) = 0
  BY FS_EmptySet, Zenon
<1>10. 2^(n + 1) = 2^n + 2^n - 0
  BY <1>1, <1>5, <1>6, <1>7, <1>8, <1>9, Zenon DEF A
<1> DEFINE p == 2^n
<1>11. p \in Nat /\ 2^(n + 1) = p + p - 0
  BY <1>1, <1>2, <1>10, Zenon
<1> HIDE DEF p
<1>12. 2^(n + 1) = 2 * p
  BY <1>11
<1> QED BY <1>11, <1>12 DEF p

\* ... none of them zero.
LEMMA PowerPositive == \A n \in Nat : 2^n \in Nat \ {0}
<1> DEFINE P == {n \in Nat : 2^n \in Nat \ {0}}
<1>1. 0 \in P
  BY PowerZero
<1>2. ASSUME NEW n \in P PROVE n + 1 \in P
  <2>1. n \in Nat /\ 2^n \in Nat \ {0}
    BY Zenon
  <2>2. 2^(n + 1) = 2 * 2^n
    BY <2>1, PowerNext, Zenon
  <2> DEFINE p == 2^n
             q == 2^(n + 1)
  <2>3. p \in Nat \ {0} /\ q = 2 * p
    BY <2>1, <2>2, Zenon
  <2> HIDE DEF p, q
  <2>4. q \in Nat \ {0}
    BY <2>3
  <2>5. n + 1 \in Nat
    BY <2>1
  <2> QED BY <2>4, <2>5, Zenon DEF q
<1> HIDE DEF P
<1>3. P = Nat
  <2>1. P \in SUBSET Nat
    BY Zenon DEF P
  <2> QED BY <1>1, <1>2, <2>1, SetInduction, Zenon
<1> QED BY <1>3, Zenon DEF P

\* Halving and then dividing is dividing by the double.
LEMMA HalveAndDivide ==
  ASSUME NEW s \in Nat, NEW m \in Nat \ {0}
  PROVE  (s \div 2) \div m = s \div (2 * m)
OBVIOUS

\* Two numbers agree on their low n bits.
SameBits(s, t, n) ==
  \A i \in 0 .. n - 1 : ((s \div 2^i) % 2 = 1) <=> ((t \div 2^i) % 2 = 1)

\* Then their halves agree on all of those but the lowest, which the numbers share.
LEMMA SameHalf ==
  ASSUME NEW s \in Nat, NEW t \in Nat, NEW n \in Nat, SameBits(s, t, n + 1)
  PROVE  SameBits(s \div 2, t \div 2, n) /\ (s % 2 = 1 <=> t % 2 = 1)
<1>1. ASSUME NEW i \in 0 .. n - 1
      PROVE  (((s \div 2) \div 2^i) % 2 = 1) <=> (((t \div 2) \div 2^i) % 2 = 1)
  <2>1. i \in Nat /\ i + 1 \in 0 .. (n + 1) - 1
    OBVIOUS
  <2>2. 2^i \in Nat \ {0} /\ 2^(i + 1) = 2 * 2^i
    BY <2>1, PowerPositive, PowerNext, Zenon
  <2>3. /\ (s \div 2) \div 2^i = s \div 2^(i + 1)
        /\ (t \div 2) \div 2^i = t \div 2^(i + 1)
    BY <2>2, HalveAndDivide, Zenon
  <2> QED BY <2>1, <2>3, Zenon DEF SameBits
<1>2. s % 2 = 1 <=> t % 2 = 1
  <2>1. 0 \in 0 .. (n + 1) - 1
    OBVIOUS
  <2>2. ((s \div 2^0) % 2 = 1) <=> ((t \div 2^0) % 2 = 1)
    BY <2>1, Zenon DEF SameBits
  <2>3. ((s \div 1) % 2 = 1) <=> ((t \div 1) % 2 = 1)
    BY <2>2, PowerZero, Zenon
  <2>4. s \div 1 = s /\ t \div 1 = t
    OBVIOUS
  <2> QED BY <2>3, <2>4, Zenon
<1> QED BY <1>1, <1>2, Zenon DEF SameBits

\* Numbers of n bits with the same bits are the same.
LEMMA BitsDetermine ==
  \A n \in Nat : \A s, t \in Nat : s < 2^n /\ t < 2^n /\ SameBits(s, t, n) => s = t
<1> DEFINE P == {n \in Nat : \A s, t \in Nat :
                   s < 2^n /\ t < 2^n /\ SameBits(s, t, n) => s = t}
<1>1. 0 \in P
  <2>1. \A s, t \in Nat : s < 1 /\ t < 1 => s = t
    OBVIOUS
  <2> QED BY <2>1, PowerZero
<1>2. ASSUME NEW n \in P PROVE n + 1 \in P
  <2>1. n \in Nat /\ n + 1 \in Nat
    OBVIOUS
  <2>2. ASSUME NEW s \in Nat, NEW t \in Nat,
               s < 2^(n + 1), t < 2^(n + 1), SameBits(s, t, n + 1)
        PROVE  s = t
    <3>1. SameBits(s \div 2, t \div 2, n) /\ (s % 2 = 1 <=> t % 2 = 1)
      BY <2>1, <2>2, SameHalf, Zenon
    <3>2. 2^n \in Nat /\ 2^(n + 1) = 2 * 2^n
      BY <2>1, PowerNext, Zenon
    <3> DEFINE p == 2^n
    <3>3. p \in Nat /\ s < 2 * p /\ t < 2 * p
      BY <2>2, <3>2, Zenon
    <3> HIDE DEF p
    <3>4. s \div 2 \in Nat /\ t \div 2 \in Nat /\ s \div 2 < p /\ t \div 2 < p
      BY <3>3
    <3>5. s \div 2 = t \div 2
      BY <3>1, <3>4, Zenon DEF p
    <3> QED BY <3>1, <3>5
  <2> QED BY <2>1, <2>2, Zenon
<1> HIDE DEF P
<1>3. P = Nat
  <2>1. P \in SUBSET Nat
    BY Zenon DEF P
  <2> QED BY <1>1, <1>2, <2>1, SetInduction, Zenon
<1> QED BY <1>3, Zenon DEF P

\* The counter has a largest value, above zero.
LEMMA SeqMaxType == SeqMax \in Nat \ {0}
<1>1. PICK n \in Nat : SeqBits = n + 1
  <2>1. SeqBits - 1 \in Nat /\ SeqBits = (SeqBits - 1) + 1
    BY SeqAssumption
  <2> QED BY <2>1, Zenon
<1>2. 2^n \in Nat \ {0} /\ 2^(n + 1) = 2 * 2^n
  BY PowerPositive, PowerNext, Zenon
<1> DEFINE p == 2^n
<1>3. p \in Nat \ {0} /\ SeqMax = 2 * p - 1
  BY <1>1, <1>2, Zenon DEF SeqMax
<1> HIDE DEF p
<1> QED BY <1>3

\* XOR with a fixed IV and binary notation lose nothing: whatever the base IV, two
\* sequence numbers never give one nonce.
THEOREM NonceInjective ==
  \A s, t \in 0 .. SeqMax : deriveNonce(s) = deriveNonce(t) => s = t
<1> SUFFICES ASSUME NEW s \in 0 .. SeqMax, NEW t \in 0 .. SeqMax,
                    deriveNonce(s) = deriveNonce(t)
             PROVE  s = t
  BY Zenon
<1>1. SameBits(s, t, SeqBits)
  <2> SUFFICES ASSUME NEW i \in 0 .. SeqBits - 1
               PROVE  ((s \div 2^i) % 2 = 1) <=> ((t \div 2^i) % 2 = 1)
    BY Zenon DEF SameBits
  <2>1. deriveNonce(s)[i] = deriveNonce(t)[i]
    BY Zenon
  <2>2. /\ deriveNonce(s)[i] = (BaseIV[i] # ((s \div 2^i) % 2 = 1))
        /\ deriveNonce(t)[i] = (BaseIV[i] # ((t \div 2^i) % 2 = 1))
    BY Zenon DEF deriveNonce
  <2>3. BaseIV[i] \in BOOLEAN
    BY SeqAssumption, Zenon
  <2> DEFINE x == (s \div 2^i) % 2 = 1
             y == (t \div 2^i) % 2 = 1
  <2>4. (BaseIV[i] # x) = (BaseIV[i] # y) /\ x \in BOOLEAN /\ y \in BOOLEAN
    BY <2>1, <2>2, Zenon
  <2> HIDE DEF x, y
  <2>5. x <=> y
    BY <2>3, <2>4
  <2> QED BY <2>5, Zenon DEF x, y
<1>2. 2^SeqBits \in Nat
  BY SeqAssumption, PowerPositive
<1> DEFINE p == 2^SeqBits
<1>3. p \in Nat /\ SeqMax = p - 1
  BY <1>2, Zenon DEF SeqMax
<1> HIDE DEF p
<1>4. s \in Nat /\ t \in Nat /\ s < p /\ t < p
  BY <1>3
<1>5. SeqBits \in Nat
  BY SeqAssumption
<1> QED BY <1>1, <1>4, <1>5, BitsDetermine, Zenon DEF p

-----------------------------------------------------------------------------
(* Framing *)

\* The nonce of a sequence number is a Nonce.
LEMMA NonceType == \A s \in 0 .. SeqMax : deriveNonce(s) \in Nonce
  BY DEF Nonce

\* The inner plaintext is the plaintext, the content type, then zeros.
LEMMA InnerShape ==
  ASSUME NEW t \in Byte, NEW p \in Seq(Byte), NEW n \in Nat
  PROVE  LET f == InnerPlaintext(t, p, n)
         IN  /\ f \in Seq(Byte)
             /\ Len(f) = Len(p) + 1 + n
             /\ \A i \in 1 .. Len(p) : f[i] = p[i]
             /\ f[Len(p) + 1] = t
             /\ \A i \in Len(p) + 2 .. Len(f) : f[i] = 0
<1> DEFINE z == [i \in 1 .. n |-> 0]
           q == p \o <<t>>
<1>1. z \in Seq(Byte) /\ Len(z) = n /\ \A i \in 1 .. n : z[i] = 0
  BY DEF Byte
<1>2. /\ q \in Seq(Byte) /\ Len(q) = Len(p) + 1
      /\ \A i \in 1 .. Len(p) : q[i] = p[i]
      /\ q[Len(p) + 1] = t
  OBVIOUS
<1>3. InnerPlaintext(t, p, n) = q \o z
  BY DEF InnerPlaintext
<1> HIDE DEF q, z
<1>4. q \o z \in Seq(Byte) /\ Len(q \o z) = Len(p) + 1 + n
  BY <1>1, <1>2
<1>5. /\ \A i \in 1 .. Len(p) : (q \o z)[i] = p[i]
      /\ (q \o z)[Len(p) + 1] = t
  BY <1>1, <1>2
<1>6. \A i \in Len(p) + 2 .. Len(q \o z) : (q \o z)[i] = 0
  BY <1>1, <1>2, <1>4
<1> QED BY <1>3, <1>4, <1>5, <1>6

\* Unseal's scan for the content type undoes Seal's framing: for every plaintext
\* (one that ends in zeros too), non-zero type and padding, the type and the
\* plaintext come back.
THEOREM FrameRoundTrip ==
  ASSUME NEW t \in Byte \ {0}, NEW p \in Seq(Byte), NEW n \in Nat
  PROVE  Content(InnerPlaintext(t, p, n)) = [type |-> t, data |-> p]
<1> DEFINE f == InnerPlaintext(t, p, n)
           At(k) == /\ \A i \in k + 1 .. Len(f) : f[i] = 0
                    /\ k > 0 => f[k] # 0
<1>1. /\ f \in Seq(Byte)
      /\ Len(f) = Len(p) + 1 + n
      /\ \A i \in 1 .. Len(p) : f[i] = p[i]
      /\ f[Len(p) + 1] = t
      /\ \A i \in Len(p) + 2 .. Len(f) : f[i] = 0
  BY InnerShape
<1> HIDE DEF f
<1>2. Len(p) + 1 \in 0 .. Len(f) /\ At(Len(p) + 1)
  BY <1>1
<1>3. \A k \in 0 .. Len(f) : At(k) => k = Len(p) + 1
  <2> SUFFICES ASSUME NEW k \in 0 .. Len(f), At(k), k # Len(p) + 1
               PROVE  FALSE
    OBVIOUS
  <2>1. CASE k < Len(p) + 1
    BY <1>1, <2>1
  <2>2. CASE k > Len(p) + 1
    BY <1>1, <2>2
  <2> QED BY <2>1, <2>2, <1>1
<1>4. ContentTypeIndex(f) = Len(p) + 1
  BY <1>2, <1>3 DEF ContentTypeIndex
<1>5. SubSeq(f, 1, Len(p)) = p
  <2>1. SubSeq(f, 1, Len(p)) \in Seq(Byte) /\ Len(SubSeq(f, 1, Len(p))) = Len(p)
    BY <1>1
  <2>2. \A i \in 1 .. Len(p) : SubSeq(f, 1, Len(p))[i] = p[i]
    BY <1>1
  <2> QED BY <2>1, <2>2, SeqEqual
<1>6. f[Len(p) + 1] = t /\ (Len(p) + 1) - 1 = Len(p)
  BY <1>1
<1>7. Content(f) = [type |-> t, data |-> p]
  BY <1>4, <1>5, <1>6 DEF Content
<1> QED BY <1>7, Zenon DEF f

-----------------------------------------------------------------------------
(* The inductive invariant *)

\* Two new RecordCiphers satisfy the invariant.
LEMMA InitIInv == Init => IInv
<1> SUFFICES ASSUME Init PROVE IInv
  OBVIOUS
<1>1. TypeOK
  <2>1. 0 \in 0 .. SeqMax /\ deriveNonce(0) \in Nonce
    BY SeqMaxType, NonceType
  <2> QED BY <2>1 DEF Init, TypeOK, NoArg, NoRecord, Goroutine, RecordType,
                      RecordTypeAlert, Damage, Record, Item
<1>2. LockInv
  BY DEF Init, LockInv, Goroutine
<1>3. SealedInv /\ OpenedInv
  BY DEF Init, SealedInv, OpenedInv, InOrderDelivery
<1>4. SealerInv /\ OpenerInv
  BY DEF Init, SealerInv, OpenerInv, Goroutine
<1> QED BY <1>1, <1>2, <1>3, <1>4 DEF IInv

\* The length of what has been sealed never leaves the range of the counter.
LEMMA IncrementBelowMax ==
  ASSUME NEW s \in 0 .. SeqMax, s # SeqMax
  PROVE  Increment(s) = s + 1 /\ Increment(s) \in 0 .. SeqMax
  BY SeqMaxType DEF Increment

SealLabel == {"idle", "sealing", "seal locked", "seal nonce"}
UnsealLabel == {"idle", "unsealing", "unseal locked", "unseal opened"}
SealHolds == {"seal locked", "seal nonce"}
UnsealHolds == {"unseal locked", "unseal opened"}
SealArg == [type : RecordType, data : Seq(Byte), padding : Int]
OpenArg == [nonce : Nonce, inner : Seq(Byte), damage : Damage]

\* A step of sealer g that only moves g to l, with arguments a and nonce k, and
\* the mutex to m, where l, a, k and m agree with each other.
SealerMove(g, l, a, k, m) ==
  /\ l \in SealLabel /\ a \in SealArg /\ k \in Nonce /\ m \in Sealer \cup {None}
  /\ pc' = [pc EXCEPT ![g] = l]
  /\ sealArg' = [sealArg EXCEPT ![g] = a]
  /\ nonce' = [nonce EXCEPT ![g] = k]
  /\ outMu' = m
  /\ UNCHANGED <<outSeq, sealed, sent, openArg, inSeq, inMu, opened>>
  /\ l \in SealHolds => m = g /\ a.padding >= 0
  /\ \A h \in Sealer \ {g} : pc[h] \in SealHolds => m = h
  /\ l # "idle" => a.type \in SealType /\ a.data \in Plaintext
  /\ l = "seal nonce" => outSeq # SeqMax /\ k = deriveNonce(outSeq)

\* A step of a Seal call that returns no record preserves the invariant.
LEMMA SealerMoveIInv ==
  ASSUME IInv, NEW g \in Sealer, NEW l, NEW a, NEW k, NEW m, SealerMove(g, l, a, k, m)
  PROVE  IInv'
<1> USE DEF SealerMove
<1>1. /\ g \in Goroutine
      /\ \A h \in Opener : h \in Goroutine /\ h # g
      /\ \A h \in Sealer : h \in Goroutine
  BY GoroutineAssumption DEF Goroutine
<1>2. TypeOK'
  <2>1. pc' \in [Goroutine -> {"idle", "sealing", "seal locked", "seal nonce",
                               "unsealing", "unseal locked", "unseal opened"}]
    BY DEF IInv, TypeOK, SealLabel
  <2>2. sealArg' \in [Sealer -> SealArg]
    BY DEF IInv, TypeOK, SealArg
  <2>3. nonce' \in [Sealer -> Nonce]
    BY DEF IInv, TypeOK
  <2> QED BY <2>1, <2>2, <2>3 DEF IInv, TypeOK, SealArg
<1>3. /\ \A h \in Sealer \ {g} : pc'[h] = pc[h] /\ sealArg'[h] = sealArg[h] /\ nonce'[h] = nonce[h]
      /\ \A h \in Opener : pc'[h] = pc[h]
      /\ pc'[g] = l /\ sealArg'[g] = a /\ nonce'[g] = k
  BY <1>1 DEF IInv, TypeOK
<1>4. LockInv'
  BY <1>3 DEF IInv, LockInv, SealHolds, SealLabel
<1>5. SealedInv' /\ OpenedInv'
  BY DEF IInv, SealedInv, OpenedInv, InOrderDelivery, FrameOf
<1>6. SealerInv'
  BY <1>3 DEF IInv, SealerInv, SealHolds
<1>7. OpenerInv'
  BY <1>3 DEF IInv, OpenerInv
<1> QED BY <1>2, <1>4, <1>5, <1>6, <1>7 DEF IInv

\* Nothing else holds the mutex while g does, or while nobody does.
LEMMA SealerExclusion ==
  ASSUME IInv, NEW g \in Sealer, NEW h \in Sealer \ {g}, pc[h] \in SealHolds
  PROVE  outMu = h /\ pc[g] \notin SealHolds /\ outMu # None
  BY GoroutineAssumption DEF IInv, LockInv, SealHolds

\* Every step of Seal up to the record is such a step.
LEMMA SealerStepIInv ==
  ASSUME IInv, NEW g \in Sealer,
         SealCall(g) \/ SealReject(g) \/ SealLock(g) \/ SealOverflow(g) \/ SealNonce(g)
  PROVE  IInv'
<1>1. /\ sealArg = [sealArg EXCEPT ![g] = sealArg[g]] /\ sealArg[g] \in SealArg
      /\ nonce = [nonce EXCEPT ![g] = nonce[g]] /\ nonce[g] \in Nonce
      /\ outMu \in Sealer \cup {None}
  BY DEF IInv, TypeOK, SealArg
<1>2. NoArg \in SealArg
  BY DEF NoArg, SealArg, RecordType, RecordTypeAlert
<1>3. CASE SealCall(g)
  <2>1. PICK t \in SealType, p \in Plaintext, n \in Padding :
               sealArg' = [sealArg EXCEPT ![g] = [type |-> t, data |-> p, padding |-> n]]
    BY <1>3, Zenon DEF SealCall
  <2> DEFINE a == [type |-> t, data |-> p, padding |-> n]
  <2>2. a \in SealArg /\ a.type \in SealType /\ a.data \in Plaintext
    BY InputAssumption, Zenon DEF SealArg
  <2>3. /\ pc' = [pc EXCEPT ![g] = "sealing"]
        /\ nonce' = [nonce EXCEPT ![g] = nonce[g]]
        /\ outMu' = outMu
        /\ UNCHANGED <<outSeq, sealed, sent, openArg, inSeq, inMu, opened>>
    BY <1>1, <1>3 DEF SealCall, Goto, openerVars
  <2>4. \A h \in Sealer \ {g} : pc[h] \in SealHolds => outMu = h
    BY SealerExclusion
  <2> HIDE DEF a
  <2>5. sealArg' = [sealArg EXCEPT ![g] = a]
    BY <2>1 DEF a
  <2>9. SealerMove(g, "sealing", a, nonce[g], outMu)
    BY <1>1, <2>2, <2>3, <2>4, <2>5 DEF SealerMove, SealLabel, SealHolds
  <2> QED BY <2>9, SealerMoveIInv
<1>4. CASE SealReject(g)
  <2>1. /\ pc' = [pc EXCEPT ![g] = "idle"]
        /\ sealArg' = [sealArg EXCEPT ![g] = NoArg]
        /\ nonce' = [nonce EXCEPT ![g] = nonce[g]]
        /\ outMu' = outMu
        /\ UNCHANGED <<outSeq, sealed, sent, openArg, inSeq, inMu, opened>>
    BY <1>1, <1>4 DEF SealReject, Goto, openerVars
  <2>2. \A h \in Sealer \ {g} : pc[h] \in SealHolds => outMu = h
    BY SealerExclusion
  <2>9. SealerMove(g, "idle", NoArg, nonce[g], outMu)
    BY <1>1, <1>2, <2>1, <2>2 DEF SealerMove, SealLabel, SealHolds
  <2> QED BY <2>9, SealerMoveIInv
<1>5. CASE SealLock(g)
  <2>1. /\ pc' = [pc EXCEPT ![g] = "seal locked"]
        /\ sealArg' = [sealArg EXCEPT ![g] = sealArg[g]]
        /\ nonce' = [nonce EXCEPT ![g] = nonce[g]]
        /\ outMu' = g /\ outMu = None
        /\ UNCHANGED <<outSeq, sealed, sent, openArg, inSeq, inMu, opened>>
        /\ sealArg[g].padding >= 0 /\ pc[g] = "sealing"
    BY <1>1, <1>5 DEF SealLock, SealArgsOK, Goto, openerVars
  <2>2. \A h \in Sealer \ {g} : pc[h] \in SealHolds => g = h
    BY <2>1, SealerExclusion
  <2>3. sealArg[g].type \in SealType /\ sealArg[g].data \in Plaintext
    BY <2>1 DEF IInv, SealerInv
  <2>9. SealerMove(g, "seal locked", sealArg[g], nonce[g], g)
    BY <1>1, <2>1, <2>2, <2>3 DEF SealerMove, SealLabel, SealHolds
  <2> QED BY <2>9, SealerMoveIInv
<1>6. CASE SealOverflow(g)
  <2>1. /\ pc' = [pc EXCEPT ![g] = "idle"]
        /\ sealArg' = [sealArg EXCEPT ![g] = NoArg]
        /\ nonce' = [nonce EXCEPT ![g] = nonce[g]]
        /\ outMu' = None /\ pc[g] \in SealHolds
        /\ UNCHANGED <<outSeq, sealed, sent, openArg, inSeq, inMu, opened>>
    BY <1>1, <1>6 DEF SealOverflow, SealHolds, Goto, openerVars
  <2>2. \A h \in Sealer \ {g} : pc[h] \in SealHolds => None = h
    BY <2>1, SealerExclusion
  <2>9. SealerMove(g, "idle", NoArg, nonce[g], None)
    BY <1>1, <1>2, <2>1, <2>2 DEF SealerMove, SealLabel, SealHolds
  <2> QED BY <2>9, SealerMoveIInv
<1>7. CASE SealNonce(g)
  <2>1. /\ pc' = [pc EXCEPT ![g] = "seal nonce"]
        /\ sealArg' = [sealArg EXCEPT ![g] = sealArg[g]]
        /\ nonce' = [nonce EXCEPT ![g] = deriveNonce(outSeq)]
        /\ outMu' = outMu /\ pc[g] = "seal locked" /\ outSeq # SeqMax
        /\ UNCHANGED <<outSeq, sealed, sent, openArg, inSeq, inMu, opened>>
    BY <1>1, <1>7 DEF SealNonce, Goto, openerVars
  <2>2. \A h \in Sealer \ {g} : pc[h] \in SealHolds => outMu = h
    BY SealerExclusion
  <2>3. /\ sealArg[g].type \in SealType /\ sealArg[g].data \in Plaintext
        /\ sealArg[g].padding >= 0 /\ outMu = g
    BY <2>1 DEF IInv, SealerInv, LockInv
  <2>4. deriveNonce(outSeq) \in Nonce
    BY NonceType DEF IInv, TypeOK
  <2>9. SealerMove(g, "seal nonce", sealArg[g], deriveNonce(outSeq), outMu)
    BY <1>1, <2>1, <2>2, <2>3, <2>4 DEF SealerMove, SealLabel, SealHolds
  <2> QED BY <2>9, SealerMoveIInv
<1> QED BY <1>3, <1>4, <1>5, <1>6, <1>7

\* Appending keeps the earlier items and adds one.
LEMMA AppendFacts ==
  ASSUME NEW S, NEW s \in Seq(S), NEW x \in S, NEW t, t = Append(s, x)
  PROVE  /\ t \in Seq(S)
         /\ Len(t) = Len(s) + 1
         /\ \A i \in 1 .. Len(s) : t[i] = s[i]
         /\ t[Len(s) + 1] = x
  BY AppendProperties

\* Seal's last step: the one that extends sealed and advances the sequence number.
LEMMA SealReturnIInv ==
  ASSUME IInv, NEW g \in Sealer, SealReturn(g)
  PROVE  IInv'
<1> DEFINE a == sealArg[g]
           rec == [nonce |-> nonce[g], inner |-> InnerPlaintext(a.type, a.data, a.padding)]
           item == [type |-> a.type, data |-> a.data]
<1>1. /\ pc[g] = "seal nonce"
      /\ sealed' = Append(sealed, rec) /\ sent' = Append(sent, item)
      /\ outSeq' = Increment(outSeq) /\ outMu' = None
      /\ sealArg' = [sealArg EXCEPT ![g] = NoArg]
      /\ nonce' = [nonce EXCEPT ![g] = deriveNonce(0)]
      /\ pc' = [pc EXCEPT ![g] = "idle"]
      /\ UNCHANGED <<openArg, inSeq, inMu, opened>>
  BY DEF SealReturn, Goto, openerVars
<1>2. /\ a.type \in SealType /\ a.data \in Plaintext /\ a.padding \in Nat
      /\ outSeq # SeqMax /\ nonce[g] = deriveNonce(outSeq) /\ outMu = g
  <2>1. a \in SealArg
    BY DEF IInv, TypeOK, SealArg
  <2>2. a.padding \in Int /\ a.padding >= 0
    BY <1>1, <2>1 DEF IInv, SealerInv, SealArg
  <2>3. a.padding \in Nat
    BY <2>2
  <2> HIDE DEF a
  <2>4. a.type \in SealType /\ a.data \in Plaintext
    BY <1>1 DEF IInv, SealerInv, a
  <2> QED BY <1>1, <2>3, <2>4 DEF IInv, SealerInv, LockInv
<1>3. outSeq' = outSeq + 1 /\ outSeq' \in 0 .. SeqMax
  BY <1>1, <1>2, IncrementBelowMax DEF IInv, TypeOK
<1>4. rec \in Record /\ item \in Item
  <2>1. a.type \in Byte /\ a.data \in Seq(Byte)
    <3>1. RecordType \subseteq Byte
      BY DEF RecordType, Byte
    <3> QED BY <1>2, <3>1, InputAssumption, Zenon
  <2>2. InnerPlaintext(a.type, a.data, a.padding) \in Seq(Byte)
    BY <1>2, <2>1, InnerShape
  <2> QED BY <1>2, <2>2 DEF Record, Item, IInv, TypeOK
<1>5. FrameOf(rec, item) /\ rec.nonce = deriveNonce(outSeq)
  BY <1>2 DEF FrameOf
<1> HIDE DEF rec, item, a
<1>6. /\ \A h \in Sealer \ {g} : pc'[h] = pc[h] /\ sealArg'[h] = sealArg[h] /\ nonce'[h] = nonce[h]
      /\ \A h \in Opener : pc'[h] = pc[h]
      /\ pc'[g] = "idle"
  BY <1>1, GoroutineAssumption DEF IInv, TypeOK, Goroutine
<1>7. \A h \in Sealer \ {g} : pc[h] \notin SealHolds
  BY <1>2 DEF IInv, LockInv, SealHolds
<1>8. TypeOK'
  <2>1. NoArg \in SealArg /\ deriveNonce(0) \in Nonce
    BY NonceType, SeqMaxType DEF NoArg, SealArg, RecordType, RecordTypeAlert
  <2>2. sealArg' \in [Sealer -> SealArg] /\ nonce' \in [Sealer -> Nonce]
    BY <1>1, <2>1 DEF IInv, TypeOK, SealArg
  <2>3. sealed' \in Seq(Record) /\ sent' \in Seq(Item)
    BY <1>1, <1>4, AppendProperties DEF IInv, TypeOK
  <2>4. pc' \in [Goroutine -> {"idle", "sealing", "seal locked", "seal nonce",
                               "unsealing", "unseal locked", "unseal opened"}]
    BY <1>1 DEF IInv, TypeOK
  <2> QED BY <1>1, <1>3, <2>2, <2>3, <2>4 DEF IInv, TypeOK, SealArg
<1>9. LockInv'
  BY <1>1, <1>6, <1>7 DEF IInv, LockInv, SealHolds
<1>10. /\ Len(sealed') = Len(sealed) + 1 /\ Len(sent') = Len(sent) + 1
       /\ \A i \in 1 .. Len(sealed) : sealed'[i] = sealed[i] /\ sent'[i] = sent[i]
       /\ sealed'[Len(sealed) + 1] = rec /\ sent'[Len(sealed) + 1] = item
       /\ Len(sealed) \in Nat /\ Len(sealed) = Len(sent) /\ outSeq = Len(sent)
  <2>1. sealed \in Seq(Record) /\ sent \in Seq(Item) /\ Len(sealed) = Len(sent) /\ outSeq = Len(sent)
    BY DEF IInv, TypeOK, SealedInv
  <2>a. rec \in Record /\ sealed' = Append(sealed, rec)
    BY <1>1, <1>4
  <2>b. item \in Item /\ sent' = Append(sent, item)
    BY <1>1, <1>4
  <2>2. /\ Len(sealed') = Len(sealed) + 1
        /\ \A i \in 1 .. Len(sealed) : sealed'[i] = sealed[i]
        /\ sealed'[Len(sealed) + 1] = rec
    BY <2>1, <2>a, AppendFacts
  <2>3. /\ Len(sent') = Len(sent) + 1
        /\ \A i \in 1 .. Len(sent) : sent'[i] = sent[i]
        /\ sent'[Len(sent) + 1] = item
    BY <2>1, <2>b, AppendFacts
  <2> QED BY <2>1, <2>2, <2>3
<1>11. SealedInv'
  <2>1. ASSUME NEW i \in 1 .. Len(sealed')
        PROVE  sealed'[i].nonce = deriveNonce(i - 1) /\ FrameOf(sealed'[i], sent'[i])
    <3>1. CASE i = Len(sealed) + 1
      BY <3>1, <1>5, <1>10
    <3>2. CASE i \in 1 .. Len(sealed)
      BY <3>2, <1>10 DEF IInv, SealedInv
    <3> QED BY <3>1, <3>2, <1>10
  <2> QED BY <2>1, <1>3, <1>10 DEF SealedInv, FrameOf
<1>12. SealerInv'
  BY <1>6, <1>7 DEF IInv, SealerInv, SealHolds
<1>13. OpenerInv'
  <2> SUFFICES ASSUME NEW h \in Opener
               PROVE  /\ pc'[h] # "idle" => \E i \in 1 .. Len(sealed') :
                                              /\ openArg'[h].nonce = sealed'[i].nonce
                                              /\ openArg'[h].inner = sealed'[i].inner
                      /\ pc'[h] = "unseal opened" =>
                           inSeq' # SeqMax /\ openArg'[h].nonce = deriveNonce(inSeq')
    BY DEF OpenerInv
  <2>1. ASSUME pc'[h] # "idle"
        PROVE  \E i \in 1 .. Len(sealed') : /\ openArg'[h].nonce = sealed'[i].nonce
                                            /\ openArg'[h].inner = sealed'[i].inner
    <3>1. PICK i \in 1 .. Len(sealed) : /\ openArg[h].nonce = sealed[i].nonce
                                        /\ openArg[h].inner = sealed[i].inner
      BY <2>1, <1>6 DEF IInv, OpenerInv
    <3>2. i \in 1 .. Len(sealed')
      BY <1>10
    <3> QED BY <1>1, <1>10, <3>1, <3>2
  <2> QED BY <2>1, <1>1, <1>6 DEF IInv, OpenerInv
<1>14. OpenedInv'
  <2>1. Len(opened) \in Nat /\ Len(opened) <= Len(sealed)
    <3>1. opened \in Seq([type : Byte, data : Seq(Byte)])
      BY DEF IInv, TypeOK
    <3> QED BY <3>1, <1>10, LenProperties DEF IInv, OpenedInv, InOrderDelivery
  <2>2. \A i \in 1 .. Len(opened) : i \in 1 .. Len(sealed)
    BY <2>1, <1>10
  <2>3. \A i \in 1 .. Len(opened) : opened[i] = sent'[i]
    BY <2>2, <1>10 DEF IInv, OpenedInv, InOrderDelivery
  <2>4. Len(opened') <= Len(sent') /\ inSeq' = Len(opened') /\ opened' = opened
    <3>1. opened' = opened /\ inSeq' = inSeq /\ inSeq = Len(opened)
      BY <1>1 DEF IInv, OpenedInv
    <3> QED BY <3>1, <1>10, <2>1
  <2> QED BY <2>3, <2>4 DEF OpenedInv, InOrderDelivery
<1> QED BY <1>8, <1>9, <1>11, <1>12, <1>13, <1>14 DEF IInv

-----------------------------------------------------------------------------
(* The opening side *)

\* A step of opener g that only moves g to l, its record to a, and the mutex to m.
OpenerMove(g, l, a, m) ==
  /\ l \in UnsealLabel /\ a \in OpenArg /\ m \in Opener \cup {None}
  /\ pc' = [pc EXCEPT ![g] = l]
  /\ openArg' = [openArg EXCEPT ![g] = a]
  /\ inMu' = m
  /\ UNCHANGED <<inSeq, opened, sealArg, nonce, outSeq, outMu, sealed, sent>>
  /\ l \in UnsealHolds => m = g
  /\ \A h \in Opener \ {g} : pc[h] \in UnsealHolds => m = h
  /\ l # "idle" => \E i \in 1 .. Len(sealed) : a.nonce = sealed[i].nonce /\ a.inner = sealed[i].inner
  /\ l = "unseal opened" => inSeq # SeqMax /\ a.nonce = deriveNonce(inSeq)

\* A step of an Unseal call that returns no plaintext preserves the invariant.
LEMMA OpenerMoveIInv ==
  ASSUME IInv, NEW g \in Opener, NEW l, NEW a, NEW m, OpenerMove(g, l, a, m)
  PROVE  IInv'
<1> USE DEF OpenerMove
<1>1. /\ g \in Goroutine
      /\ \A h \in Sealer : h \in Goroutine /\ h # g
      /\ \A h \in Opener : h \in Goroutine
  BY GoroutineAssumption DEF Goroutine
<1>2. TypeOK'
  <2>1. pc' \in [Goroutine -> {"idle", "sealing", "seal locked", "seal nonce",
                               "unsealing", "unseal locked", "unseal opened"}]
    BY DEF IInv, TypeOK, UnsealLabel
  <2>2. openArg' \in [Opener -> OpenArg]
    BY DEF IInv, TypeOK, OpenArg
  <2> QED BY <2>1, <2>2 DEF IInv, TypeOK, OpenArg
<1>3. /\ \A h \in Opener \ {g} : pc'[h] = pc[h] /\ openArg'[h] = openArg[h]
      /\ \A h \in Sealer : pc'[h] = pc[h]
      /\ pc'[g] = l /\ openArg'[g] = a
  BY <1>1 DEF IInv, TypeOK
<1>4. LockInv'
  BY <1>3 DEF IInv, LockInv, UnsealHolds, UnsealLabel
<1>5. SealedInv' /\ OpenedInv'
  BY DEF IInv, SealedInv, OpenedInv, InOrderDelivery, FrameOf
<1>6. SealerInv'
  BY <1>3 DEF IInv, SealerInv
<1>7. OpenerInv'
  <2> SUFFICES ASSUME NEW h \in Opener
               PROVE  /\ pc'[h] # "idle" => \E i \in 1 .. Len(sealed') :
                                              /\ openArg'[h].nonce = sealed'[i].nonce
                                              /\ openArg'[h].inner = sealed'[i].inner
                      /\ pc'[h] = "unseal opened" =>
                           inSeq' # SeqMax /\ openArg'[h].nonce = deriveNonce(inSeq')
    BY DEF OpenerInv
  <2>1. CASE h = g
    BY <2>1, <1>3
  <2>2. CASE h # g
    <3>1. pc'[h] = pc[h] /\ openArg'[h] = openArg[h]
      BY <2>2, <1>3
    <3> QED BY <3>1 DEF IInv, OpenerInv
  <2> QED BY <2>1, <2>2
<1> QED BY <1>2, <1>4, <1>5, <1>6, <1>7 DEF IInv

\* The mutex of the opening cipher admits one goroutine.
LEMMA OpenerExclusion ==
  ASSUME IInv, NEW g \in Opener, NEW h \in Opener \ {g}, pc[h] \in UnsealHolds
  PROVE  inMu = h /\ pc[g] \notin UnsealHolds /\ inMu # None
  BY GoroutineAssumption DEF IInv, LockInv, UnsealHolds

\* Every step of Unseal up to the plaintext is such a step.
LEMMA OpenerStepIInv ==
  ASSUME IInv, NEW g \in Opener,
         UnsealCall(g) \/ UnsealReject(g) \/ UnsealLock(g) \/ UnsealFail(g) \/ UnsealOpen(g)
  PROVE  IInv'
<1>1. /\ openArg = [openArg EXCEPT ![g] = openArg[g]] /\ openArg[g] \in OpenArg
      /\ inMu \in Opener \cup {None}
  BY DEF IInv, TypeOK, OpenArg
<1>2. NoRecord \in OpenArg
  BY NonceType, SeqMaxType DEF NoRecord, OpenArg, Damage
<1>3. \A h \in Opener \ {g} : pc[h] \in UnsealHolds => inMu = h
  BY OpenerExclusion
<1>4. CASE UnsealCall(g)
  <2>1. PICK i \in 1 .. Len(sealed), d \in Damage :
               openArg' = [openArg EXCEPT ![g] = [nonce |-> sealed[i].nonce,
                                                  inner |-> sealed[i].inner, damage |-> d]]
    BY <1>4, Zenon DEF UnsealCall
  <2> DEFINE a == [nonce |-> sealed[i].nonce, inner |-> sealed[i].inner, damage |-> d]
  <2>2. sealed[i] \in Record
    BY ElementOfSeq DEF IInv, TypeOK
  <2>3. a \in OpenArg /\ a.nonce = sealed[i].nonce /\ a.inner = sealed[i].inner
    BY <2>2 DEF OpenArg, Record
  <2>4. /\ pc' = [pc EXCEPT ![g] = "unsealing"]
        /\ inMu' = inMu
        /\ UNCHANGED <<inSeq, opened, sealArg, nonce, outSeq, outMu, sealed, sent>>
    BY <1>4 DEF UnsealCall, Goto, sealerVars
  <2>5. openArg' = [openArg EXCEPT ![g] = a]
    BY <2>1
  <2> HIDE DEF a
  <2>6. OpenerMove(g, "unsealing", a, inMu)
    BY <1>1, <1>3, <2>3, <2>4, <2>5 DEF OpenerMove, UnsealLabel, UnsealHolds
  <2> QED BY <2>6, OpenerMoveIInv
<1>5. CASE UnsealReject(g)
  <2>1. /\ pc' = [pc EXCEPT ![g] = "idle"]
        /\ openArg' = [openArg EXCEPT ![g] = NoRecord]
        /\ inMu' = inMu
        /\ UNCHANGED <<inSeq, opened, sealArg, nonce, outSeq, outMu, sealed, sent>>
    BY <1>5 DEF UnsealReject, Goto, sealerVars
  <2>2. OpenerMove(g, "idle", NoRecord, inMu)
    BY <1>1, <1>2, <1>3, <2>1 DEF OpenerMove, UnsealLabel, UnsealHolds
  <2> QED BY <2>2, OpenerMoveIInv
<1>6. CASE UnsealLock(g)
  <2>1. /\ pc' = [pc EXCEPT ![g] = "unseal locked"]
        /\ openArg' = [openArg EXCEPT ![g] = openArg[g]]
        /\ inMu = None /\ inMu' = g /\ pc[g] = "unsealing"
        /\ UNCHANGED <<inSeq, opened, sealArg, nonce, outSeq, outMu, sealed, sent>>
    BY <1>1, <1>6 DEF UnsealLock, Goto, sealerVars
  <2>2. \A h \in Opener \ {g} : pc[h] \in UnsealHolds => g = h
    BY <2>1, OpenerExclusion
  <2>3. \E i \in 1 .. Len(sealed) : /\ openArg[g].nonce = sealed[i].nonce
                                    /\ openArg[g].inner = sealed[i].inner
    BY <2>1 DEF IInv, OpenerInv
  <2>4. OpenerMove(g, "unseal locked", openArg[g], g)
    BY <1>1, <2>1, <2>2, <2>3 DEF OpenerMove, UnsealLabel, UnsealHolds
  <2> QED BY <2>4, OpenerMoveIInv
<1>7. CASE UnsealFail(g)
  <2>1. /\ pc' = [pc EXCEPT ![g] = "idle"]
        /\ openArg' = [openArg EXCEPT ![g] = NoRecord]
        /\ inMu' = None /\ pc[g] \in UnsealHolds
        /\ UNCHANGED <<inSeq, opened, sealArg, nonce, outSeq, outMu, sealed, sent>>
    BY <1>7 DEF UnsealFail, UnsealHolds, Goto, sealerVars
  <2>2. \A h \in Opener \ {g} : pc[h] \in UnsealHolds => None = h
    BY <2>1, OpenerExclusion
  <2>3. OpenerMove(g, "idle", NoRecord, None)
    BY <1>2, <2>1, <2>2 DEF OpenerMove, UnsealLabel, UnsealHolds
  <2> QED BY <2>3, OpenerMoveIInv
<1>8. CASE UnsealOpen(g)
  <2>1. /\ pc' = [pc EXCEPT ![g] = "unseal opened"]
        /\ openArg' = [openArg EXCEPT ![g] = openArg[g]]
        /\ inMu' = inMu /\ pc[g] = "unseal locked"
        /\ inSeq # SeqMax /\ openArg[g].nonce = deriveNonce(inSeq)
        /\ UNCHANGED <<inSeq, opened, sealArg, nonce, outSeq, outMu, sealed, sent>>
    BY <1>1, <1>8 DEF UnsealOpen, OpenOK, Goto, sealerVars, openerVars
  <2>2. inMu = g /\ \E i \in 1 .. Len(sealed) : /\ openArg[g].nonce = sealed[i].nonce
                                                /\ openArg[g].inner = sealed[i].inner
    BY <2>1 DEF IInv, OpenerInv, LockInv
  <2>3. OpenerMove(g, "unseal opened", openArg[g], inMu)
    BY <1>1, <1>3, <2>1, <2>2 DEF OpenerMove, UnsealLabel, UnsealHolds
  <2> QED BY <2>3, OpenerMoveIInv
<1> QED BY <1>4, <1>5, <1>6, <1>7, <1>8

\* A content type is never mistaken for padding.
LEMMA SealTypeNonZero == \A t \in SealType : t \in Byte \ {0}
<1>1. \A t \in RecordType : t \in Byte \ {0}
  BY DEF RecordType, Byte
<1> QED BY <1>1, InputAssumption

\* The positions of sealed are sequence numbers plus one.
LEMMA SealedIndex ==
  ASSUME IInv, NEW i \in 1 .. Len(sealed)
  PROVE  i \in Nat /\ i - 1 \in 0 .. SeqMax /\ i \in 1 .. Len(sent)
<1>1. Len(sealed) = outSeq /\ Len(sealed) = Len(sent) /\ outSeq \in 0 .. SeqMax
  BY DEF IInv, SealedInv, TypeOK
<1> QED BY <1>1, SeqMaxType

\* The receiver's sequence number is a natural number.
LEMMA InSeqNat == ASSUME IInv PROVE inSeq \in Nat
<1>1. inSeq \in 0 .. SeqMax
  BY DEF IInv, TypeOK
<1> QED BY <1>1, SeqMaxType

\* Arithmetic for the scan back over the padding.
LEMMA MinusOne == \A a \in Nat, b \in Nat : a - 1 = b => a = b + 1
OBVIOUS

\* The record an opener has opened is the next one the receiver has not seen, and
\* Unseal makes of it what Seal was given.
LEMMA OpenedIsNext ==
  ASSUME IInv, NEW g \in Opener, pc[g] = "unseal opened"
  PROVE  /\ inSeq + 1 \in 1 .. Len(sent)
         /\ Content(openArg[g].inner) = sent[inSeq + 1]
<1>1. PICK i \in 1 .. Len(sealed) : /\ openArg[g].nonce = sealed[i].nonce
                                    /\ openArg[g].inner = sealed[i].inner
  BY DEF IInv, OpenerInv
<1>2. /\ sealed[i].nonce = deriveNonce(i - 1) /\ FrameOf(sealed[i], sent[i])
      /\ openArg[g].nonce = deriveNonce(inSeq)
  BY DEF IInv, SealedInv, OpenerInv
<1>3. /\ sent \in Seq(Item) /\ inSeq \in 0 .. SeqMax
      /\ i - 1 \in 0 .. SeqMax /\ i \in 1 .. Len(sent)
  BY SealedIndex DEF IInv, TypeOK
<1>4. deriveNonce(i - 1) = deriveNonce(inSeq)
  BY <1>1, <1>2
<1>5. i - 1 = inSeq
  BY <1>3, <1>4, NonceInjective
<1>6. i = inSeq + 1
  <2>1. i \in Nat
    BY SealedIndex
  <2>2. inSeq \in Nat
    BY InSeqNat
  <2> QED BY <2>1, <2>2, <1>5, MinusOne
<1>7. sent[i] \in Item
  BY <1>3, ElementOfSeq
<1>8. /\ sent[i].type \in Byte \ {0} /\ sent[i].data \in Seq(Byte)
      /\ sent[i] = [type |-> sent[i].type, data |-> sent[i].data]
  BY <1>7, SealTypeNonZero, InputAssumption DEF Item
<1>9. PICK n \in Nat : sealed[i].inner = InnerPlaintext(sent[i].type, sent[i].data, n)
  BY <1>2 DEF FrameOf
<1>10. Content(sealed[i].inner) = sent[i]
  BY <1>8, <1>9, FrameRoundTrip, Zenon
<1> QED BY <1>1, <1>3, <1>6, <1>10

\* The record Unseal returns is the next one of those sealed.
LEMMA UnsealReturnIInv ==
  ASSUME IInv, NEW g \in Opener, UnsealReturn(g)
  PROVE  IInv'
<1> DEFINE x == Content(openArg[g].inner)
<1>1. /\ pc[g] = "unseal opened"
      /\ opened' = Append(opened, x)
      /\ inSeq' = Increment(inSeq) /\ inMu' = None
      /\ openArg' = [openArg EXCEPT ![g] = NoRecord]
      /\ pc' = [pc EXCEPT ![g] = "idle"]
      /\ UNCHANGED <<sealArg, nonce, outSeq, outMu, sealed, sent>>
  BY DEF UnsealReturn, Goto, sealerVars
<1>2. inSeq + 1 \in 1 .. Len(sent) /\ x = sent[inSeq + 1]
  BY <1>1, OpenedIsNext
<1> HIDE DEF x
<1>3. inSeq' = inSeq + 1 /\ inSeq' \in 0 .. SeqMax /\ inMu = g
  BY <1>1, IncrementBelowMax DEF IInv, TypeOK, OpenerInv, LockInv
<1>4. x \in [type : Byte, data : Seq(Byte)]
  <2>1. sent[inSeq + 1] \in Item
    BY <1>2, ElementOfSeq DEF IInv, TypeOK
  <2>2. SealType \subseteq Byte /\ Plaintext \subseteq Seq(Byte)
    BY InputAssumption DEF RecordType, Byte
  <2> QED BY <1>2, <2>1, <2>2 DEF Item
<1>5. /\ \A h \in Opener \ {g} : pc'[h] = pc[h] /\ openArg'[h] = openArg[h]
      /\ \A h \in Sealer : pc'[h] = pc[h]
      /\ pc'[g] = "idle"
  BY <1>1, GoroutineAssumption DEF IInv, TypeOK, Goroutine
<1>6. \A h \in Opener \ {g} : pc[h] \notin UnsealHolds
  BY <1>3 DEF IInv, LockInv, UnsealHolds
<1>7. opened \in Seq([type : Byte, data : Seq(Byte)])
  BY DEF IInv, TypeOK
<1>8. /\ opened' \in Seq([type : Byte, data : Seq(Byte)])
      /\ Len(opened') = Len(opened) + 1
      /\ \A i \in 1 .. Len(opened) : opened'[i] = opened[i]
      /\ opened'[Len(opened) + 1] = x
  <2>1. opened' = Append(opened, x)
    BY <1>1
  <2> QED BY <2>1, <1>4, <1>7, AppendFacts
<1>9. TypeOK'
  <2>1. NoRecord \in OpenArg
    BY NonceType, SeqMaxType DEF NoRecord, OpenArg, Damage
  <2>2. openArg' \in [Opener -> OpenArg]
    BY <1>1, <2>1 DEF IInv, TypeOK, OpenArg
  <2>3. pc' \in [Goroutine -> {"idle", "sealing", "seal locked", "seal nonce",
                               "unsealing", "unseal locked", "unseal opened"}]
    BY <1>1 DEF IInv, TypeOK
  <2> QED BY <1>1, <1>3, <1>8, <2>2, <2>3 DEF IInv, TypeOK, OpenArg
<1>10. LockInv'
  BY <1>1, <1>5, <1>6 DEF IInv, LockInv, UnsealHolds
<1>11. SealedInv'
  BY <1>1 DEF IInv, SealedInv, FrameOf
<1>12. SealerInv'
  BY <1>1, <1>5 DEF IInv, SealerInv
<1>13. OpenerInv'
  <2> SUFFICES ASSUME NEW h \in Opener
               PROVE  /\ pc'[h] # "idle" => \E i \in 1 .. Len(sealed') :
                                              /\ openArg'[h].nonce = sealed'[i].nonce
                                              /\ openArg'[h].inner = sealed'[i].inner
                      /\ pc'[h] # "unseal opened"
    BY DEF OpenerInv
  <2>1. CASE h = g
    BY <2>1, <1>5
  <2>2. CASE h # g
    <3>1. pc'[h] = pc[h] /\ openArg'[h] = openArg[h] /\ pc[h] # "unseal opened"
      BY <2>2, <1>5, <1>6 DEF UnsealHolds
    <3>2. sealed' = sealed
      BY <1>1
    <3> QED BY <3>1, <3>2 DEF IInv, OpenerInv
  <2> QED BY <2>1, <2>2
<1>14. OpenedInv'
  <2>1. inSeq = Len(opened) /\ \A i \in 1 .. Len(opened) : opened[i] = sent[i]
    BY DEF IInv, OpenedInv, InOrderDelivery
  <2>2. ASSUME NEW i \in 1 .. Len(opened') PROVE opened'[i] = sent[i]
    <3>1. CASE i = Len(opened) + 1
      BY <3>1, <2>1, <1>2, <1>8
    <3>2. CASE i \in 1 .. Len(opened)
      BY <3>2, <2>1, <1>8
    <3> QED BY <3>1, <3>2, <1>7, <1>8, LenProperties
  <2>3. inSeq' = Len(opened') /\ Len(opened') <= Len(sent) /\ sent' = sent
    <3>1. sent' = sent
      BY <1>1
    <3>2. Len(opened') = inSeq + 1
      BY <2>1, <1>8
    <3>3. inSeq + 1 <= Len(sent)
      BY <1>2
    <3> QED BY <3>1, <3>2, <3>3, <1>3
  <2> QED BY <2>2, <2>3 DEF OpenedInv, InOrderDelivery
<1> QED BY <1>9, <1>10, <1>11, <1>12, <1>13, <1>14 DEF IInv

-----------------------------------------------------------------------------
(* Results *)

\* Every step of every goroutine preserves the invariant.
LEMMA NextIInv == IInv /\ [Next]_vars => IInv'
<1> SUFFICES ASSUME IInv, [Next]_vars PROVE IInv'
  OBVIOUS
<1>1. ASSUME NEW g \in Sealer, SealCall(g) \/ SealLock(g) \/ SealStep(g)
      PROVE  IInv'
  BY <1>1, SealerStepIInv, SealReturnIInv DEF SealStep
<1>2. ASSUME NEW g \in Opener, UnsealCall(g) \/ UnsealLock(g) \/ UnsealStep(g)
      PROVE  IInv'
  BY <1>2, OpenerStepIInv, UnsealReturnIInv DEF UnsealStep
<1>3. CASE UNCHANGED vars
  BY <1>3, ZenonT(30) DEF vars, IInv, TypeOK, LockInv, SealedInv, FrameOf, SealerInv, OpenerInv,
              OpenedInv, InOrderDelivery
<1> QED BY <1>1, <1>2, <1>3 DEF Next, Reset

\* The inductive invariant holds of every behaviour.
THEOREM Invariance == Spec => []IInv
  BY InitIInv, NextIInv, PTL DEF Spec

\* RecordCipher's fields and the callers' locals keep their types; in particular
\* the sequence numbers stay within their width.
THEOREM TypeCorrect == Spec => []TypeOK
<1>1. IInv => TypeOK
  BY DEF IInv
<1> QED BY <1>1, Invariance, PTL

\* SM4-GCM never sees one nonce twice under a key, for any number of concurrent
\* callers of Seal, across Reset and up to the overflow of the sequence number.
THEOREM NonceNeverReused == Spec => []NonceUnique
<1>1. IInv => NonceUnique
  <2> SUFFICES ASSUME IInv, NEW i \in 1 .. Len(sealed), NEW j \in 1 .. Len(sealed),
                      sealed[i].nonce = sealed[j].nonce
               PROVE  i = j
    BY DEF NonceUnique
  <2>1. deriveNonce(i - 1) = deriveNonce(j - 1)
    BY DEF IInv, SealedInv
  <2>2. i - 1 \in 0 .. SeqMax /\ j - 1 \in 0 .. SeqMax
    BY SealedIndex
  <2>3. i - 1 = j - 1
    BY <2>1, <2>2, NonceInjective
  <2> QED BY <2>3
<1> QED BY <1>1, Invariance, PTL

\* Unseal hands out a prefix of what was given to Seal, unchanged and in order,
\* whatever the transport replays, reorders, drops or damages.
THEOREM DeliveryInOrder == Spec => []InOrderDelivery
<1>1. IInv => InOrderDelivery
  BY DEF IInv, OpenedInv
<1> QED BY <1>1, Invariance, PTL
\* Every step of the record layer is a step of the channel or leaves it alone.
LEMMA StepRefines ==
  ASSUME IInv, [Next]_vars
  PROVE  [Channel!Next]_<<sent, opened>>
<1>1. ASSUME NEW g \in Sealer, SealReturn(g)
      PROVE  Channel!Send
  <2>1. /\ sent' = Append(sent, [type |-> sealArg[g].type, data |-> sealArg[g].data])
        /\ opened' = opened /\ pc[g] = "seal nonce"
    BY <1>1 DEF SealReturn, openerVars
  <2>2. sealArg[g].type \in SealType /\ sealArg[g].data \in Plaintext
    BY <2>1 DEF IInv, SealerInv
  <2>3. [type |-> sealArg[g].type, data |-> sealArg[g].data] \in Item
    BY <2>2 DEF Item
  <2> QED BY <2>1, <2>3 DEF Channel!Send
<1>2. ASSUME NEW g \in Opener, UnsealReturn(g)
      PROVE  Channel!Receive
  <2>1. /\ opened' = Append(opened, Content(openArg[g].inner))
        /\ sent' = sent /\ pc[g] = "unseal opened"
    BY <1>2 DEF UnsealReturn, sealerVars
  <2>2. inSeq + 1 \in 1 .. Len(sent) /\ Content(openArg[g].inner) = sent[inSeq + 1]
    BY <2>1, OpenedIsNext
  <2>3. inSeq = Len(opened) /\ inSeq \in Nat
    BY InSeqNat DEF IInv, OpenedInv
  <2>4. Len(opened) < Len(sent)
    <3>1. Len(sent) \in Nat
      BY LenProperties DEF IInv, TypeOK
    <3> QED BY <2>2, <2>3, <3>1
  <2> QED BY <2>1, <2>2, <2>3, <2>4 DEF Channel!Receive
<1>3. ASSUME NEW g \in Sealer,
             SealCall(g) \/ SealLock(g) \/ SealReject(g) \/ SealOverflow(g) \/ SealNonce(g)
      PROVE  UNCHANGED <<sent, opened>>
  BY <1>3 DEF SealCall, SealLock, SealReject, SealOverflow, SealNonce, openerVars
<1>4. ASSUME NEW g \in Opener,
             UnsealCall(g) \/ UnsealLock(g) \/ UnsealReject(g) \/ UnsealFail(g) \/ UnsealOpen(g)
      PROVE  UNCHANGED <<sent, opened>>
  BY <1>4 DEF UnsealCall, UnsealLock, UnsealReject, UnsealFail, UnsealOpen, sealerVars, openerVars
<1>5. CASE UNCHANGED vars
  BY <1>5 DEF vars
<1> QED BY <1>1, <1>2, <1>3, <1>4, <1>5 DEF Next, Reset, SealStep, UnsealStep, Channel!Next

\* The record layer implements the ordered channel: Init maps to the empty channel,
\* SealReturn is Send, UnsealReturn is Receive, and every other step stutters.
THEOREM RecordLayerIsChannel == Spec => ImplementsChannel
<1>1. Init => Channel!Init
  BY DEF Init, Channel!Init
<1>2. IInv /\ [Next]_vars => [Channel!Next]_<<sent, opened>>
  BY StepRefines
<1> QED BY <1>1, <1>2, Invariance, PTL DEF Spec, ImplementsChannel, Channel!Spec

=============================================================================
