----------------------------- MODULE ConnProofs -----------------------------
(***************************************************************************)
(* Proofs about Conn, for any number of goroutines at either end, any      *)
(* slices, record size, buffer, number of records and choice of deadlines  *)
(* and breaks.                                                             *)
(*                                                                         *)
(* The inductive invariant has one part per mechanism of conn.go: the      *)
(* mutexes and closeOnce (Locks), the numbers of the records in flight     *)
(* (Records), where the bytes a Write still holds will stand in the stream *)
(* (Writes), and how the sealed records, the decrypted leftovers and what  *)
(* Read has returned cut the stream of sealed bytes up (Stream).           *)
(*                                                                         *)
(* A leaf names its prover: Zenon for the logic, SMTT for arithmetic and   *)
(* sequences.                                                              *)
(***************************************************************************)
EXTENDS Conn, TLAPS

WriteLabel == {"write lock", "write", "write put"}
SealLabel == {"write", "write put", "close put"}
ReadLabel == {"read header", "read body"}
CloseLabel == {"close lock", "close put", "close raw"}

-----------------------------------------------------------------------------
(* The inductive invariant *)

\* The goroutine inside Write's loop, or writing close_notify, holds writeMu.
WriteMuHeld ==
  \A g \in Goroutine : pc[g] \in SealLabel => writeMu[EndOf[g]] = g

\* A Read past its lock holds readMu, and no decrypted bytes are left over.
ReadMuHeld ==
  \A g \in Goroutine :
    pc[g] \in ReadLabel => readMu[EndOf[g]] = g /\ readBuf[EndOf[g]] = << >>

\* closeOnce lets one caller through, and that one seals close_notify at most once.
CloseOnce ==
  /\ \A g \in Goroutine :
       /\ pc[g] \in CloseLabel => once[EndOf[g]] = "running"
       /\ pc[g] = "close lock" => closeAt[EndOf[g]] = -1
  /\ \A g, h \in Goroutine :
       EndOf[g] = EndOf[h] /\ pc[g] \in CloseLabel /\ pc[h] \in CloseLabel => g = h
  /\ \A e \in End : once[e] = "new" => closeAt[e] = -1

Locks == WriteMuHeld /\ ReadMuHeld /\ CloseOnce

\* No record is in flight that was not sealed.
WireSealed(e) == \A i \in 1 .. Len(wire[e]) : wire[e][i].rec <= Len(sealed[e])
PendingSealed(g) ==
  \A i \in 1 .. Len(pending[g]) : pending[g][i].rec <= Len(sealed[EndOf[g]])

Records ==
  /\ \A e \in End : Len(sealed[e]) <= SeqMax /\ WireSealed(e)
  /\ \A g \in Writer \cup Closer : PendingSealed(g)

\* What the bytes of the stream tell: the goroutine, its call, the place in the slice.
Who(x) == x[1]
Call(x) == x[2]
Pos(x) == x[3]
SameCall(x, y) == Who(x) = Who(y) /\ Call(x) = Call(y)

\* For a stream s, the bytes r of a Write that are not counted as sent yet, and the
\* number c of bytes sealed before close_notify: the bytes of a call in s are as far
\* apart as in its slice; c separates no two of them; r is consecutive and of one
\* call; s holds nothing of r's call; behind the first b bytes of s comes r; and the
\* first n bytes of r are the last of s.
Contiguous(s) ==
  \A i, j \in 1 .. Len(s) : SameCall(s[i], s[j]) => j - i = Pos(s[j]) - Pos(s[i])
NotCut(s, c) ==
  \A i, j \in 1 .. Len(s) : i <= c /\ c < j => ~SameCall(s[i], s[j])
Consecutive(r) == \A k, l \in 1 .. Len(r) : Pos(r[l]) - Pos(r[k]) = l - k
OfCall(r, g, c) == \A k \in 1 .. Len(r) : Who(r[k]) = g /\ Call(r[k]) = c
Fresh(s, r) == \A i \in 1 .. Len(s), k \in 1 .. Len(r) : ~SameCall(s[i], r[k])
Follows(s, b, c, r) ==
  \A i \in 1 .. b, k \in 1 .. Len(r) :
    SameCall(s[i], r[k]) => b + k - i = Pos(r[k]) - Pos(s[i]) /\ c < i
Placed(s, c, r, n) ==
  LET b == Len(s) - n
  IN  /\ 0 <= b /\ c <= b
      /\ Follows(s, b, c, r)
      /\ \A k \in 1 .. n : s[b + k] = r[k]

Chunk(g) == Take(rest[g], MaxPlaintextLength)

\* How far the Write of goroutine g has come.
Progress(g) ==
  LET s == sentBytes[EndOf[g]]
      c == closeAt[EndOf[g]]
  IN  /\ pc[g] \in WriteLabel => OfCall(rest[g], g, calls[g]) /\ Consecutive(rest[g])
      /\ pc[g] = "write lock" => Fresh(s, rest[g])
      /\ pc[g] = "write" => Follows(s, Len(s), c, rest[g])
      /\ pc[g] = "write put" => Placed(s, c, rest[g], Len(Chunk(g)))

\* The bytes sealed at end e are whole Writes or the beginnings of Writes, each of a
\* call that was made, and close_notify is at or before their end.
Sealed(e) ==
  /\ \A i \in 1 .. Len(sentBytes[e]) :
       Call(sentBytes[e][i]) <= calls[Who(sentBytes[e][i])]
  /\ closeAt[e] <= Len(sentBytes[e])
  /\ Contiguous(sentBytes[e]) /\ NotCut(sentBytes[e], closeAt[e])

Writes == (\A e \in End : Sealed(e)) /\ (\A g \in Writer : Progress(g))

\* The bytes d stand in the stream s behind its first a.
At(d, s, a) == \A i \in 1 .. Len(d) : d[i] = s[a + i]

\* Record r holds the bytes of s from a to b; close_notify holds none and stands
\* where the stream ends.
Piece(r, s, c, a, b) ==
  /\ b = a + Len(r.data) /\ At(r.data, s, a)
  /\ r.type = "alert" => r.data = << >> /\ c = b

\* off cuts what end e has sealed into its records.
Cut(e, off) ==
  /\ off[0] = 0 /\ off[Len(sealed[e])] = Len(sentBytes[e])
  /\ \A k \in 1 .. Len(sealed[e]) :
       Piece(sealed[e][k], sentBytes[e], closeAt[e], off[k - 1], off[k])

\* What end p has returned to Read and what it holds in readBuf are the bytes of the
\* records it has opened.
Delivered(e, p, off) ==
  /\ inSeq[p] <= Len(sealed[e])
  /\ off[inSeq[p]] = Len(got[p]) + Len(readBuf[p])
  /\ At(got[p], sentBytes[e], 0) /\ At(readBuf[p], sentBytes[e], Len(got[p]))

Cuts(e) == [0 .. Len(sealed[e]) -> 0 .. Len(sentBytes[e])]

Stream(e) ==
  /\ \E off \in Cuts(e) : Cut(e, off) /\ Delivered(e, Peer(e), off)
  /\ closeNotifyReceived[Peer(e)] => eof[Peer(e)]

Streams == \A e \in End : Stream(e)

IInv == TypeOK /\ Locks /\ Records /\ Writes /\ Streams

-----------------------------------------------------------------------------
(* What the lemmas speak of *)

Record == [type : {"data", "alert"}, data : Seq(AppByte)]

\* The raw connection breaks, or a deadline is set or passes.
RawStep(e) ==
  Break(e) \/ SetReadDeadline(e) \/ SetWriteDeadline(e) \/ ReadExpire(e) \/ WriteExpire(e)

\* What one Read does to the two streams: nothing to the one its own end sends, and
\* the next bytes, or the end, of the other.
Reads(p) ==
  LET e == Peer(p)
  IN  /\ UNCHANGED <<sentBytes, closeAt>>
      /\ got'[e] = got[e] /\ eof'[e] = eof[e]
      /\ Len(got[p]) <= Len(got'[p]) /\ \A i \in 1 .. Len(got[p]) : got'[p][i] = got[p][i]
      /\ Len(got'[p]) <= Len(sentBytes[e]) /\ At(got'[p], sentBytes[e], 0)
      /\ \/ eof'[p] = eof[p]
         \/ /\ eof'[p] = TRUE /\ got'[p] = got[p]
            /\ closeAt[e] >= 0 /\ Len(got[p]) >= closeAt[e]

\* A step of the byte stream from end e to its peer, or none.
StreamStep(e) ==
  LET p == Peer(e)
  IN  \/ /\ Len(sentBytes'[e]) > Len(sentBytes[e])
         /\ SubSeq(sentBytes'[e], 1, Len(sentBytes[e])) = sentBytes[e]
         /\ closeAt'[e] = closeAt[e] /\ got'[p] = got[p] /\ eof'[p] = eof[p]
      \/ /\ closeAt[e] = -1 /\ closeAt'[e] = Len(sentBytes[e])
         /\ sentBytes'[e] = sentBytes[e] /\ got'[p] = got[p] /\ eof'[p] = eof[p]
      \/ /\ Len(got'[p]) > Len(got[p]) /\ SubSeq(got'[p], 1, Len(got[p])) = got[p]
         /\ Len(got'[p]) <= Len(sentBytes[e])
         /\ got'[p] = SubSeq(sentBytes[e], 1, Len(got'[p]))
         /\ sentBytes'[e] = sentBytes[e] /\ closeAt'[e] = closeAt[e] /\ eof'[p] = eof[p]
      \/ /\ closeAt[e] >= 0 /\ Len(got[p]) >= closeAt[e] /\ eof'[p] = TRUE
         /\ sentBytes'[e] = sentBytes[e] /\ closeAt'[e] = closeAt[e] /\ got'[p] = got[p]
      \/ /\ sentBytes'[e] = sentBytes[e] /\ closeAt'[e] = closeAt[e]
         /\ got'[p] = got[p] /\ eof'[p] = eof[p]

StreamSteps == \A e \in End : StreamStep(e)

-----------------------------------------------------------------------------
(* Numbers, sequences and small facts *)

\* A number up to n is an index of a function on 0 .. n ...
LEMMA UpTo ==
  ASSUME NEW k \in Nat, NEW n \in Nat, k <= n
  PROVE  k \in 0 .. n
OBVIOUS

\* ... and so is the next one of a smaller number.
LEMMA NextIndex ==
  ASSUME NEW k \in Nat, NEW n \in Nat, k < n
  PROVE  k + 1 \in 1 .. n /\ k + 1 \in 0 .. n /\ (k + 1) - 1 = k
OBVIOUS

\* Nothing is left over.
LEMMA PlusZero ==
  ASSUME NEW k \in Nat, NEW z, z = 0
  PROVE  k + z = k
OBVIOUS

\* The last index and the last offset are in range.
LEMMA SumBounds ==
  ASSUME NEW k \in Nat, NEW n \in Nat
  PROVE  k + 1 \in 0 .. k + 1 /\ k + n \in 0 .. k + n
OBVIOUS

\* What is sealed stays sealed.
LEMMA AtMost ==
  ASSUME NEW n \in Nat, NEW a \in 1 .. n, NEW b \in Nat, NEW c \in Nat, a <= b, b <= c
  PROVE  a <= c
OBVIOUS

\* The length and the elements of a sequence.
LEMMA SeqFacts ==
  ASSUME NEW S, NEW s \in Seq(S)
  PROVE  Len(s) \in Nat /\ \A i \in 1 .. Len(s) : s[i] \in S
OBVIOUS

\* Sequences with the same elements are the same.
LEMMA SameSeq ==
  ASSUME NEW S, NEW s \in Seq(S), NEW t \in Seq(S), Len(s) = Len(t),
         \A i \in 1 .. Len(s) : s[i] = t[i]
  PROVE  s = t
OBVIOUS

\* Take returns the first n elements, or all of them ...
LEMMA TakeFacts ==
  ASSUME NEW S, NEW s \in Seq(S), NEW n \in Nat
  PROVE  /\ Take(s, n) \in Seq(S) /\ Len(Take(s, n)) \in Nat
         /\ Len(Take(s, n)) = IF n < Len(s) THEN n ELSE Len(s)
         /\ Len(Take(s, n)) <= Len(s) /\ Len(Take(s, n)) <= n
         /\ \A i \in 1 .. Len(Take(s, n)) : Take(s, n)[i] = s[i]
<1>1. Len(s) \in Nat
  OBVIOUS
<1>2. CASE n < Len(s)
  BY <1>1, <1>2 DEF Take
<1>3. CASE ~(n < Len(s))
  BY <1>1, <1>3 DEF Take
<1> QED
  BY <1>2, <1>3, Zenon

\* ... and Drop what is behind the first n.
LEMMA DropFacts ==
  ASSUME NEW S, NEW s \in Seq(S), NEW n \in Nat
  PROVE  /\ Drop(s, n) \in Seq(S) /\ Len(Drop(s, n)) \in Nat
         /\ Len(Drop(s, n)) = IF n < Len(s) THEN Len(s) - n ELSE 0
         /\ \A i \in 1 .. Len(Drop(s, n)) : n + i \in 1 .. Len(s) /\ Drop(s, n)[i] = s[n + i]
<1>1. Len(s) \in Nat
  OBVIOUS
<1>2. CASE n < Len(s)
  BY <1>1, <1>2 DEF Drop
<1>3. CASE ~(n < Len(s))
  BY <1>1, <1>3 DEF Drop
<1> QED
  BY <1>2, <1>3, Zenon

\* Concatenation.
LEMMA ConcatFacts ==
  ASSUME NEW S, NEW s \in Seq(S), NEW t \in Seq(S)
  PROVE  /\ s \o t \in Seq(S) /\ Len(s \o t) = Len(s) + Len(t)
         /\ Len(s) \in Nat /\ Len(t) \in Nat
         /\ \A i \in 1 .. Len(s) : (s \o t)[i] = s[i]
         /\ \A i \in 1 .. Len(t) : (s \o t)[Len(s) + i] = t[i]
OBVIOUS

\* A sequence that agrees with the beginning of another is its prefix.
LEMMA PrefixFacts ==
  ASSUME NEW S, NEW s \in Seq(S), NEW t \in Seq(S), Len(s) <= Len(t),
         \A i \in 1 .. Len(s) : s[i] = t[i]
  PROVE  s = SubSeq(t, 1, Len(s))
<1>1. Len(s) \in Nat /\ Len(t) \in Nat
  OBVIOUS
<1>2. SubSeq(t, 1, Len(s)) \in Seq(S) /\ Len(SubSeq(t, 1, Len(s))) = Len(s)
  BY <1>1
<1>3. \A i \in 1 .. Len(s) : SubSeq(t, 1, Len(s))[i] = t[i]
  BY <1>1
<1> QED
  BY <1>1, <1>2, <1>3

\* The elements of a sequence without its head.
LEMMA TailFacts ==
  ASSUME NEW S, NEW s \in Seq(S), s # << >>
  PROVE  /\ Tail(s) \in Seq(S)
         /\ \A i \in 1 .. Len(Tail(s)) : i + 1 \in 1 .. Len(s) /\ Tail(s)[i] = s[i + 1]
OBVIOUS

\* A byte knows its Write, the number of the call and its place in the slice.
LEMMA ByteFacts ==
  ASSUME NEW x \in AppByte
  PROVE  Who(x) \in Writer /\ Call(x) \in 1 .. MaxCalls /\ Pos(x) \in Nat
BY Zenon DEF AppByte, Who, Call, Pos

\* Appending the next chunk of a Write keeps the calls contiguous and unbroken by
\* close_notify, and puts the chunk at the end of the stream.
LEMMA SealedChunk ==
  ASSUME NEW s \in Seq(AppByte), NEW r \in Seq(AppByte), NEW n \in Nat,
         NEW c \in Nat \cup {-1}, c <= Len(s),
         Contiguous(s), NotCut(s, c), Consecutive(r), Follows(s, Len(s), c, r)
  PROVE  LET q == Take(r, n)
             t == s \o q
         IN  Contiguous(t) /\ NotCut(t, c) /\ Placed(t, c, r, Len(q))
<1> DEFINE q == Take(r, n)
           t == s \o q
           L == Len(s)
           m == Len(q)
<1>1. q \in Seq(AppByte) /\ m \in Nat /\ m <= Len(r) /\ \A k \in 1 .. m : q[k] = r[k]
  BY TakeFacts, Zenon
<1>2. L \in Nat /\ Len(r) \in Nat
  OBVIOUS
<1> HIDE DEF q
<1>3. /\ t \in Seq(AppByte) /\ Len(t) = L + m
      /\ \A i \in 1 .. L : t[i] = s[i]
      /\ \A k \in 1 .. m : t[L + k] = q[k]
  BY <1>1, ConcatFacts
<1> HIDE DEF t, L, m
<1>4. \A i \in 1 .. L : s[i] \in AppByte /\ Pos(s[i]) \in Nat
  BY ByteFacts DEF L
<1>5. \A k \in 1 .. Len(r) : r[k] \in AppByte /\ Pos(r[k]) \in Nat
  BY ByteFacts
<1>6. \A i \in 1 .. L, k \in 1 .. Len(r) :
         SameCall(s[i], r[k]) => L + k - i = Pos(r[k]) - Pos(s[i]) /\ c < i
  BY Zenon DEF Follows, L
<1>7. \A i \in 1 .. L + m : i \in 1 .. L \/ \E k \in 1 .. m : i = L + k
  <2>1. ASSUME NEW i \in 1 .. L + m, i \notin 1 .. L
        PROVE  i - L \in 1 .. m /\ i = L + (i - L)
    BY <1>1, <1>2, <2>1
  <2> QED
    BY <2>1, Zenon
<1>8. \A k \in 1 .. m : k \in 1 .. Len(r) /\ t[L + k] = r[k]
  BY <1>1, <1>2, <1>3
<1>9. Contiguous(t)
  <2> SUFFICES ASSUME NEW i \in 1 .. L + m, NEW j \in 1 .. L + m, SameCall(t[i], t[j])
               PROVE  j - i = Pos(t[j]) - Pos(t[i])
    BY <1>3, Zenon DEF Contiguous
  <2>1. CASE i \in 1 .. L /\ j \in 1 .. L
    <3>1. t[i] = s[i] /\ t[j] = s[j]
      BY <1>3, <2>1, Zenon
    <3> QED
      BY <2>1, <3>1, Zenon DEF Contiguous, L
  <2>2. CASE i \in 1 .. L /\ \E k \in 1 .. m : j = L + k
    <3>1. PICK k \in 1 .. m : j = L + k
      BY <2>2, Zenon
    <3>2. t[i] = s[i] /\ t[j] = r[k] /\ k \in 1 .. Len(r)
      BY <1>3, <1>8, <2>2, <3>1, Zenon
    <3>3. L + k - i = Pos(r[k]) - Pos(s[i])
      BY <1>6, <2>2, <3>2, Zenon
    <3>4. Pos(t[i]) = Pos(s[i]) /\ Pos(t[j]) = Pos(r[k])
      BY <3>2, Zenon
    <3>5. L + k - i = j - i
      BY <1>1, <1>2, <3>1
    <3> QED
      BY <3>3, <3>4, <3>5, Zenon
  <2>3. CASE j \in 1 .. L /\ \E k \in 1 .. m : i = L + k
    <3>1. PICK k \in 1 .. m : i = L + k
      BY <2>3, Zenon
    <3>2. t[j] = s[j] /\ t[i] = r[k] /\ k \in 1 .. Len(r)
      BY <1>3, <1>8, <2>3, <3>1, Zenon
    <3>3. SameCall(s[j], r[k])
      BY <3>2, Zenon DEF SameCall
    <3>4. L + k - j = Pos(r[k]) - Pos(s[j])
      BY <1>6, <2>3, <3>2, <3>3, Zenon
    <3>5. Pos(r[k]) \in Nat /\ Pos(s[j]) \in Nat
      BY <1>4, <1>5, <2>3, <3>2, Zenon
    <3> DEFINE b == Pos(r[k])
               d == Pos(s[j])
    <3>6. L + k - j = b - d /\ b \in Nat /\ d \in Nat
      BY <3>4, <3>5, Zenon
    <3>7. j - (L + k) = Pos(s[j]) - Pos(r[k])
      <4>1. j \in Int /\ k \in Int /\ L \in Int
        BY <1>1, <1>2
      <4> HIDE DEF b, d, L
      <4>2. j - (L + k) = d - b
        BY <3>6, <4>1, SMTT(30)
      <4> QED
        BY <4>2, Zenon DEF b, d
    <3>8. Pos(t[j]) = Pos(s[j]) /\ Pos(t[i]) = Pos(r[k])
      BY <3>2, Zenon
    <3> QED
      BY <3>1, <3>7, <3>8, Zenon
  <2>4. CASE (\E k \in 1 .. m : i = L + k) /\ (\E k \in 1 .. m : j = L + k)
    <3>1. PICK k \in 1 .. m : i = L + k
      BY <2>4, Zenon
    <3>2. PICK l \in 1 .. m : j = L + l
      BY <2>4, Zenon
    <3>3. t[i] = r[k] /\ t[j] = r[l] /\ k \in 1 .. Len(r) /\ l \in 1 .. Len(r)
      BY <1>8, <3>1, <3>2, Zenon
    <3>4. Pos(r[l]) - Pos(r[k]) = l - k
      BY <3>3, Zenon DEF Consecutive
    <3>5. j - i = l - k
      BY <1>1, <1>2, <3>1, <3>2
    <3> QED
      BY <3>3, <3>4, <3>5, Zenon
  <2> QED
    BY <1>7, <2>1, <2>2, <2>3, <2>4, Zenon
<1>10. NotCut(t, c)
  <2> SUFFICES ASSUME NEW i \in 1 .. L + m, NEW j \in 1 .. L + m, i <= c, c < j
               PROVE  ~SameCall(t[i], t[j])
    BY <1>3, Zenon DEF NotCut
  <2>1. i \in 1 .. L /\ t[i] = s[i]
    BY <1>2, <1>3 DEF L
  <2>2. CASE j \in 1 .. L
    <3>1. t[j] = s[j]
      BY <1>3, <2>2, Zenon
    <3> QED
      BY <2>1, <2>2, <3>1, Zenon DEF NotCut, L
  <2>3. CASE \E k \in 1 .. m : j = L + k
    <3>1. PICK k \in 1 .. m : j = L + k
      BY <2>3, Zenon
    <3>2. t[j] = r[k] /\ k \in 1 .. Len(r)
      BY <1>8, <3>1, Zenon
    <3>3. ~(c < i)
      BY <2>1
    <3> QED
      BY <1>6, <2>1, <3>2, <3>3, Zenon
  <2> QED
    BY <1>7, <2>2, <2>3, Zenon
<1>11. Placed(t, c, r, m)
  <2>1. Len(t) - m = L
    BY <1>1, <1>2, <1>3
  <2>2. 0 <= L /\ c <= L
    BY <1>2 DEF L
  <2>3. Follows(t, L, c, r)
    BY <1>3, <1>6, Zenon DEF Follows
  <2>4. \A k \in 1 .. m : t[L + k] = r[k]
    BY <1>8, Zenon
  <2> QED
    BY <2>1, <2>2, <2>3, <2>4, Zenon DEF Placed
<1> QED
  BY <1>9, <1>10, <1>11, Zenon DEF q, t, m

\* Once the chunk is counted as sent, the rest of the slice follows the whole stream.
LEMMA CountedChunk ==
  ASSUME NEW s \in Seq(AppByte), NEW r \in Seq(AppByte), NEW n \in Nat, n <= Len(r),
         NEW c \in Nat \cup {-1}, Consecutive(r), Placed(s, c, r, n)
  PROVE  Consecutive(Drop(r, n)) /\ Follows(s, Len(s), c, Drop(r, n))
<1> DEFINE d == Drop(r, n)
           L == Len(s)
           b == L - n
<1>1. /\ d \in Seq(AppByte) /\ Len(d) = (IF n < Len(r) THEN Len(r) - n ELSE 0)
      /\ \A i \in 1 .. Len(d) : d[i] = r[n + i]
  BY DropFacts, Zenon
<1>2. L \in Nat /\ Len(r) \in Nat
  OBVIOUS
<1>3. /\ 0 <= b /\ c <= b
      /\ Follows(s, b, c, r)
      /\ \A k \in 1 .. n : s[b + k] = r[k]
  BY Zenon DEF Placed
<1> HIDE DEF d, L, b
<1>4. \A k \in 1 .. Len(d) : n + k \in 1 .. Len(r) /\ d[k] = r[n + k]
  BY <1>1, <1>2
<1>5. \A i \in 1 .. L : s[i] \in AppByte /\ Pos(s[i]) \in Nat
  BY ByteFacts DEF L
<1>6. \A k \in 1 .. Len(r) : r[k] \in AppByte /\ Pos(r[k]) \in Nat
  BY ByteFacts
<1>7. Consecutive(d)
  <2> SUFFICES ASSUME NEW k \in 1 .. Len(d), NEW l \in 1 .. Len(d)
               PROVE  Pos(d[l]) - Pos(d[k]) = l - k
    BY Zenon DEF Consecutive
  <2>1. Pos(r[n + l]) - Pos(r[n + k]) = (n + l) - (n + k)
    BY <1>4, Zenon DEF Consecutive
  <2>2. (n + l) - (n + k) = l - k
    BY <1>1, <1>2
  <2> QED
    BY <1>4, <2>1, <2>2, Zenon
<1>8. Follows(s, L, c, d)
  <2> SUFFICES ASSUME NEW i \in 1 .. L, NEW k \in 1 .. Len(d), SameCall(s[i], d[k])
               PROVE  L + k - i = Pos(d[k]) - Pos(s[i]) /\ c < i
    BY Zenon DEF Follows
  <2>0. k \in Nat /\ i \in Nat /\ b \in Int
    BY <1>1, <1>2 DEF b
  <2>1. CASE i \in 1 .. b
    <3>1. b + (n + k) - i = Pos(r[n + k]) - Pos(s[i]) /\ c < i
      BY <1>3, <1>4, <2>1, Zenon DEF Follows
    <3>2. b + (n + k) - i = L + k - i
      BY <1>2, <2>0 DEF b
    <3> QED
      BY <1>4, <3>1, <3>2, Zenon
  <2>2. CASE i \notin 1 .. b
    <3>0. 0 <= b /\ i <= b + n /\ 1 <= i
      BY <1>2, <1>3 DEF b
    <3>1. i - b \in 1 .. n /\ b + (i - b) = i /\ b < i
      BY <2>0, <2>2, <3>0
    <3>2. s[i] = r[i - b]
      BY <1>3, <3>1, Zenon
    <3>3. i - b \in 1 .. Len(r)
      BY <1>2, <3>1
    <3>4. Pos(r[n + k]) - Pos(r[i - b]) = (n + k) - (i - b)
      BY <1>4, <3>3, Zenon DEF Consecutive
    <3>5. (n + k) - (i - b) = L + k - i
      BY <1>2, <2>0 DEF b
    <3>6. c < i
      BY <1>3, <2>0, <3>1
    <3> QED
      BY <1>4, <3>2, <3>4, <3>5, <3>6, Zenon
  <2> QED
    BY <2>1, <2>2, Zenon
<1> QED
  BY <1>7, <1>8, Zenon DEF d, L

\* Handing out the first n bytes of d, and keeping the others.
LEMMA HandOut ==
  ASSUME NEW s, NEW x \in Seq(AppByte), NEW d \in Seq(AppByte), NEW n \in Nat,
         At(x, s, 0), At(d, s, Len(x))
  PROVE  LET y == x \o Take(d, n)
             z == Drop(d, n)
         IN  /\ y \in Seq(AppByte) /\ z \in Seq(AppByte)
             /\ Len(x) <= Len(y) /\ \A i \in 1 .. Len(x) : y[i] = x[i]
             /\ Len(y) + Len(z) = Len(x) + Len(d)
             /\ At(y, s, 0) /\ At(z, s, Len(y))
<1> DEFINE q == Take(d, n)
           y == x \o q
           z == Drop(d, n)
           m == Len(q)
           X == Len(x)
           D == Len(d)
<1>1. /\ q \in Seq(AppByte) /\ m \in Nat /\ m <= D /\ m = (IF n < D THEN n ELSE D)
      /\ \A i \in 1 .. m : q[i] = d[i]
  BY TakeFacts, Zenon
<1>2. /\ z \in Seq(AppByte) /\ Len(z) = (IF n < D THEN D - n ELSE 0)
      /\ \A i \in 1 .. Len(z) : z[i] = d[n + i]
  BY DropFacts, Zenon
<1>3. X \in Nat /\ D \in Nat
  OBVIOUS
<1> HIDE DEF q, z
<1>4. /\ y \in Seq(AppByte) /\ Len(y) = X + m
      /\ \A i \in 1 .. X : y[i] = x[i]
      /\ \A i \in 1 .. m : y[X + i] = q[i]
  <2>1. q \in Seq(AppByte)
    BY <1>1, Zenon
  <2>2. /\ x \o q \in Seq(AppByte) /\ Len(x \o q) = Len(x) + Len(q)
        /\ \A i \in 1 .. Len(x) : (x \o q)[i] = x[i]
        /\ \A i \in 1 .. Len(q) : (x \o q)[Len(x) + i] = q[i]
    BY <2>1, ConcatFacts
  <2> QED
    BY <2>2, Zenon
<1>5. \A i \in 1 .. X : x[i] = s[0 + i]
  BY Zenon DEF At
<1>6. \A i \in 1 .. D : d[i] = s[X + i]
  BY Zenon DEF At
<1> HIDE DEF y, m, X, D
<1>7. Len(y) + Len(z) = X + D /\ X <= Len(y)
  BY <1>1, <1>2, <1>3, <1>4, SMTT(30)
<1>8. At(y, s, 0)
  <2> SUFFICES ASSUME NEW i \in 1 .. X + m
               PROVE  y[i] = s[0 + i]
    BY <1>4, Zenon DEF At
  <2>1. CASE i \in 1 .. X
    BY <1>4, <1>5, <2>1, Zenon
  <2>2. CASE i \notin 1 .. X
    <3> DEFINE k == i - X
    <3>1. k \in 1 .. m /\ k \in 1 .. D /\ i = X + k /\ 0 + i = X + k
      BY <1>1, <1>3, <2>2
    <3> HIDE DEF k
    <3>2. y[i] = q[k] /\ q[k] = d[k] /\ d[k] = s[X + k]
      BY <1>1, <1>4, <1>6, <3>1, Zenon
    <3> QED
      BY <3>1, <3>2, Zenon
  <2> QED
    BY <2>1, <2>2, Zenon
<1>9. At(z, s, Len(y))
  <2> SUFFICES ASSUME NEW i \in 1 .. Len(z)
               PROVE  z[i] = s[Len(y) + i]
    BY Zenon DEF At
  <2>1. n < D
    BY <1>2
  <2>2. n + i \in 1 .. D /\ Len(y) + i = X + (n + i)
    BY <1>1, <1>2, <1>3, <1>4, <2>1
  <2> QED
    BY <1>2, <1>6, <2>2, Zenon
<1> QED
  BY <1>2, <1>4, <1>7, <1>8, <1>9, Zenon DEF q, y, z, X, D

\* The two ends.
LEMMA PeerFacts ==
  ASSUME NEW e \in End
  PROVE  /\ Peer(e) \in End /\ Peer(e) # e /\ Peer(Peer(e)) = e
         /\ \A d \in End : d = e \/ d = Peer(e)
BY Zenon DEF Peer, End

-----------------------------------------------------------------------------
(* Types *)

\* A goroutine's label.
LEMMA GotoType ==
  ASSUME TypeOK, NEW g \in Goroutine, NEW l \in Labels, Goto(g, l)
  PROVE  pc' \in [Goroutine -> Labels] /\ pc' = [pc EXCEPT ![g] = l]
BY Zenon DEF TypeOK, Goto, Set

\* Taking a unit off the wire.
LEMMA ConsumeType ==
  ASSUME TypeOK, NEW e \in End, Consume(e)
  PROVE  /\ Peer(e) \in End /\ wire[Peer(e)] # << >>
         /\ Head(wire[Peer(e)]) \in UnitType
         /\ wire' = [wire EXCEPT ![Peer(e)] = Tail(wire[Peer(e)])]
         /\ wire' \in [End -> Seq(UnitType)]
         /\ \A d \in End : Len(wire'[d]) <= BufCap
<1> DEFINE p == Peer(e)
<1>1. p \in End
  BY Zenon DEF Peer, End
<1>2. wire \in [End -> Seq(UnitType)] /\ wire[p] # << >>
  BY Zenon DEF TypeOK, Consume, RawReadOK
<1>3. \A d \in End : Len(wire[d]) <= BufCap
  BY Zenon DEF TypeOK
<1>4. wire' = [wire EXCEPT ![p] = Tail(wire[p])]
  BY Zenon DEF Consume, Set
<1>5. BufCap \in Nat
  BY ConnAssumption, Zenon
<1> HIDE DEF p
<1>6. /\ Tail(wire[p]) \in Seq(UnitType) /\ Len(Tail(wire[p])) = Len(wire[p]) - 1
      /\ Len(wire[p]) \in Nat /\ Head(wire[p]) \in UnitType
  BY <1>1, <1>2, SMTT(30)
<1>7. wire' \in [End -> Seq(UnitType)] /\ wire'[p] = Tail(wire[p])
      /\ \A d \in End : d # p => wire'[d] = wire[d]
  BY <1>1, <1>2, <1>4, <1>6, Zenon
<1>8. Len(wire'[p]) <= BufCap
  BY <1>1, <1>3, <1>5, <1>6, <1>7, SMTT(30)
<1>9. \A d \in End : Len(wire'[d]) <= BufCap
  BY <1>3, <1>7, <1>8, Zenon
<1> QED
  BY <1>1, <1>2, <1>4, <1>6, <1>7, <1>9, Zenon DEF p

\* The record Unseal opens is one the peer has sealed.
LEMMA OpenedRecord ==
  ASSUME TypeOK, Records, NEW g \in Reader, ReadRecord(g)
  PROVE  LET e == EndOf[g]
             p == Peer(e)
         IN  /\ e \in End /\ p \in End /\ e # p /\ Peer(p) = e
             /\ hdr[g] = inSeq[e] + 1 /\ inSeq[e] \in Nat
             /\ hdr[g] \in 1 .. Len(sealed[p]) /\ hdr[g] <= SeqMax
             /\ sealed[p] \in Seq(Record) /\ sealed[p][hdr[g]] \in Record
<1> DEFINE e == EndOf[g]
           p == Peer(e)
           u == Head(wire[p])
<1>1. e \in End /\ SeqMax \in Nat
  BY ConnAssumption, Zenon DEF Goroutine
<1>2. p \in End /\ e # p /\ Peer(p) = e
  BY <1>1, Zenon DEF Peer, End
<1>3. u \in UnitType /\ wire[p] # << >>
  BY <1>1, ConsumeType, Zenon DEF ReadRecord
<1>4. u = Unit("body", hdr[g]) /\ hdr[g] = inSeq[e] + 1
  BY Zenon DEF ReadRecord, UnsealOK
<1>5. u.rec = hdr[g]
  BY <1>4, SMTT(30) DEF Unit
<1>6. u.rec \in 1 .. SeqMax
  BY <1>3, Zenon DEF UnitType
<1>7. u.rec <= Len(sealed[p])
  <2>1. wire[p] \in Seq(UnitType)
    BY <1>2, Zenon DEF TypeOK
  <2>2. u = wire[p][1] /\ 1 \in 1 .. Len(wire[p])
    BY <1>3, <2>1, SMTT(30)
  <2> HIDE DEF u
  <2>3. wire[p][1].rec <= Len(sealed[p])
    BY <1>2, <2>2, Zenon DEF Records, WireSealed
  <2> QED
    BY <2>2, <2>3, Zenon
<1>8. inSeq[e] \in 0 .. SeqMax
  BY <1>1, Zenon DEF TypeOK
<1>9. sealed[p] \in Seq(Record)
  BY <1>2, Zenon DEF TypeOK, Record
<1> HIDE DEF e, p, u
<1>10. hdr[g] \in 1 .. Len(sealed[p]) /\ hdr[g] <= SeqMax /\ inSeq[e] \in Nat
  BY <1>1, <1>5, <1>6, <1>7, <1>8, <1>9, SMTT(30)
<1>11. sealed[p][hdr[g]] \in Record
  BY <1>9, <1>10, SMTT(30)
<1> QED
  BY <1>1, <1>2, <1>4, <1>9, <1>10, <1>11, Zenon DEF e, p

\* Every step keeps the types.
LEMMA TypeStep ==
  ASSUME TypeOK, Records, [Next]_vars
  PROVE  TypeOK'
<1>WriteCall.
      ASSUME NEW g \in Writer, WriteCall(g)
      PROVE  TypeOK'
  <2> USE <1>WriteCall
  <2>1. rest \in [Writer -> Seq(AppByte)]
    BY Zenon DEF TypeOK
  <2>2. calls \in [Writer -> 0 .. MaxCalls] /\ calls[g] < MaxCalls
    BY Zenon DEF TypeOK, WriteCall
  <2>3. PICK n \in WriteLen : rest' = [rest EXCEPT ![g] = Bytes(g, calls[g] + 1, n)]
    BY Zenon DEF WriteCall, Set
  <2>4. calls' = [calls EXCEPT ![g] = calls[g] + 1]
    BY Zenon DEF WriteCall, Set
  <2>5. n \in Nat /\ MaxCalls \in Nat
    BY ConnAssumption, Zenon
  <2>6. calls[g] + 1 \in 1 .. MaxCalls /\ calls[g] + 1 \in 0 .. MaxCalls
    BY <2>2, <2>5, SMTT(30)
  <2>7. Bytes(g, calls[g] + 1, n) \in Seq(AppByte)
    BY <2>5, <2>6, SMTT(30) DEF Bytes, AppByte
  <2>8. rest' \in [Writer -> Seq(AppByte)]
    BY <2>1, <2>3, <2>7, Zenon
  <2>9. calls' \in [Writer -> 0 .. MaxCalls]
    BY <2>2, <2>4, <2>6, Zenon
  <2>10. pc' \in [Goroutine -> Labels]
    BY GotoType, Zenon DEF WriteCall, Labels, Goroutine
  <2> QED
    BY <2>8, <2>9, <2>10, Zenon DEF WriteCall, TypeOK, muVars, cryptoVars, readerVars, rawVars

<1>WriteSeal.
      ASSUME NEW g \in Writer, WriteSeal(g)
      PROVE  TypeOK'
  <2> USE <1>WriteSeal
  <2> DEFINE e == EndOf[g]
             chunk == Take(rest[g], MaxPlaintextLength)
  <2>0. e \in End /\ g \in Goroutine /\ MaxPlaintextLength \in Nat /\ SeqMax \in Nat
    BY ConnAssumption, Zenon DEF Goroutine
  <2>1. rest \in [Writer -> Seq(AppByte)]
    BY Zenon DEF TypeOK
  <2>2. sealed \in [End -> Seq(Record)] /\ Len(sealed[e]) < SeqMax
    BY Zenon DEF TypeOK, Record, WriteSeal, CanSeal
  <2>3. sentBytes \in [End -> Seq(AppByte)]
    BY Zenon DEF TypeOK
  <2>4. pending \in [Writer \cup Closer -> Seq(UnitType)]
    BY Zenon DEF TypeOK
  <2>5. chunk \in Seq(AppByte)
    BY <2>0, <2>1, TakeFacts, Zenon
  <2>6. sealed' = [sealed EXCEPT ![e] = Append(sealed[e], AppData(chunk))]
    BY Zenon DEF WriteSeal, Set
  <2>7. sentBytes' = [sentBytes EXCEPT ![e] = sentBytes[e] \o chunk]
    BY Zenon DEF WriteSeal, Set
  <2>8. pending' = [pending EXCEPT ![g] = Units(Len(sealed[e]) + 1)]
    BY Zenon DEF WriteSeal, Set
  <2>9. AppData(chunk) \in Record
    BY <2>5, Zenon DEF AppData, Record
  <2> HIDE DEF chunk, e
  <2>10. sealed' \in [End -> Seq(Record)]
    BY <2>0, <2>2, <2>6, <2>9, SMTT(30)
  <2>11. sentBytes' \in [End -> Seq(AppByte)]
    BY <2>0, <2>3, <2>5, <2>7, SMTT(30)
  <2>12. Len(sealed[e]) + 1 \in 1 .. SeqMax
    BY <2>0, <2>2, SMTT(30)
  <2>13. Units(Len(sealed[e]) + 1) \in Seq(UnitType)
    BY <2>12, SMTT(30) DEF Units, Unit, UnitType
  <2>14. pending' \in [Writer \cup Closer -> Seq(UnitType)]
    BY <2>4, <2>8, <2>13, Zenon
  <2>15. pc' \in [Goroutine -> Labels]
    BY <2>0, GotoType, Zenon DEF WriteSeal, Labels
  <2> QED
    BY <2>10, <2>11, <2>14, <2>15, Zenon
    DEF WriteSeal, TypeOK, Record, muVars, cryptoVars, readerVars, rawVars

<1>WriteLock.
      ASSUME NEW g \in Writer, WriteLock(g)
      PROVE  TypeOK'
  <2> USE <1>WriteLock
  <2>1. EndOf[g] \in End
    BY ConnAssumption, Zenon DEF Goroutine
  <2>2. writeMu' \in [End -> Writer \cup Closer \cup {None}]
    BY <2>1, Zenon DEF WriteLock, TypeOK, Set
  <2>3. pc' \in [Goroutine -> Labels]
    BY GotoType, Zenon DEF WriteLock, Labels, Goroutine
  <2> QED
    BY <2>2, <2>3, Zenon DEF WriteLock, TypeOK, cryptoVars, readerVars, rawVars, localVars

<1>Put.
      ASSUME NEW g \in Writer \cup Closer, Put(g)
      PROVE  TypeOK'
  <2> USE <1>Put
  <2> DEFINE e == EndOf[g]
  <2>1. e \in End /\ BufCap \in Nat
    BY ConnAssumption, Zenon DEF Goroutine
  <2>2. wire \in [End -> Seq(UnitType)] /\ Len(wire[e]) < BufCap
    BY Zenon DEF TypeOK, Put, RawWriteOK
  <2>3. \A d \in End : Len(wire[d]) <= BufCap
    BY Zenon DEF TypeOK
  <2>4. pending \in [Writer \cup Closer -> Seq(UnitType)] /\ pending[g] # << >>
    BY Zenon DEF TypeOK, Put
  <2>5. wire' = [wire EXCEPT ![e] = Append(wire[e], Head(pending[g]))]
    BY Zenon DEF Put, Set
  <2>6. pending' = [pending EXCEPT ![g] = Tail(pending[g])]
    BY Zenon DEF Put, Set
  <2> HIDE DEF e
  <2>7. Head(pending[g]) \in UnitType /\ Tail(pending[g]) \in Seq(UnitType)
    BY <2>4, SMTT(30)
  <2>8. pending' \in [Writer \cup Closer -> Seq(UnitType)]
    BY <2>4, <2>6, <2>7, Zenon
  <2>9. wire' \in [End -> Seq(UnitType)] /\ Len(wire'[e]) = Len(wire[e]) + 1
    BY <2>1, <2>2, <2>5, <2>7, SMTT(30)
  <2>10. \A d \in End : Len(wire'[d]) <= BufCap
    BY <2>1, <2>2, <2>3, <2>5, <2>9, SMTT(30)
  <2> QED
    BY <2>8, <2>9, <2>10, Zenon DEF Put, TypeOK, muVars, cryptoVars, readerVars

<1>WriteChunkDone.
      ASSUME NEW g \in Writer, WriteChunkDone(g)
      PROVE  TypeOK'
  <2> USE <1>WriteChunkDone
  <2> DEFINE e == EndOf[g]
             chunk == Take(rest[g], MaxPlaintextLength)
  <2>1. e \in End /\ MaxPlaintextLength \in Nat
    BY ConnAssumption, Zenon DEF Goroutine
  <2>2. rest \in [Writer -> Seq(AppByte)]
    BY Zenon DEF TypeOK
  <2>3. acked \in [End -> Nat]
    BY Zenon DEF TypeOK
  <2>4. rest' = [rest EXCEPT ![g] = Drop(rest[g], Len(chunk))]
    BY Zenon DEF WriteChunkDone, Set
  <2>5. acked' = [acked EXCEPT ![e] = acked[e] + Len(chunk)]
    BY Zenon DEF WriteChunkDone, Set
  <2>6. Len(chunk) \in Nat
    BY <2>1, <2>2, TakeFacts, Zenon
  <2> HIDE DEF e, chunk
  <2>7. Drop(rest[g], Len(chunk)) \in Seq(AppByte)
    BY <2>2, <2>6, DropFacts, Zenon
  <2>8. rest' \in [Writer -> Seq(AppByte)]
    BY <2>2, <2>4, <2>7, Zenon
  <2>9. acked' \in [End -> Nat]
    BY <2>1, <2>3, <2>5, <2>6, SMTT(30)
  <2>10. pc' \in [Goroutine -> Labels]
    BY GotoType, Zenon DEF WriteChunkDone, Labels, Goroutine
  <2> QED
    BY <2>8, <2>9, <2>10, Zenon DEF WriteChunkDone, TypeOK, muVars, readerVars, rawVars

<1>WriteReturn.
      ASSUME NEW g \in Writer, WriteReturn(g)
      PROVE  TypeOK'
  <2> USE <1>WriteReturn
  <2>1. EndOf[g] \in End
    BY ConnAssumption, Zenon DEF Goroutine
  <2>2. writeMu' \in [End -> Writer \cup Closer \cup {None}]
    BY <2>1, Zenon DEF WriteReturn, TypeOK, Set
  <2>3. rest' \in [Writer -> Seq(AppByte)]
    <3>1. rest \in [Writer -> Seq(AppByte)] /\ rest' = [rest EXCEPT ![g] = << >>]
      BY Zenon DEF WriteReturn, TypeOK, Set
    <3> QED
      BY <3>1, SMTT(30)
  <2>4. pending' \in [Writer \cup Closer -> Seq(UnitType)]
    <3>1. /\ pending \in [Writer \cup Closer -> Seq(UnitType)]
          /\ pending' = [pending EXCEPT ![g] = << >>]
      BY Zenon DEF WriteReturn, TypeOK, Set
    <3> QED
      BY <3>1, SMTT(30)
  <2>5. pc' \in [Goroutine -> Labels]
    BY GotoType, Zenon DEF WriteReturn, Labels, Goroutine
  <2> QED
    BY <2>2, <2>3, <2>4, <2>5, Zenon DEF WriteReturn, TypeOK, cryptoVars, readerVars, rawVars

<1>ReadCall.
      ASSUME NEW g \in Reader, ReadCall(g)
      PROVE  TypeOK'
  <2> USE <1>ReadCall
  <2>1. ReadLen \subseteq Nat
    BY ConnAssumption, Zenon
  <2>2. size' \in [Reader -> Nat]
    BY <2>1, Zenon DEF ReadCall, TypeOK, Set
  <2>3. pc' \in [Goroutine -> Labels]
    BY GotoType, Zenon DEF ReadCall, Labels, Goroutine
  <2> QED
    BY <2>2, <2>3, Zenon DEF ReadCall, TypeOK, muVars, cryptoVars, readerVars, rawVars

<1>ReadDrain.
      ASSUME NEW g \in Reader, ReadDrain(g)
      PROVE  TypeOK'
  <2> USE <1>ReadDrain
  <2> DEFINE e == EndOf[g]
  <2>1. e \in End
    BY ConnAssumption, Zenon DEF Goroutine
  <2>2. readBuf \in [End -> Seq(AppByte)] /\ got \in [End -> Seq(AppByte)]
    BY Zenon DEF TypeOK
  <2>3. size[g] \in Nat
    BY Zenon DEF TypeOK
  <2>4. got' = [got EXCEPT ![e] = got[e] \o Take(readBuf[e], size[g])]
        /\ readBuf' = [readBuf EXCEPT ![e] = Drop(readBuf[e], size[g])]
    BY Zenon DEF ReadDrain, Set, Leftover
  <2> HIDE DEF e
  <2>5. /\ Take(readBuf[e], size[g]) \in Seq(AppByte)
        /\ Drop(readBuf[e], size[g]) \in Seq(AppByte)
    BY <2>1, <2>2, <2>3, TakeFacts, DropFacts, Zenon
  <2>6. got' \in [End -> Seq(AppByte)] /\ readBuf' \in [End -> Seq(AppByte)]
    BY <2>1, <2>2, <2>4, <2>5, SMTT(30)
  <2>7. pc' \in [Goroutine -> Labels]
    BY GotoType, Zenon DEF ReadDrain, Labels, Goroutine
  <2> QED
    BY <2>6, <2>7, Zenon DEF ReadDrain, TypeOK, muVars, cryptoVars, rawVars, localVars

<1>ReadLock.
      ASSUME NEW g \in Reader, ReadLock(g)
      PROVE  TypeOK'
  <2> USE <1>ReadLock
  <2>1. EndOf[g] \in End
    BY ConnAssumption, Zenon DEF Goroutine
  <2>2. readMu' \in [End -> Reader \cup {None}]
    BY <2>1, Zenon DEF ReadLock, TypeOK, Set
  <2>3. pc' \in [Goroutine -> Labels]
    BY GotoType, Zenon DEF ReadLock, Labels, Goroutine
  <2> QED
    BY <2>2, <2>3, Zenon DEF ReadLock, TypeOK, cryptoVars, readerVars, rawVars, localVars

\* Read unlocks readMu and forgets the header.
<1>ReadReturn.
      ASSUME NEW g \in Reader, ReadReturn(g)
      PROVE  /\ pc' \in [Goroutine -> Labels] /\ readMu' \in [End -> Reader \cup {None}]
             /\ hdr' \in [Reader -> 0 .. SeqMax]
  <2> USE <1>ReadReturn
  <2>1. EndOf[g] \in End /\ SeqMax \in Nat
    BY ConnAssumption, Zenon DEF Goroutine
  <2>2. readMu' \in [End -> Reader \cup {None}]
    BY <2>1, Zenon DEF ReadReturn, TypeOK, Set
  <2>3. hdr' \in [Reader -> 0 .. SeqMax]
    <3>1. hdr \in [Reader -> 0 .. SeqMax] /\ hdr' = [hdr EXCEPT ![g] = 0]
      BY Zenon DEF ReadReturn, TypeOK, Set
    <3> QED
      BY <2>1, <3>1, SMTT(30)
  <2>4. pc' \in [Goroutine -> Labels]
    BY GotoType, Zenon DEF ReadReturn, Labels, Goroutine
  <2> QED
    BY <2>2, <2>3, <2>4, Zenon

<1>ReadHeader.
      ASSUME NEW g \in Reader, ReadHeader(g)
      PROVE  TypeOK'
  <2> USE <1>ReadHeader
  <2> DEFINE e == EndOf[g]
             u == Head(wire[Peer(e)])
  <2>1. e \in End /\ SeqMax \in Nat
    BY ConnAssumption, Zenon DEF Goroutine
  <2>2. /\ u \in UnitType /\ wire' \in [End -> Seq(UnitType)]
        /\ \A d \in End : Len(wire'[d]) <= BufCap
    BY <2>1, ConsumeType, Zenon DEF ReadHeader
  <2>3. UNCHANGED <<rawOpen, readDL, writeDL>>
    BY Zenon DEF ReadHeader, Consume
  <2>4. hdr' \in [Reader -> 0 .. SeqMax]
    <3>1. hdr \in [Reader -> 0 .. SeqMax]
      BY Zenon DEF TypeOK
    <3>2. hdr' = [hdr EXCEPT ![g] = IF u.part = "header" THEN u.rec ELSE 0]
      BY Zenon DEF ReadHeader, Set
    <3>3. u.rec \in 0 .. SeqMax
      BY <2>1, <2>2, SMTT(30) DEF UnitType
    <3> HIDE DEF u
    <3> QED
      BY <2>1, <3>1, <3>2, <3>3, SMTT(30)
  <2>5. readMu' \in [End -> Reader \cup {None}]
    BY <2>1, Zenon DEF ReadHeader, TypeOK, Set
  <2>6. pc' \in [Goroutine -> Labels]
    BY GotoType, Zenon DEF ReadHeader, Labels, Goroutine
  <2> QED
    BY <2>2, <2>3, <2>4, <2>5, <2>6, Zenon DEF ReadHeader, TypeOK, cryptoVars, readerVars

<1>ReadRecord.
      ASSUME NEW g \in Reader, ReadRecord(g)
      PROVE  TypeOK'
  <2> USE <1>ReadRecord
  <2> DEFINE e == EndOf[g]
             r == sealed[Peer(e)][hdr[g]]
             more == r.type = "data" /\ r.data = << >>
  <2>1. /\ e \in End /\ hdr[g] = inSeq[e] + 1 /\ inSeq[e] \in Nat /\ hdr[g] <= SeqMax
        /\ r \in Record
    BY OpenedRecord, Zenon
  <2>2. SeqMax \in Nat
    BY ConnAssumption, Zenon
  <2>3. /\ wire' \in [End -> Seq(UnitType)] /\ \A d \in End : Len(wire'[d]) <= BufCap
    BY <2>1, ConsumeType, Zenon DEF ReadRecord
  <2>4. UNCHANGED <<rawOpen, readDL, writeDL>>
    BY Zenon DEF ReadRecord, Consume
  <2>5. inSeq' \in [End -> 0 .. SeqMax]
    <3>1. inSeq \in [End -> 0 .. SeqMax] /\ inSeq' = [inSeq EXCEPT ![e] = inSeq[e] + 1]
      BY Zenon DEF TypeOK, ReadRecord, Set
    <3>2. inSeq[e] + 1 \in 0 .. SeqMax
      BY <2>1, <2>2, SMTT(30)
    <3> QED
      BY <2>1, <3>1, <3>2, Zenon
  <2>6. /\ closeNotifyReceived' \in [End -> BOOLEAN] /\ eof' \in [End -> BOOLEAN]
    BY <2>1, Zenon DEF TypeOK, ReadRecord, Set
  <2>7. r.data \in Seq(AppByte)
    BY <2>1, Zenon DEF Record
  <2>8. got' \in [End -> Seq(AppByte)] /\ readBuf' \in [End -> Seq(AppByte)]
    <3>1. readBuf \in [End -> Seq(AppByte)] /\ got \in [End -> Seq(AppByte)]
      BY Zenon DEF TypeOK
    <3>2. size[g] \in Nat
      BY Zenon DEF TypeOK
    <3>3. got' = [got EXCEPT ![e] = got[e] \o Take(r.data, size[g])]
          /\ readBuf' = [readBuf EXCEPT ![e] = Drop(r.data, size[g])]
      BY Zenon DEF ReadRecord, Set, Leftover
    <3>4. Take(r.data, size[g]) \in Seq(AppByte) /\ Drop(r.data, size[g]) \in Seq(AppByte)
      BY <2>7, <3>2, TakeFacts, DropFacts, Zenon
    <3> HIDE DEF r, e
    <3> QED
      BY <2>1, <3>1, <3>3, <3>4, SMTT(30)
  <2>9. /\ pc' \in [Goroutine -> Labels] /\ readMu' \in [End -> Reader \cup {None}]
        /\ hdr' \in [Reader -> 0 .. SeqMax]
    <3>1. CASE more
      <4>1. Goto(g, "read header") /\ UNCHANGED <<readMu, hdr>>
        BY <3>1, Zenon DEF ReadRecord
      <4> QED
        BY <4>1, GotoType, Zenon DEF TypeOK, Labels, Goroutine
    <3>2. CASE ~more
      <4>1. ReadReturn(g)
        BY <3>2, Zenon DEF ReadRecord
      <4> QED
        BY <4>1, <1>ReadReturn, Zenon
    <3> QED
      BY <3>1, <3>2, Zenon
  <2> QED
    BY <2>3, <2>4, <2>5, <2>6, <2>8, <2>9, Zenon DEF ReadRecord, TypeOK, cryptoVars

<1>ReadEnds.
      ASSUME NEW g \in Reader, ReadUnsealFails(g) \/ ReadEOF(g) \/ ReadFail(g)
      PROVE  TypeOK'
  <2> USE <1>ReadEnds
  <2>1. EndOf[g] \in End
    BY ConnAssumption, Zenon DEF Goroutine
  <2>2. ReadReturn(g)
    BY Zenon DEF ReadUnsealFails, ReadEOF, ReadFail
  <2>3. /\ pc' \in [Goroutine -> Labels] /\ readMu' \in [End -> Reader \cup {None}]
        /\ hdr' \in [Reader -> 0 .. SeqMax]
    BY <2>2, <1>ReadReturn, Zenon
  <2>4. CASE ReadUnsealFails(g)
    <3>1. /\ wire' \in [End -> Seq(UnitType)] /\ \A d \in End : Len(wire'[d]) <= BufCap
      BY <2>1, <2>4, ConsumeType, Zenon DEF ReadUnsealFails
    <3>2. UNCHANGED <<rawOpen, readDL, writeDL>>
      BY <2>4, Zenon DEF ReadUnsealFails, Consume
    <3> QED
      BY <2>3, <2>4, <3>1, <3>2, Zenon DEF ReadUnsealFails, TypeOK, cryptoVars, readerVars
  <2>5. CASE ReadEOF(g)
    <3>1. eof' \in [End -> BOOLEAN]
      BY <2>1, <2>5, Zenon DEF ReadEOF, TypeOK, Set
    <3> QED
      BY <2>3, <2>5, <3>1, Zenon DEF ReadEOF, TypeOK, cryptoVars, rawVars
  <2>6. CASE ReadFail(g)
    BY <2>3, <2>6, Zenon DEF ReadFail, TypeOK, cryptoVars, readerVars, rawVars
  <2> QED
    BY <2>4, <2>5, <2>6, Zenon

<1>CloseSeal.
      ASSUME NEW g \in Closer, CloseSeal(g)
      PROVE  TypeOK'
  <2> USE <1>CloseSeal
  <2> DEFINE e == EndOf[g]
  <2>1. e \in End /\ SeqMax \in Nat
    BY ConnAssumption, Zenon DEF Goroutine
  <2>2. sealed \in [End -> Seq(Record)] /\ sentBytes \in [End -> Seq(AppByte)]
    BY Zenon DEF TypeOK, Record
  <2>3. sealed' \in [End -> Seq(Record)]
    <3>1. CloseNotify \in Record
      BY SMTT(30) DEF CloseNotify, Record
    <3>2. sealed' = [sealed EXCEPT ![e] = Append(sealed[e], CloseNotify)]
      BY Zenon DEF CloseSeal, Set
    <3>3. Append(sealed[e], CloseNotify) \in Seq(Record)
      BY <2>1, <2>2, <3>1, SMTT(30)
    <3> HIDE DEF e
    <3> QED
      BY <2>1, <2>2, <3>2, <3>3, Zenon
  <2>4. closeAt' \in [End -> Nat \cup {-1}]
    <3>1. closeAt \in [End -> Nat \cup {-1}] /\ closeAt' = [closeAt EXCEPT ![e] = Len(sentBytes[e])]
      BY Zenon DEF TypeOK, CloseSeal, Set
    <3>2. Len(sentBytes[e]) \in Nat
      BY <2>1, <2>2, SMTT(30)
    <3> QED
      BY <2>1, <3>1, <3>2, Zenon
  <2>5. pending' \in [Writer \cup Closer -> Seq(UnitType)]
    <3>1. pending \in [Writer \cup Closer -> Seq(UnitType)]
      BY Zenon DEF TypeOK
    <3>2. pending' = [pending EXCEPT ![g] = Units(Len(sealed[e]) + 1)]
      BY Zenon DEF CloseSeal, Set
    <3>3. Len(sealed[e]) < SeqMax
      BY Zenon DEF CloseSeal, CanSeal
    <3>4. Len(sealed[e]) + 1 \in 1 .. SeqMax
      BY <2>1, <2>2, <3>3, SMTT(30)
    <3> DEFINE m == Len(sealed[e]) + 1
    <3> HIDE DEF m
    <3>5. Unit("header", m) \in UnitType /\ Unit("body", m) \in UnitType
      BY <3>4, Zenon DEF Unit, UnitType, m
    <3>6. Units(m) \in Seq(UnitType)
      BY <3>5, SMTT(30) DEF Units
    <3>7. pending' = [pending EXCEPT ![g] = Units(m)]
      BY <3>2, Zenon DEF m
    <3> QED
      BY <3>1, <3>6, <3>7, Zenon
  <2>6. writeMu' \in [End -> Writer \cup Closer \cup {None}]
    BY <2>1, Zenon DEF CloseSeal, TypeOK, Set
  <2>7. writeDL' \in [End -> {"none", "armed", "expired"}]
    BY <2>1, Zenon DEF CloseSeal, TypeOK, Set
  <2>8. pc' \in [Goroutine -> Labels]
    BY GotoType, Zenon DEF CloseSeal, Labels, Goroutine
  <2> QED
    BY <2>3, <2>4, <2>5, <2>6, <2>7, <2>8, Zenon DEF CloseSeal, TypeOK, Record, readerVars

<1>CloseRest.
      ASSUME NEW g \in Closer,
             CloseCall(g) \/ CloseNotifyDone(g) \/ CloseRaw(g) \/ CloseWait(g)
      PROVE  TypeOK'
  <2> USE <1>CloseRest
  <2>1. EndOf[g] \in End
    BY ConnAssumption, Zenon DEF Goroutine
  <2>2. pc' \in [Goroutine -> Labels]
    BY GotoType, Zenon DEF CloseCall, CloseNotifyDone, CloseRaw, CloseWait, Labels, Goroutine
  <2>3. CASE CloseCall(g)
    <3>1. once' \in [End -> {"new", "running", "done"}]
      <4>1. once' = [once EXCEPT ![EndOf[g]] = "running"] \/ once' = once
        BY <2>3, Zenon DEF CloseCall, Set
      <4>2. once \in [End -> {"new", "running", "done"}]
        BY Zenon DEF TypeOK
      <4> QED
        BY <2>1, <4>1, <4>2, Zenon
    <3> QED
      BY <2>2, <2>3, <3>1, Zenon
      DEF CloseCall, TypeOK, cryptoVars, readerVars, rawVars, localVars
  <2>4. CASE CloseNotifyDone(g)
    <3>1. writeMu' \in [End -> Writer \cup Closer \cup {None}]
      BY <2>1, <2>4, Zenon DEF CloseNotifyDone, TypeOK, Set
    <3>2. pending' \in [Writer \cup Closer -> Seq(UnitType)]
      <4>1. /\ pending \in [Writer \cup Closer -> Seq(UnitType)]
            /\ pending' = [pending EXCEPT ![g] = << >>]
        BY <2>4, Zenon DEF CloseNotifyDone, TypeOK, Set
      <4> QED
        BY <4>1, SMTT(30)
    <3> QED
      BY <2>2, <2>4, <3>1, <3>2, Zenon
      DEF CloseNotifyDone, TypeOK, cryptoVars, readerVars, rawVars
  <2>5. CASE CloseRaw(g)
    <3>1. once' \in [End -> {"new", "running", "done"}]
      BY <2>1, <2>5, Zenon DEF CloseRaw, TypeOK, Set
    <3>2. rawOpen' \in [End -> BOOLEAN]
      BY <2>1, <2>5, Zenon DEF CloseRaw, TypeOK, Set
    <3> QED
      BY <2>2, <2>5, <3>1, <3>2, Zenon DEF CloseRaw, TypeOK, cryptoVars, readerVars, localVars
  <2>6. CASE CloseWait(g)
    BY <2>2, <2>6, Zenon
    DEF CloseWait, TypeOK, muVars, cryptoVars, readerVars, rawVars, localVars
  <2> QED
    BY <2>3, <2>4, <2>5, <2>6, Zenon

<1>RawStep.
      ASSUME NEW e \in End, RawStep(e)
      PROVE  TypeOK'
  <2> USE <1>RawStep
  <2>1. CASE Break(e)
    <3>1. rawOpen' \in [End -> BOOLEAN]
      BY <2>1, Zenon DEF Break, TypeOK, Set
    <3>2. PICK n \in 0 .. Len(wire[e]) : wire' = [wire EXCEPT ![e] = Take(wire[e], n)]
      BY <2>1, Zenon DEF Break, Set
    <3>3. /\ wire \in [End -> Seq(UnitType)] /\ \A d \in End : Len(wire[d]) <= BufCap
          /\ BufCap \in Nat
      BY ConnAssumption, Zenon DEF TypeOK
    <3>4. n \in Nat /\ wire[e] \in Seq(UnitType) /\ Len(wire[e]) \in Nat
      BY <3>3, SMTT(30)
    <3>5. /\ Take(wire[e], n) \in Seq(UnitType) /\ Len(Take(wire[e], n)) \in Nat
          /\ Len(Take(wire[e], n)) <= Len(wire[e])
      BY <3>4, TakeFacts, Zenon
    <3>6. Len(Take(wire[e], n)) <= BufCap
      BY <3>3, <3>4, <3>5, SMTT(30)
    <3>7. wire' \in [End -> Seq(UnitType)] /\ \A d \in End : Len(wire'[d]) <= BufCap
      BY <3>2, <3>3, <3>5, <3>6, Zenon
    <3> QED
      BY <2>1, <3>1, <3>7, Zenon DEF Break, TypeOK, muVars, cryptoVars, readerVars, localVars
  <2>2. CASE SetReadDeadline(e) \/ ReadExpire(e)
    <3>1. readDL' \in [End -> {"none", "armed", "expired"}]
      BY <2>2, Zenon DEF SetReadDeadline, ReadExpire, TypeOK, Set
    <3> QED
      BY <2>2, <3>1, Zenon
      DEF SetReadDeadline, ReadExpire, TypeOK, muVars, cryptoVars, readerVars, localVars
  <2>3. CASE SetWriteDeadline(e) \/ WriteExpire(e)
    <3>1. writeDL' \in [End -> {"none", "armed", "expired"}]
      BY <2>3, Zenon DEF SetWriteDeadline, WriteExpire, TypeOK, Set
    <3> QED
      BY <2>3, <3>1, Zenon
      DEF SetWriteDeadline, WriteExpire, TypeOK, muVars, cryptoVars, readerVars, localVars
  <2> QED
    BY <2>1, <2>2, <2>3, Zenon DEF RawStep
<1> QED
  <2>1. CASE \E g \in Writer : WriteCall(g) \/ WriteLock(g) \/ WriteStep(g)
    BY <2>1, <1>WriteCall, <1>WriteLock, <1>WriteSeal, <1>Put,
       <1>WriteChunkDone, <1>WriteReturn, Zenon
    DEF WriteStep
  <2>2. CASE \E g \in Reader : ReadCall(g) \/ ReadDrain(g) \/ ReadLock(g) \/ ReadStep(g)
    BY <2>2, <1>ReadCall, <1>ReadDrain, <1>ReadLock, <1>ReadHeader,
       <1>ReadRecord, <1>ReadEnds, Zenon
    DEF ReadStep
  <2>3. CASE \E g \in Closer : CloseCall(g) \/ CloseSeal(g) \/ CloseNotifyDone(g) \/ CloseStep(g)
    BY <2>3, <1>CloseSeal, <1>Put, <1>CloseRest, Zenon DEF CloseStep
  <2>4. CASE \E e \in End : RawStep(e)
    BY <2>4, <1>RawStep, Zenon
  <2>5. CASE UNCHANGED vars
    BY <2>5, Zenon DEF vars, TypeOK, muVars, cryptoVars, readerVars, rawVars, localVars
  <2> QED
    BY <2>1, <2>2, <2>3, <2>4, <2>5, Zenon DEF Next, RawStep

-----------------------------------------------------------------------------
(* The mutexes and closeOnce *)

\* Every step keeps the mutexes with their holders and runs closeOnce once.
LEMMA LocksStep ==
  ASSUME TypeOK, Locks, [Next]_vars
  PROVE  Locks'

\* A step that leaves a mutex alone and does not move into its critical section
\* keeps what is known of it.
<1>WriteMuFrame.
      ASSUME WriteMuHeld, NEW g \in Goroutine, NEW l \in Labels \ SealLabel,
             Goto(g, l), writeMu' = writeMu
      PROVE  WriteMuHeld'
  <2> USE <1>WriteMuFrame
  <2>1. pc' = [pc EXCEPT ![g] = l] /\ pc \in [Goroutine -> Labels]
    BY GotoType, Zenon DEF TypeOK
  <2> QED
    BY <2>1, Zenon DEF WriteMuHeld

<1>ReadMuFrame.
      ASSUME ReadMuHeld, NEW g \in Goroutine, NEW l \in Labels \ ReadLabel,
             Goto(g, l), readMu' = readMu, readBuf' = readBuf
      PROVE  ReadMuHeld'
  <2> USE <1>ReadMuFrame
  <2>1. pc' = [pc EXCEPT ![g] = l] /\ pc \in [Goroutine -> Labels]
    BY GotoType, Zenon DEF TypeOK
  <2> QED
    BY <2>1, Zenon DEF ReadMuHeld

<1>CloseOnceFrame.
      ASSUME CloseOnce, NEW g \in Goroutine, NEW l \in Labels \ CloseLabel,
             Goto(g, l), once' = once, closeAt' = closeAt
      PROVE  CloseOnce'
  <2> USE <1>CloseOnceFrame
  <2>1. pc' = [pc EXCEPT ![g] = l] /\ pc \in [Goroutine -> Labels]
    BY GotoType, Zenon DEF TypeOK
  <2>2. "close lock" \in CloseLabel
    BY Zenon DEF CloseLabel
  <2> QED
    BY <2>1, <2>2, Zenon DEF CloseOnce

<1>Frame.
      ASSUME UNCHANGED <<muVars, pc, readBuf, closeAt>>
      PROVE  Locks'
  BY <1>Frame, Zenon DEF Locks, WriteMuHeld, ReadMuHeld, CloseOnce, muVars

\* Unlocking a mutex the goroutine holds, or one that was free.
<1>WriteUnlock.
      ASSUME WriteMuHeld, NEW g \in Goroutine, NEW l \in Labels \ SealLabel,
             Goto(g, l), writeMu' = Set(writeMu, EndOf[g], None),
             pc[g] \in SealLabel \/ writeMu[EndOf[g]] = None
      PROVE  WriteMuHeld'
  <2> USE <1>WriteUnlock
  <2>1. pc' = [pc EXCEPT ![g] = l] /\ pc \in [Goroutine -> Labels]
    BY GotoType, Zenon DEF TypeOK
  <2>2. writeMu' = [writeMu EXCEPT ![EndOf[g]] = None] /\ DOMAIN writeMu = End
    BY Zenon DEF Set, TypeOK
  <2>3. None \notin Goroutine /\ EndOf \in [Goroutine -> End]
    BY ConnAssumption, Zenon
  <2> QED
    BY <2>1, <2>2, <2>3, Zenon DEF WriteMuHeld

<1>WriteTake.
      ASSUME WriteMuHeld, NEW g \in Goroutine, NEW l \in SealLabel,
             Goto(g, l), writeMu' = Set(writeMu, EndOf[g], g), writeMu[EndOf[g]] = None
      PROVE  WriteMuHeld'
  <2> USE <1>WriteTake
  <2>0. l \in Labels
    BY Zenon DEF SealLabel, Labels
  <2>1. pc' = [pc EXCEPT ![g] = l] /\ pc \in [Goroutine -> Labels]
    BY <2>0, GotoType, Zenon DEF TypeOK
  <2>2. writeMu' = [writeMu EXCEPT ![EndOf[g]] = g] /\ DOMAIN writeMu = End
    BY Zenon DEF Set, TypeOK
  <2>3. None \notin Goroutine /\ EndOf \in [Goroutine -> End]
    BY ConnAssumption, Zenon
  <2>4. ASSUME NEW h \in Goroutine, pc'[h] \in SealLabel
        PROVE  writeMu'[EndOf[h]] = h
    <3>1. CASE h = g
      BY <2>2, <2>3, <3>1, Zenon
    <3>2. CASE h # g
      <4>1. pc'[h] = pc[h]
        BY <2>1, <3>2, Zenon
      <4>2. writeMu[EndOf[h]] = h /\ h # None
        BY <2>3, <2>4, <4>1, Zenon DEF WriteMuHeld
      <4>3. EndOf[h] # EndOf[g] /\ EndOf[h] \in End
        BY <2>3, <4>2, Zenon
      <4> QED
        BY <2>2, <4>2, <4>3, Zenon
    <3> QED
      BY <3>1, <3>2, Zenon
  <2> QED
    BY <2>4, Zenon DEF WriteMuHeld

<1>ReadUnlock.
      ASSUME ReadMuHeld, NEW g \in Goroutine, ReadReturn(g), pc[g] \in ReadLabel
      PROVE  /\ \A h \in Goroutine : pc'[h] \in ReadLabel =>
                  pc[h] = pc'[h] /\ EndOf[h] # EndOf[g] /\ readMu'[EndOf[h]] = h
  <2> USE <1>ReadUnlock
  <2>1. pc' = [pc EXCEPT ![g] = "idle"] /\ pc \in [Goroutine -> Labels]
    BY GotoType, Zenon DEF TypeOK, ReadReturn, Labels
  <2>2. readMu' = [readMu EXCEPT ![EndOf[g]] = None] /\ DOMAIN readMu = End
    BY Zenon DEF Set, TypeOK, ReadReturn
  <2>3. None \notin Goroutine /\ EndOf \in [Goroutine -> End]
    BY ConnAssumption, Zenon
  <2>4. "idle" \notin ReadLabel
    BY Zenon DEF ReadLabel
  <2> QED
    BY <2>1, <2>2, <2>3, <2>4, SMTT(30) DEF ReadMuHeld

<1>Writer.
      ASSUME NEW g \in Writer,
             WriteCall(g) \/ WriteLock(g) \/ WriteSeal(g) \/ WriteChunkDone(g) \/ WriteReturn(g)
      PROVE  Locks'
  <2> USE <1>Writer
  <2>1. g \in Goroutine
    BY Zenon DEF Goroutine
  <2>2. readMu' = readMu /\ readBuf' = readBuf /\ once' = once /\ closeAt' = closeAt
    BY Zenon
    DEF WriteCall, WriteLock, WriteSeal, WriteChunkDone, WriteReturn, muVars, cryptoVars,
           readerVars
  <2>3. \E l \in WriteLabel \cup {"idle"} : Goto(g, l)
    BY Zenon DEF WriteCall, WriteLock, WriteSeal, WriteChunkDone, WriteReturn, WriteLabel
  <2>4. ReadMuHeld'
    BY <2>1, <2>2, <2>3, <1>ReadMuFrame, Zenon DEF Locks, WriteLabel, ReadLabel, Labels
  <2>5. CloseOnce'
    BY <2>1, <2>2, <2>3, <1>CloseOnceFrame, Zenon DEF Locks, WriteLabel, CloseLabel, Labels
  <2>6. WriteMuHeld'
    <3>1. CASE WriteCall(g)
      BY <2>1, <3>1, <1>WriteMuFrame, Zenon DEF Locks, WriteCall, muVars, SealLabel, Labels
    <3>2. CASE WriteLock(g)
      BY <2>1, <3>2, <1>WriteTake, Zenon DEF Locks, WriteLock, SealLabel
    <3>3. CASE WriteSeal(g) \/ WriteChunkDone(g)
      <4>1. pc[g] \in SealLabel /\ writeMu' = writeMu
        BY <3>3, Zenon DEF WriteSeal, WriteChunkDone, muVars, SealLabel
      <4>2. \E l \in Labels : Goto(g, l)
        BY <3>3, Zenon DEF WriteSeal, WriteChunkDone, Labels
      <4>3. \E l \in Labels : pc' = [pc EXCEPT ![g] = l]
        BY <2>1, <4>2, GotoType, Zenon
      <4>4. pc \in [Goroutine -> Labels] /\ WriteMuHeld
        BY Zenon DEF TypeOK, Locks
      <4> QED
        BY <4>1, <4>3, <4>4, Zenon DEF WriteMuHeld
    <3>4. CASE WriteReturn(g)
      BY <2>1, <3>4, <1>WriteUnlock, Zenon DEF Locks, WriteReturn, SealLabel, Labels
    <3> QED
      BY <3>1, <3>2, <3>3, <3>4, Zenon
  <2> QED
    BY <2>4, <2>5, <2>6, Zenon DEF Locks

<1>Reader.
      ASSUME NEW g \in Reader,
             ReadCall(g) \/ ReadDrain(g) \/ ReadLock(g) \/ ReadStep(g)
      PROVE  Locks'
  <2> USE <1>Reader
  <2>1. g \in Goroutine /\ EndOf \in [Goroutine -> End] /\ None \notin Goroutine
    BY ConnAssumption, Zenon DEF Goroutine
  <2>2. writeMu' = writeMu /\ once' = once /\ closeAt' = closeAt
    BY Zenon
    DEF ReadCall, ReadDrain, ReadLock, ReadStep, ReadHeader, ReadRecord, ReadUnsealFails,
           ReadEOF, ReadFail, muVars, cryptoVars
  <2>3. \E l \in ReadLabel \cup {"idle", "read lock"} : Goto(g, l)
    BY Zenon
    DEF ReadCall, ReadDrain, ReadLock, ReadStep, ReadHeader, ReadRecord, ReadUnsealFails,
           ReadEOF, ReadFail, ReadReturn, ReadLabel
  <2>4. WriteMuHeld'
    BY <2>1, <2>2, <2>3, <1>WriteMuFrame, Zenon DEF Locks, SealLabel, ReadLabel, Labels
  <2>5. CloseOnce'
    BY <2>1, <2>2, <2>3, <1>CloseOnceFrame, Zenon DEF Locks, ReadLabel, CloseLabel, Labels
  <2>6. ReadMuHeld /\ pc \in [Goroutine -> Labels] /\ DOMAIN readMu = End /\ DOMAIN readBuf = End
    BY Zenon DEF Locks, TypeOK
  <2>7. ReadMuHeld'
    <3>1. CASE ReadCall(g)
      BY <2>1, <2>6, <3>1, <1>ReadMuFrame, Zenon
      DEF ReadCall, muVars, readerVars, ReadLabel, Labels
    <3>2. CASE ReadDrain(g)
      <4>1. pc' = [pc EXCEPT ![g] = "idle"]
        BY <2>1, <3>2, GotoType, Zenon DEF ReadDrain, Labels
      <4>2. readMu' = readMu /\ readMu[EndOf[g]] = None
        BY <3>2, Zenon DEF ReadDrain, muVars
      <4>3. \A e \in End \ {EndOf[g]} : readBuf'[e] = readBuf[e]
        BY <2>6, <3>2, Zenon DEF ReadDrain, Set
      <4>4. "idle" \notin ReadLabel
        BY Zenon DEF ReadLabel
      <4>5. ASSUME NEW h \in Goroutine, pc'[h] \in ReadLabel
            PROVE  readMu'[EndOf[h]] = h /\ readBuf'[EndOf[h]] = << >>
        <5>1. h # g /\ pc[h] \in ReadLabel
          BY <2>1, <2>6, <4>1, <4>4, <4>5, Zenon
        <5>2. readMu[EndOf[h]] = h /\ readBuf[EndOf[h]] = << >>
          BY <2>6, <5>1, Zenon DEF ReadMuHeld
        <5>3. EndOf[h] # EndOf[g] /\ EndOf[h] \in End
          BY <2>1, <4>2, <5>2, Zenon
        <5> QED
          BY <4>2, <4>3, <5>2, <5>3, Zenon
      <4> QED
        BY <4>5, Zenon DEF ReadMuHeld
    <3>3. CASE ReadLock(g)
      <4>1. pc' = [pc EXCEPT ![g] = "read header"]
        BY <2>1, <3>3, GotoType, Zenon DEF ReadLock, Labels
      <4>2. /\ readMu' = [readMu EXCEPT ![EndOf[g]] = g] /\ readMu[EndOf[g]] = None
            /\ readBuf[EndOf[g]] = << >> /\ readBuf' = readBuf
        BY <3>3, Zenon DEF ReadLock, readerVars, Set
      <4> QED
        BY <2>1, <2>6, <4>1, <4>2, Zenon DEF ReadMuHeld, ReadLabel
    <3>4. ASSUME ReadReturn(g), pc[g] \in ReadLabel,
                 \A e \in End \ {EndOf[g]} : readBuf'[e] = readBuf[e]
          PROVE  ReadMuHeld'
      <4>1. \A h \in Goroutine : pc'[h] \in ReadLabel =>
               pc[h] = pc'[h] /\ EndOf[h] # EndOf[g] /\ readMu'[EndOf[h]] = h
        BY <2>1, <2>6, <3>4, <1>ReadUnlock, Zenon
      <4> QED
        BY <2>1, <2>6, <3>4, <4>1, Zenon DEF ReadMuHeld
    <3>5. ASSUME NEW l \in ReadLabel, Goto(g, l), pc[g] \in ReadLabel,
                 readMu' = readMu, readBuf' = readBuf
          PROVE  ReadMuHeld'
      <4>0. l \in Labels
        BY Zenon DEF ReadLabel, Labels
      <4>1. pc' = [pc EXCEPT ![g] = l]
        BY <2>1, <3>5, <4>0, GotoType, Zenon
      <4> QED
        BY <2>6, <3>5, <4>1, Zenon DEF ReadMuHeld
    <3>6. CASE ReadHeader(g)
      <4>1. pc[g] \in ReadLabel /\ readBuf' = readBuf
        BY <3>6, Zenon DEF ReadHeader, ReadLabel, readerVars
      <4>2. CASE Goto(g, "read body") /\ readMu' = readMu
        BY <3>5, <4>1, <4>2, Zenon DEF ReadLabel
      <4>3. CASE Goto(g, "idle") /\ readMu' = Set(readMu, EndOf[g], None)
        <5>1. pc' = [pc EXCEPT ![g] = "idle"]
          BY <2>1, <4>3, GotoType, Zenon DEF Labels
        <5>2. readMu' = [readMu EXCEPT ![EndOf[g]] = None]
          BY <4>3, Zenon DEF Set
        <5>3. "idle" \notin ReadLabel
          BY Zenon DEF ReadLabel
        <5> QED
          BY <2>1, <2>6, <4>1, <5>1, <5>2, <5>3, Zenon DEF ReadMuHeld
      <4> QED
        BY <3>6, <4>2, <4>3, Zenon DEF ReadHeader
    <3>7. CASE ReadRecord(g)
      <4>1. pc[g] \in ReadLabel
        BY <3>7, Zenon DEF ReadRecord, ReadLabel
      <4> DEFINE r == sealed[Peer(EndOf[g])][hdr[g]]
      <4>2. \A e \in End \ {EndOf[g]} : readBuf'[e] = readBuf[e]
        BY <2>6, <3>7, Zenon DEF ReadRecord, Set
      <4>3. CASE r.type = "data" /\ r.data = << >>
        <5>1. Goto(g, "read header") /\ readMu' = readMu
          BY <3>7, <4>3, Zenon DEF ReadRecord
        <5>2. readBuf[EndOf[g]] = << >>
          BY <2>1, <2>6, <4>1, Zenon DEF ReadMuHeld
        <5>3. readBuf' = [readBuf EXCEPT ![EndOf[g]] = Drop(<< >>, size[g])]
          BY <3>7, <4>3, Zenon DEF ReadRecord, Set, Leftover
        <5>4. size[g] \in Nat
          BY Zenon DEF TypeOK
        <5>5. Drop(<< >>, size[g]) = << >>
          BY <5>4, SMTT(30) DEF Drop
        <5>6. readBuf' = readBuf
          BY <2>1, <2>6, <5>2, <5>3, <5>5, Zenon DEF TypeOK
        <5> QED
          BY <3>5, <4>1, <5>1, <5>6, Zenon DEF ReadLabel
      <4>4. CASE ~(r.type = "data" /\ r.data = << >>)
        <5>1. ReadReturn(g)
          BY <3>7, <4>4, Zenon DEF ReadRecord
        <5> QED
          BY <3>4, <4>1, <4>2, <5>1, Zenon
      <4> QED
        BY <4>3, <4>4, Zenon
    <3>8. CASE ReadUnsealFails(g) \/ ReadEOF(g) \/ ReadFail(g)
      <4>1. pc[g] \in ReadLabel /\ ReadReturn(g) /\ readBuf' = readBuf
        BY <3>8, Zenon DEF ReadUnsealFails, ReadEOF, ReadFail, ReadLabel, readerVars
      <4> QED
        BY <3>4, <4>1, Zenon
    <3> QED
      BY <3>1, <3>2, <3>3, <3>6, <3>7, <3>8, Zenon DEF ReadStep
  <2> QED
    BY <2>4, <2>5, <2>7, Zenon DEF Locks

<1>Closer.
      ASSUME NEW g \in Closer,
             CloseCall(g) \/ CloseSeal(g) \/ CloseNotifyDone(g) \/ CloseRaw(g) \/ CloseWait(g)
      PROVE  Locks'
  <2> USE <1>Closer
  <2>1. g \in Goroutine /\ EndOf \in [Goroutine -> End] /\ None \notin Goroutine
    BY ConnAssumption, Zenon DEF Goroutine
  <2>2. readMu' = readMu /\ readBuf' = readBuf
    BY Zenon DEF CloseCall, CloseSeal, CloseNotifyDone, CloseRaw, CloseWait, muVars, readerVars
  <2>3. \E l \in CloseLabel \cup {"idle", "close wait"} : Goto(g, l)
    BY Zenon DEF CloseCall, CloseSeal, CloseNotifyDone, CloseRaw, CloseWait, CloseLabel
  <2>4. ReadMuHeld'
    BY <2>1, <2>2, <2>3, <1>ReadMuFrame, Zenon DEF Locks, CloseLabel, ReadLabel, Labels
  <2>5. WriteMuHeld'
    <3>1. CASE CloseCall(g) \/ CloseRaw(g) \/ CloseWait(g)
      <4>1. writeMu' = writeMu
        BY <3>1, Zenon DEF CloseCall, CloseRaw, CloseWait, muVars
      <4>2. \E l \in Labels \ SealLabel : Goto(g, l)
        BY <3>1, Zenon DEF CloseCall, CloseRaw, CloseWait, Labels, SealLabel
      <4> QED
        BY <2>1, <4>1, <4>2, <1>WriteMuFrame, Zenon DEF Locks
    <3>2. CASE CloseSeal(g)
      BY <2>1, <3>2, <1>WriteTake, Zenon DEF Locks, CloseSeal, SealLabel
    <3>3. CASE CloseNotifyDone(g)
      BY <2>1, <3>3, <1>WriteUnlock, Zenon DEF Locks, CloseNotifyDone, SealLabel, Labels
    <3> QED
      BY <3>1, <3>2, <3>3, Zenon
  <2>6. CloseOnce /\ pc \in [Goroutine -> Labels] /\ DOMAIN once = End /\ DOMAIN closeAt = End
    BY Zenon DEF Locks, TypeOK
  <2>7. "idle" \notin CloseLabel /\ "close wait" \notin CloseLabel /\ "close lock" \in CloseLabel
    BY Zenon DEF CloseLabel
  <2>8. CloseOnce'
    <3>1. CASE CloseCall(g)
      <4>1. CASE once[EndOf[g]] = "new" /\ once' = Set(once, EndOf[g], "running")
                 /\ Goto(g, "close lock")
        <5>1. pc' = [pc EXCEPT ![g] = "close lock"]
          BY <2>1, <4>1, GotoType, Zenon DEF Labels
        <5>2. once' = [once EXCEPT ![EndOf[g]] = "running"] /\ closeAt' = closeAt
          BY <3>1, <4>1, Zenon DEF CloseCall, cryptoVars, Set
        <5>3. closeAt[EndOf[g]] = -1
          BY <2>1, <2>6, <4>1, Zenon DEF CloseOnce
        <5>4. \A h \in Goroutine : pc[h] \in CloseLabel => EndOf[h] # EndOf[g]
          BY <2>6, <4>1, Zenon DEF CloseOnce
        <5>5. \A h \in Goroutine : h # g => pc'[h] = pc[h]
          BY <2>6, <5>1, Zenon
        <5>6. pc'[g] = "close lock"
          BY <2>1, <2>6, <5>1, Zenon
        <5>7. once'[EndOf[g]] = "running" /\ \A e \in End : e # EndOf[g] => once'[e] = once[e]
          BY <2>1, <2>6, <5>2, Zenon
        <5>8. \A h \in Goroutine : /\ pc'[h] \in CloseLabel => once'[EndOf[h]] = "running"
                                   /\ pc'[h] = "close lock" => closeAt'[EndOf[h]] = -1
          BY <2>1, <2>6, <2>7, <5>2, <5>3, <5>4, <5>5, <5>6, <5>7, ZenonT(30) DEF CloseOnce
        <5>9. \A h, j \in Goroutine :
                EndOf[h] = EndOf[j] /\ pc'[h] \in CloseLabel /\ pc'[j] \in CloseLabel => h = j
          BY <2>6, <5>4, <5>5, Zenon DEF CloseOnce
        <5>10. \A e \in End : once'[e] = "new" => closeAt'[e] = -1
          BY <2>6, <5>2, <5>7, Zenon DEF CloseOnce
        <5> QED
          BY <5>8, <5>9, <5>10, Zenon DEF CloseOnce
      <4>2. CASE Goto(g, "close wait") /\ once' = once
        BY <2>1, <2>6, <2>7, <3>1, <4>2, <1>CloseOnceFrame, Zenon
        DEF CloseCall, cryptoVars, Labels
      <4> QED
        BY <3>1, <4>1, <4>2, Zenon DEF CloseCall
    <3>2. ASSUME NEW l \in CloseLabel, Goto(g, l), l # "close lock", pc[g] \in CloseLabel,
                 once' = once,
                 \A e \in End : e # EndOf[g] => closeAt'[e] = closeAt[e]
          PROVE  CloseOnce'
      <4>1. l \in Labels
        BY Zenon DEF CloseLabel, Labels
      <4>2. pc' = [pc EXCEPT ![g] = l]
        BY <2>1, <3>2, <4>1, GotoType, Zenon
      <4>3. once[EndOf[g]] = "running"
        BY <2>1, <2>6, <3>2, Zenon DEF CloseOnce
      <4>4. \A h \in Goroutine : h # g => pc'[h] = pc[h]
        BY <2>6, <4>2, Zenon
      <4>5. pc'[g] = l
        BY <2>1, <2>6, <4>2, Zenon
      <4>6. \A h \in Goroutine : pc'[h] \in CloseLabel => pc[h] \in CloseLabel
        BY <3>2, <4>4, <4>5, Zenon
      <4>7. \A h \in Goroutine : pc'[h] = "close lock" => pc[h] = "close lock" /\ h # g
        BY <3>2, <4>4, <4>5, Zenon
      <4>8. \A h \in Goroutine : pc[h] \in CloseLabel /\ h # g => EndOf[h] # EndOf[g]
        BY <2>1, <2>6, <3>2, Zenon DEF CloseOnce
      <4>9. \A h \in Goroutine : pc'[h] \in CloseLabel => once'[EndOf[h]] = "running"
        BY <2>6, <3>2, <4>6, Zenon DEF CloseOnce
      <4>10. \A h \in Goroutine : pc'[h] = "close lock" => closeAt'[EndOf[h]] = -1
        BY <2>1, <2>6, <2>7, <3>2, <4>7, <4>8, Zenon DEF CloseOnce
      <4>11. \A e \in End : once'[e] = "new" => closeAt'[e] = -1
        BY <2>6, <3>2, <4>3, Zenon DEF CloseOnce
      <4>12. \A h, j \in Goroutine :
                EndOf[h] = EndOf[j] /\ pc'[h] \in CloseLabel /\ pc'[j] \in CloseLabel => h = j
        BY <2>6, <4>6, Zenon DEF CloseOnce
      <4> QED
        BY <4>9, <4>10, <4>11, <4>12, Zenon DEF CloseOnce
    <3>3. CASE CloseSeal(g)
      <4>1. Goto(g, "close put") /\ pc[g] \in CloseLabel /\ once' = once
        BY <3>3, Zenon DEF CloseSeal, CloseLabel
      <4>2. \A e \in End : e # EndOf[g] => closeAt'[e] = closeAt[e]
        BY <2>6, <3>3, Zenon DEF CloseSeal, Set
      <4> QED
        BY <3>2, <4>1, <4>2, Zenon DEF CloseLabel
    <3>4. CASE CloseNotifyDone(g)
      <4>1. Goto(g, "close raw") /\ pc[g] \in CloseLabel /\ once' = once /\ closeAt' = closeAt
        BY <3>4, Zenon DEF CloseNotifyDone, CloseLabel, cryptoVars
      <4> QED
        BY <3>2, <4>1, Zenon DEF CloseLabel
    <3>5. CASE CloseRaw(g)
      <4>1. pc[g] \in CloseLabel /\ closeAt' = closeAt
        BY <3>5, Zenon DEF CloseRaw, CloseLabel, cryptoVars
      <4>2. once' = [once EXCEPT ![EndOf[g]] = "done"]
        BY <3>5, Zenon DEF CloseRaw, Set
      <4>3. pc' = [pc EXCEPT ![g] = "idle"]
        BY <2>1, <3>5, GotoType, Zenon DEF CloseRaw, Labels
      <4>4. \A h \in Goroutine : pc'[h] \in CloseLabel => h # g /\ pc'[h] = pc[h]
        BY <2>6, <2>7, <4>3, Zenon
      <4>5. \A h \in Goroutine : pc[h] \in CloseLabel /\ h # g => EndOf[h] # EndOf[g]
        BY <2>1, <2>6, <4>1, Zenon DEF CloseOnce
      <4>6. \A e \in End : once'[e] # "done" => once'[e] = once[e]
        BY <2>6, <4>2, Zenon
      <4>7. \A e \in End : e # EndOf[g] => once'[e] = once[e]
        BY <2>6, <4>2, Zenon
      <4>8. \A h \in Goroutine : /\ pc'[h] \in CloseLabel => once'[EndOf[h]] = "running"
                                 /\ pc'[h] = "close lock" => closeAt'[EndOf[h]] = -1
        BY <2>1, <2>6, <2>7, <4>1, <4>4, <4>5, <4>7, Zenon DEF CloseOnce
      <4>9. \A h, j \in Goroutine :
               EndOf[h] = EndOf[j] /\ pc'[h] \in CloseLabel /\ pc'[j] \in CloseLabel => h = j
        BY <2>6, <4>4, Zenon DEF CloseOnce
      <4>10. \A e \in End : once'[e] = "new" => closeAt'[e] = -1
        BY <2>6, <4>1, <4>6, Zenon DEF CloseOnce
      <4> QED
        BY <4>8, <4>9, <4>10, Zenon DEF CloseOnce
    <3>6. CASE CloseWait(g)
      BY <2>1, <2>6, <2>7, <3>6, <1>CloseOnceFrame, Zenon
      DEF CloseWait, muVars, cryptoVars, Labels
    <3> QED
      BY <3>1, <3>3, <3>4, <3>5, <3>6, Zenon
  <2> QED
    BY <2>4, <2>5, <2>8, Zenon DEF Locks

<1>Put.
      ASSUME NEW g \in Writer \cup Closer, Put(g)
      PROVE  Locks'
  BY <1>Put, <1>Frame, Zenon DEF Put, cryptoVars, readerVars

<1>RawStep.
      ASSUME NEW e \in End, RawStep(e)
      PROVE  Locks'
  BY <1>RawStep, <1>Frame, Zenon
  DEF RawStep, Break, SetReadDeadline, SetWriteDeadline, ReadExpire, WriteExpire, cryptoVars,
      readerVars
<1> QED
  <2>1. CASE \E g \in Writer : WriteCall(g) \/ WriteLock(g) \/ WriteStep(g)
    BY <2>1, <1>Writer, <1>Put, Zenon DEF WriteStep
  <2>2. CASE \E g \in Closer : CloseCall(g) \/ CloseSeal(g) \/ CloseNotifyDone(g) \/ CloseStep(g)
    BY <2>2, <1>Closer, <1>Put, Zenon DEF CloseStep
  <2>3. CASE UNCHANGED vars
    BY <2>3, <1>Frame, Zenon DEF vars, cryptoVars, readerVars
  <2> QED
    BY <2>1, <2>2, <2>3, <1>Reader, <1>RawStep, Zenon DEF Next, RawStep

-----------------------------------------------------------------------------
(* The records in flight *)

\* Every step keeps the numbers of the records in flight among those sealed.
LEMMA RecordsStep ==
  ASSUME TypeOK, Records, [Next]_vars
  PROVE  Records'

\* Sealing a record numbers it next.
<1>Seal.
      ASSUME NEW g \in Writer \cup Closer, NEW r \in Record, CanSeal(EndOf[g]),
             sealed' = [sealed EXCEPT ![EndOf[g]] = Append(sealed[EndOf[g]], r)],
             pending' = [pending EXCEPT ![g] = Units(Len(sealed[EndOf[g]]) + 1)],
             wire' = wire
      PROVE  Records'
  <2> USE <1>Seal
  <2> DEFINE e == EndOf[g]
             n == Len(sealed[e])
  <2>1. e \in End /\ SeqMax \in Nat /\ \A h \in Writer \cup Closer : EndOf[h] \in End
    BY ConnAssumption, Zenon DEF Goroutine
  <2>2. sealed \in [End -> Seq(Record)]
    BY Zenon DEF TypeOK, Record
  <2>3. /\ Len(sealed'[e]) = n + 1 /\ n \in Nat /\ n < SeqMax
        /\ \A d \in End : d # e => Len(sealed'[d]) = Len(sealed[d])
    <3>1. Len(Append(sealed[e], r)) = n + 1 /\ n \in Nat
      BY <2>1, <2>2, SMTT(30)
    <3> DEFINE t == Append(sealed[e], r)
    <3>2. sealed' = [sealed EXCEPT ![e] = t] /\ n < SeqMax
      BY Zenon DEF CanSeal
    <3> HIDE DEF t
    <3>3. sealed'[e] = t /\ \A d \in End : d # e => sealed'[d] = sealed[d]
      BY <2>1, <2>2, <3>2, Zenon
    <3> QED
      BY <3>1, <3>2, <3>3, Zenon DEF t
  <2>4. \A d \in End : Len(sealed[d]) \in Nat
    BY <2>2, SMTT(30)
  <2>5. \A d \in End : Len(sealed'[d]) \in Nat /\ Len(sealed[d]) <= Len(sealed'[d])
    <3> HIDE DEF n, e
    <3>1. \A d \in End : d # e => Len(sealed[d]) <= Len(sealed'[d]) /\ Len(sealed'[d]) \in Nat
      BY <2>3, <2>4, SMTT(30)
    <3>2. Len(sealed[e]) <= Len(sealed'[e]) /\ Len(sealed'[e]) \in Nat
      BY <2>1, <2>3, <2>4, SMTT(30) DEF n
    <3> QED
      BY <3>1, <3>2, Zenon
  <2>6. \A d \in End : Len(sealed'[d]) <= SeqMax
    <3> HIDE DEF n, e
    <3>1. \A d \in End : Len(sealed[d]) <= SeqMax
      BY Zenon DEF Records
    <3> QED
      BY <2>1, <2>3, <3>1, SMTT(30)
  <2>7. ASSUME NEW d \in End
        PROVE  WireSealed(d)'
    <3>1. wire[d] \in Seq(UnitType) /\ wire'[d] = wire[d]
      BY Zenon DEF TypeOK
    <3>2. ASSUME NEW i \in 1 .. Len(wire[d])
          PROVE  wire[d][i].rec <= Len(sealed'[d])
      <4>1. wire[d][i].rec <= Len(sealed[d])
        BY Zenon DEF Records, WireSealed
      <4>2. wire[d][i] \in UnitType
        BY <3>1, SMTT(30)
      <4>3. wire[d][i].rec \in 1 .. SeqMax
        BY <4>2, Zenon DEF UnitType
      <4> QED
        BY <2>1, <2>4, <2>5, <4>1, <4>3, AtMost, Zenon
    <3> QED
      BY <3>1, <3>2, Zenon DEF WireSealed
  <2>8. ASSUME NEW h \in Writer \cup Closer
        PROVE  PendingSealed(h)'
    <3>0. pending \in [Writer \cup Closer -> Seq(UnitType)]
      BY Zenon DEF TypeOK
    <3>1. CASE h = g
      <4>1. pending'[h] = Units(n + 1)
        BY <3>0, <3>1, Zenon
      <4> HIDE DEF n
      <4>2. Len(Units(n + 1)) = 2 /\ Units(n + 1)[1].rec = n + 1 /\ Units(n + 1)[2].rec = n + 1
        BY Zenon DEF Units, Unit
      <4>3. \A i \in 1 .. 2 : Units(n + 1)[i].rec <= Len(sealed'[e])
        BY <2>3, <4>2, SMTT(30)
      <4> QED
        BY <3>1, <4>1, <4>2, <4>3, Zenon DEF PendingSealed
    <3>2. CASE h # g
      <4>1. pending'[h] = pending[h] /\ pending[h] \in Seq(UnitType)
        BY <3>0, <3>2, Zenon
      <4>2. ASSUME NEW i \in 1 .. Len(pending[h])
            PROVE  pending[h][i].rec <= Len(sealed'[EndOf[h]])
        <5>1. pending[h][i].rec <= Len(sealed[EndOf[h]])
          BY Zenon DEF Records, PendingSealed
        <5>2. pending[h][i] \in UnitType
          BY <4>1, SMTT(30)
        <5>3. pending[h][i].rec \in 1 .. SeqMax
          BY <5>2, Zenon DEF UnitType
        <5>4. EndOf[h] \in End
          BY <2>1, Zenon
        <5> QED
          BY <2>1, <2>4, <2>5, <5>1, <5>3, <5>4, AtMost, Zenon
      <4> QED
        BY <4>1, <4>2, Zenon DEF PendingSealed
    <3> QED
      BY <3>1, <3>2, Zenon
  <2> QED
    BY <2>6, <2>7, <2>8, Zenon DEF Records

\* What is taken off a wire, cut from it or moved to it from a pending record was
\* sealed before, and what is left of a pending record was pending before.
<1>Move.
      ASSUME sealed' = sealed,
             \A d \in End : \A i \in 1 .. Len(wire'[d]) :
               \/ \E j \in 1 .. Len(wire[d]) : wire'[d][i] = wire[d][j]
               \/ \E h \in Writer \cup Closer : EndOf[h] = d /\
                    \E j \in 1 .. Len(pending[h]) : wire'[d][i] = pending[h][j],
             \A h \in Writer \cup Closer : \A i \in 1 .. Len(pending'[h]) :
               \E j \in 1 .. Len(pending[h]) : pending'[h][i] = pending[h][j]
      PROVE  Records'
  <2> USE <1>Move
  <2>1. ASSUME NEW d \in End, NEW i \in 1 .. Len(wire'[d])
        PROVE  wire'[d][i].rec <= Len(sealed[d])
    <3>1. CASE \E j \in 1 .. Len(wire[d]) : wire'[d][i] = wire[d][j]
      BY <3>1, Zenon DEF Records, WireSealed
    <3>2. CASE \E h \in Writer \cup Closer : EndOf[h] = d /\
                  \E j \in 1 .. Len(pending[h]) : wire'[d][i] = pending[h][j]
      BY <3>2, Zenon DEF Records, PendingSealed
    <3> QED
      BY <3>1, <3>2, Zenon
  <2>2. ASSUME NEW h \in Writer \cup Closer, NEW i \in 1 .. Len(pending'[h])
        PROVE  pending'[h][i].rec <= Len(sealed[EndOf[h]])
    <3>1. PICK j \in 1 .. Len(pending[h]) : pending'[h][i] = pending[h][j]
      BY Zenon
    <3>2. pending[h][j].rec <= Len(sealed[EndOf[h]])
      BY Zenon DEF Records, PendingSealed
    <3> QED
      BY <3>1, <3>2, Zenon
  <2> QED
    BY <2>1, <2>2, Zenon DEF Records, WireSealed, PendingSealed

<1>Put.
      ASSUME NEW g \in Writer \cup Closer, Put(g)
      PROVE  Records'
  <2> USE <1>Put
  <2> DEFINE e == EndOf[g]
  <2>1. e \in End
    BY ConnAssumption, Zenon DEF Goroutine
  <2>2. /\ wire \in [End -> Seq(UnitType)]
        /\ pending \in [Writer \cup Closer -> Seq(UnitType)] /\ pending[g] # << >>
    BY Zenon DEF TypeOK, Put
  <2>3. wire' = [wire EXCEPT ![e] = Append(wire[e], Head(pending[g]))]
    BY Zenon DEF Put, Set
  <2>4. pending' = [pending EXCEPT ![g] = Tail(pending[g])] /\ sealed' = sealed
    BY Zenon DEF Put, Set, cryptoVars
  <2>5. ASSUME NEW d \in End, NEW i \in 1 .. Len(wire'[d])
        PROVE  \/ \E j \in 1 .. Len(wire[d]) : wire'[d][i] = wire[d][j]
               \/ \E h \in Writer \cup Closer : EndOf[h] = d /\
                    \E j \in 1 .. Len(pending[h]) : wire'[d][i] = pending[h][j]
    <3>1. CASE d # e
      <4>1. wire'[d] = wire[d]
        BY <2>2, <2>3, <3>1, Zenon
      <4> QED
        BY <4>1, Zenon
    <3>2. CASE d = e
      <4> DEFINE w == wire[e]
                 u == Head(pending[g])
                 t == Append(w, u)
      <4>1. w \in Seq(UnitType) /\ u \in UnitType /\ u = pending[g][1] /\ 1 \in 1 .. Len(pending[g])
        BY <2>1, <2>2, SMTT(30)
      <4>2. wire'[d] = t
        BY <2>1, <2>2, <2>3, <3>2, Zenon
      <4> HIDE DEF w, u
      <4>3. Len(t) = Len(w) + 1 /\ t[Len(w) + 1] = u /\ \A j \in 1 .. Len(w) : t[j] = w[j]
        BY <4>1, SMTT(30)
      <4>4. i \in 1 .. Len(w) + 1 /\ Len(w) \in Nat
        BY <4>1, <4>2, <4>3, SMTT(30)
      <4> HIDE DEF t
      <4>5. CASE i = Len(w) + 1
        <5>1. wire'[d][i] = pending[g][1]
          BY <4>1, <4>2, <4>3, <4>5, Zenon
        <5> QED
          BY <3>2, <4>1, <5>1, Zenon
      <4>6. CASE i # Len(w) + 1
        <5>1. i \in 1 .. Len(w)
          BY <4>4, <4>6, SMTT(30)
        <5>2. wire'[d][i] = wire[d][i]
          BY <3>2, <4>2, <4>3, <5>1, Zenon DEF w
        <5> QED
          BY <3>2, <5>1, <5>2, Zenon DEF w
      <4> QED
        BY <4>5, <4>6, Zenon
    <3> QED
      BY <3>1, <3>2, Zenon
  <2>6. ASSUME NEW h \in Writer \cup Closer, NEW i \in 1 .. Len(pending'[h])
        PROVE  \E j \in 1 .. Len(pending[h]) : pending'[h][i] = pending[h][j]
    <3>1. CASE h # g
      <4>1. pending'[h] = pending[h]
        BY <2>2, <2>4, <3>1, Zenon
      <4> QED
        BY <4>1, Zenon
    <3>2. CASE h = g
      <4>1. pending'[h] = Tail(pending[h]) /\ pending[h] \in Seq(UnitType) /\ pending[h] # << >>
        BY <2>2, <2>4, <3>2, Zenon
      <4> QED
        BY <4>1, TailFacts, SMTT(30)
    <3> QED
      BY <3>1, <3>2, Zenon
  <2> QED
    BY <2>4, <2>5, <2>6, <1>Move, Zenon

<1>Consume.
      ASSUME NEW e \in End, Consume(e), sealed' = sealed, pending' = pending
      PROVE  Records'
  <2> USE <1>Consume
  <2> DEFINE p == Peer(e)
  <2>1. p \in End
    BY Zenon DEF Peer, End
  <2>2. /\ wire \in [End -> Seq(UnitType)] /\ wire[p] # << >>
        /\ wire' = [wire EXCEPT ![p] = Tail(wire[p])]
    BY Zenon DEF TypeOK, Consume, RawReadOK, Set
  <2> HIDE DEF p
  <2>3. ASSUME NEW d \in End, NEW i \in 1 .. Len(wire'[d])
        PROVE  \E j \in 1 .. Len(wire[d]) : wire'[d][i] = wire[d][j]
    <3>1. CASE d # p
      <4>1. wire'[d] = wire[d]
        BY <2>2, <3>1, Zenon
      <4> QED
        BY <4>1, Zenon
    <3>2. CASE d = p
      <4>1. wire'[d] = Tail(wire[d]) /\ wire[d] \in Seq(UnitType) /\ wire[d] # << >>
        BY <2>1, <2>2, <3>2, Zenon
      <4> QED
        BY <4>1, TailFacts, SMTT(30)
    <3> QED
      BY <3>1, <3>2, Zenon
  <2> QED
    BY <2>3, <1>Move, Zenon

<1>Break.
      ASSUME NEW e \in End, Break(e)
      PROVE  Records'
  <2> USE <1>Break
  <2>1. PICK n \in 0 .. Len(wire[e]) : wire' = [wire EXCEPT ![e] = Take(wire[e], n)]
    BY Zenon DEF Break, Set
  <2>2. wire \in [End -> Seq(UnitType)]
    BY Zenon DEF TypeOK
  <2>3. sealed' = sealed /\ pending' = pending
    BY Zenon DEF Break, cryptoVars, localVars
  <2>4. wire[e] \in Seq(UnitType) /\ n \in Nat
    BY <2>2, SMTT(30)
  <2>5. ASSUME NEW d \in End, NEW i \in 1 .. Len(wire'[d])
        PROVE  \E j \in 1 .. Len(wire[d]) : wire'[d][i] = wire[d][j]
    <3>1. CASE d # e
      <4>1. wire'[d] = wire[d]
        BY <2>1, <2>2, <3>1, Zenon
      <4> QED
        BY <4>1, Zenon
    <3>2. CASE d = e
      <4>1. wire'[d] = Take(wire[d], n)
        BY <2>1, <2>2, <3>2, Zenon
      <4>2. Len(Take(wire[d], n)) \in Nat /\ Len(Take(wire[d], n)) <= Len(wire[d])
            /\ \A j \in 1 .. Len(Take(wire[d], n)) : Take(wire[d], n)[j] = wire[d][j]
        BY <2>4, <3>2, TakeFacts, Zenon
      <4>3. Len(wire[d]) \in Nat
        BY <2>4, <3>2, SMTT(30)
      <4> DEFINE t == Take(wire[d], n)
      <4> HIDE DEF t
      <4>4. i \in 1 .. Len(wire[d]) /\ wire'[d][i] = wire[d][i]
        BY <4>1, <4>2, <4>3, SMTT(30) DEF t
      <4> QED
        BY <4>4, Zenon
    <3> QED
      BY <3>1, <3>2, Zenon
  <2> QED
    BY <2>3, <2>5, <1>Move, Zenon

\* A record given up.
<1>Drop.
      ASSUME NEW g \in Writer \cup Closer,
             pending' = Set(pending, g, << >>), sealed' = sealed, wire' = wire
      PROVE  Records'
  <2> USE <1>Drop
  <2>1. /\ pending' = [pending EXCEPT ![g] = << >>]
        /\ pending \in [Writer \cup Closer -> Seq(UnitType)]
    BY Zenon DEF Set, TypeOK
  <2>2. ASSUME NEW h \in Writer \cup Closer, NEW i \in 1 .. Len(pending'[h])
        PROVE  \E j \in 1 .. Len(pending[h]) : pending'[h][i] = pending[h][j]
    <3>1. h # g
      BY <2>1, SMTT(30)
    <3>2. pending'[h] = pending[h]
      BY <2>1, <3>1, Zenon
    <3> QED
      BY <3>2, Zenon
  <2> QED
    BY <2>2, <1>Move, Zenon

<1>Quiet.
      ASSUME UNCHANGED <<sealed, wire, pending>>
      PROVE  Records'
  BY <1>Quiet, Zenon DEF Records, WireSealed, PendingSealed

<1>WriteSeal.
      ASSUME NEW g \in Writer, WriteSeal(g)
      PROVE  Records'
  <2> DEFINE q == Take(rest[g], MaxPlaintextLength)
  <2>1. q \in Seq(AppByte)
    <3>1. rest[g] \in Seq(AppByte) /\ MaxPlaintextLength \in Nat
      BY <1>WriteSeal, ConnAssumption, Zenon DEF TypeOK
    <3> QED
      BY <3>1, TakeFacts, Zenon
  <2>2. AppData(q) \in Record
    BY <2>1, Zenon DEF AppData, Record
  <2>3. /\ sealed' = [sealed EXCEPT ![EndOf[g]] = Append(sealed[EndOf[g]], AppData(q))]
        /\ pending' = [pending EXCEPT ![g] = Units(Len(sealed[EndOf[g]]) + 1)]
        /\ wire' = wire /\ CanSeal(EndOf[g])
    BY <1>WriteSeal, Zenon DEF WriteSeal, Set, rawVars
  <2> HIDE DEF q
  <2> QED
    BY <1>WriteSeal, <2>2, <2>3, <1>Seal, Zenon

<1>CloseSeal.
      ASSUME NEW g \in Closer, CloseSeal(g)
      PROVE  Records'
  <2>1. CloseNotify \in Record
    BY SMTT(30) DEF CloseNotify, Record
  <2>2. /\ sealed' = [sealed EXCEPT ![EndOf[g]] = Append(sealed[EndOf[g]], CloseNotify)]
        /\ pending' = [pending EXCEPT ![g] = Units(Len(sealed[EndOf[g]]) + 1)]
        /\ wire' = wire /\ CanSeal(EndOf[g])
    BY <1>CloseSeal, Zenon DEF CloseSeal, Set
  <2> QED
    BY <1>CloseSeal, <2>1, <2>2, <1>Seal, Zenon

<1>Writer.
      ASSUME NEW g \in Writer, WriteCall(g) \/ WriteLock(g) \/ WriteStep(g)
      PROVE  Records'
  <2>1. CASE WriteCall(g) \/ WriteLock(g) \/ WriteChunkDone(g)
    BY <2>1, <1>Quiet, Zenon
    DEF WriteCall, WriteLock, WriteChunkDone, cryptoVars, rawVars, localVars
  <2>2. CASE WriteReturn(g)
    BY <1>Writer, <2>2, <1>Drop, Zenon DEF WriteReturn, cryptoVars, rawVars
  <2> QED
    BY <1>Writer, <2>1, <2>2, <1>WriteSeal, <1>Put, Zenon DEF WriteStep

<1>Reader.
      ASSUME NEW g \in Reader, ReadCall(g) \/ ReadDrain(g) \/ ReadLock(g) \/ ReadStep(g)
      PROVE  Records'
  <2>1. EndOf[g] \in End
    BY <1>Reader, ConnAssumption, Zenon DEF Goroutine
  <2>2. UNCHANGED <<sealed, pending>> /\ (wire' = wire \/ Consume(EndOf[g]))
    BY <1>Reader, Zenon
    DEF ReadCall, ReadDrain, ReadLock, ReadStep, ReadHeader, ReadRecord, ReadUnsealFails,
        ReadEOF, ReadFail, cryptoVars, rawVars, localVars
  <2> QED
    BY <2>1, <2>2, <1>Quiet, <1>Consume, Zenon

<1>Closer.
      ASSUME NEW g \in Closer,
             CloseCall(g) \/ CloseSeal(g) \/ CloseNotifyDone(g) \/ CloseStep(g)
      PROVE  Records'
  <2>1. CASE CloseCall(g) \/ CloseRaw(g) \/ CloseWait(g)
    BY <2>1, <1>Quiet, Zenon DEF CloseCall, CloseRaw, CloseWait, cryptoVars, rawVars, localVars
  <2>2. CASE CloseNotifyDone(g)
    BY <1>Closer, <2>2, <1>Drop, Zenon DEF CloseNotifyDone, cryptoVars, rawVars
  <2> QED
    BY <1>Closer, <2>1, <2>2, <1>CloseSeal, <1>Put, Zenon DEF CloseStep

<1>RawStep.
      ASSUME NEW e \in End, RawStep(e)
      PROVE  Records'
  <2>1. UNCHANGED <<sealed, pending>> /\ (wire' = wire \/ Break(e))
    BY <1>RawStep, Zenon
    DEF RawStep, Break, SetReadDeadline, SetWriteDeadline, ReadExpire, WriteExpire, cryptoVars,
        localVars
  <2> QED
    BY <1>RawStep, <2>1, <1>Quiet, <1>Break, Zenon
<1> QED
  <2>1. CASE UNCHANGED vars
    BY <2>1, <1>Quiet, Zenon DEF vars, cryptoVars, rawVars, localVars
  <2> QED
    BY <2>1, <1>Writer, <1>Reader, <1>Closer, <1>RawStep, Zenon DEF Next, RawStep

-----------------------------------------------------------------------------
(* The bytes of a Write in the stream *)

\* Every step keeps the bytes of a Write together, and what a Write still holds due
\* behind what it has sealed.
LEMMA WritesStep ==
  ASSUME TypeOK, Locks, Writes, [Next]_vars
  PROVE  Writes'

\* A Write no step touches stays as far as it was; so does one that is over.
<1>ProgressFrame.
      ASSUME NEW h \in Writer, Progress(h), pc'[h] = pc[h] \/ pc'[h] \notin WriteLabel,
             rest'[h] = rest[h], calls'[h] = calls[h],
             sentBytes'[EndOf[h]] = sentBytes[EndOf[h]], closeAt'[EndOf[h]] = closeAt[EndOf[h]]
      PROVE  Progress(h)'
  <2> USE <1>ProgressFrame
  <2>1. CASE pc'[h] = pc[h]
    BY <2>1, Zenon DEF Progress, Chunk
  <2>2. CASE pc'[h] \notin WriteLabel
    <3>1. pc'[h] # "write lock" /\ pc'[h] # "write" /\ pc'[h] # "write put"
      BY <2>2, Zenon DEF WriteLabel
    <3> QED
      BY <2>2, <3>1, Zenon DEF Progress
  <2> QED
    BY <2>1, <2>2, Zenon

<1>Frame.
      ASSUME UNCHANGED <<sentBytes, rest, calls, closeAt>>,
             \A h \in Writer : pc'[h] = pc[h] \/ pc'[h] \notin WriteLabel
      PROVE  Writes'
  <2> USE <1>Frame
  <2>1. \A h \in Writer : Progress(h)'
    BY <1>ProgressFrame, Zenon DEF Writes
  <2>2. \A e \in End : Sealed(e)'
    BY Zenon DEF Writes, Sealed
  <2> QED
    BY <2>1, <2>2, Zenon DEF Writes

\* The steps of Read and Close, close_notify's apart.
<1>Other.
      ASSUME NEW g \in Goroutine, NEW l \in Labels \ WriteLabel, Goto(g, l),
             UNCHANGED <<sentBytes, rest, calls, closeAt>>
      PROVE  Writes'
  <2> USE <1>Other
  <2>1. pc' = [pc EXCEPT ![g] = l] /\ pc \in [Goroutine -> Labels]
    BY GotoType, Zenon DEF TypeOK
  <2>2. \A h \in Goroutine : pc'[h] = pc[h] \/ pc'[h] \notin WriteLabel
    BY <2>1, Zenon
  <2>3. \A h \in Writer : h \in Goroutine
    BY Zenon DEF Goroutine
  <2> QED
    BY <2>2, <2>3, <1>Frame, Zenon

\* A call takes a number no byte of the stream has.
<1>WriteCall.
      ASSUME NEW g \in Writer, WriteCall(g)
      PROVE  Writes'
  <2> USE <1>WriteCall
  <2> DEFINE c == calls[g] + 1
  <2>0. g \in Goroutine /\ EndOf[g] \in End
    BY ConnAssumption, Zenon DEF Goroutine
  <2>1. PICK n \in WriteLen : rest' = [rest EXCEPT ![g] = Bytes(g, c, n)]
    BY Zenon DEF WriteCall, Set
  <2>2. calls' = [calls EXCEPT ![g] = c] /\ calls \in [Writer -> 0 .. MaxCalls]
    BY Zenon DEF WriteCall, Set, TypeOK
  <2>3. pc' = [pc EXCEPT ![g] = "write lock"] /\ pc \in [Goroutine -> Labels]
    BY <2>0, GotoType, Zenon DEF WriteCall, Labels, TypeOK
  <2>4. sentBytes' = sentBytes /\ closeAt' = closeAt
    BY Zenon DEF WriteCall, cryptoVars
  <2>5. sentBytes \in [End -> Seq(AppByte)] /\ DOMAIN rest = Writer
    BY Zenon DEF TypeOK
  <2>6. MaxCalls \in Nat /\ n \in Nat
    BY ConnAssumption, Zenon
  <2>7. calls[g] \in Nat /\ c \in Nat
    BY <2>2, <2>6, SMTT(30)
  <2>8. \A e \in End : \A i \in 1 .. Len(sentBytes[e]) :
           /\ Who(sentBytes[e][i]) \in Writer /\ Call(sentBytes[e][i]) \in Nat
           /\ Call(sentBytes[e][i]) <= calls[Who(sentBytes[e][i])]
    <3> SUFFICES ASSUME NEW e \in End, NEW i \in 1 .. Len(sentBytes[e])
                 PROVE  /\ Who(sentBytes[e][i]) \in Writer /\ Call(sentBytes[e][i]) \in Nat
                        /\ Call(sentBytes[e][i]) <= calls[Who(sentBytes[e][i])]
      BY Zenon
    <3>1. sentBytes[e][i] \in AppByte
      BY <2>5, SMTT(30)
    <3>2. Who(sentBytes[e][i]) \in Writer /\ Call(sentBytes[e][i]) \in 1 .. MaxCalls
      BY <3>1, ByteFacts, Zenon
    <3>3. Call(sentBytes[e][i]) \in Nat
      BY <2>6, <3>2, SMTT(30)
    <3> QED
      BY <3>2, <3>3, Zenon DEF Writes, Sealed
  <2>9. calls'[g] = c /\ \A h \in Writer : h # g => calls'[h] = calls[h]
    BY <2>2, Zenon
  <2> HIDE DEF c
  <2>10. ASSUME NEW e \in End
         PROVE  Sealed(e)'
    <3>1. ASSUME NEW i \in 1 .. Len(sentBytes[e])
          PROVE  Call(sentBytes[e][i]) <= calls'[Who(sentBytes[e][i])]
      <4> DEFINE w == Who(sentBytes[e][i])
                 k == Call(sentBytes[e][i])
      <4>1. w \in Writer /\ k \in Nat /\ k <= calls[w]
        BY <2>8, Zenon
      <4> HIDE DEF w, k
      <4>2. CASE w = g
        <5>1. k <= calls[g]
          BY <4>1, <4>2, Zenon
        <5>2. k <= c
          BY <2>7, <4>1, <5>1, SMTT(30) DEF c
        <5>3. calls'[w] = c
          BY <2>9, <4>2, Zenon
        <5> QED
          BY <5>2, <5>3, Zenon DEF w, k
      <4>3. CASE w # g
        BY <2>9, <4>1, <4>3, Zenon DEF w, k
      <4> QED
        BY <4>2, <4>3, Zenon
    <3> QED
      BY <2>4, <3>1, Zenon DEF Writes, Sealed
  <2>11. ASSUME NEW h \in Writer, h # g
         PROVE  Progress(h)'
    <3>1. h \in Goroutine
      BY Zenon DEF Goroutine
    <3>2. pc'[h] = pc[h]
      BY <2>3, <2>11, <3>1, Zenon
    <3>3. rest'[h] = rest[h]
      BY <2>1, <2>5, <2>11, Zenon
    <3>4. Progress(h)
      BY Zenon DEF Writes
    <3> QED
      BY <2>4, <2>9, <2>11, <3>2, <3>3, <3>4, <1>ProgressFrame, Zenon
  <2>12. Progress(g)'
    <3> DEFINE r == Bytes(g, c, n)
               s == sentBytes[EndOf[g]]
    <3>1. rest'[g] = r
      BY <2>1, <2>5, Zenon
    <3>2. pc'[g] = "write lock"
      BY <2>0, <2>3, Zenon
    <3>3. Len(r) = n /\ \A k \in 1 .. n : r[k] = <<g, c, k>>
      BY <2>6, SMTT(30) DEF Bytes
    <3>4. \A k \in 1 .. n : Who(r[k]) = g /\ Call(r[k]) = c /\ Pos(r[k]) = k
      BY <3>3, SMTT(30) DEF Who, Call, Pos
    <3> HIDE DEF r
    <3>5. OfCall(r, g, c) /\ Consecutive(r)
      BY <3>3, <3>4, Zenon DEF OfCall, Consecutive
    <3>6. Fresh(s, r)
      <4> SUFFICES ASSUME NEW i \in 1 .. Len(s), NEW k \in 1 .. n, SameCall(s[i], r[k])
                   PROVE  FALSE
        BY <3>3, Zenon DEF Fresh
      <4>1. Who(s[i]) = g /\ Call(s[i]) = c
        BY <3>4, Zenon DEF SameCall
      <4>2. Call(s[i]) <= calls[Who(s[i])]
        BY <2>0, <2>8, Zenon
      <4>3. c <= calls[g]
        BY <4>1, <4>2, Zenon
      <4> QED
        BY <2>7, <4>3, SMTT(30) DEF c
    <3> QED
      BY <2>4, <2>9, <3>1, <3>2, <3>5, <3>6, Zenon DEF Progress
  <2> QED
    BY <2>10, <2>11, <2>12, Zenon DEF Writes

\* Nothing of the call is in the stream yet, so the call follows it.
<1>WriteLock.
      ASSUME NEW g \in Writer, WriteLock(g)
      PROVE  Writes'
  <2> USE <1>WriteLock
  <2>1. g \in Goroutine /\ \A h \in Writer : h \in Goroutine
    BY Zenon DEF Goroutine
  <2>2. pc' = [pc EXCEPT ![g] = "write"] /\ pc \in [Goroutine -> Labels] /\ pc[g] = "write lock"
    BY <2>1, GotoType, Zenon DEF WriteLock, Labels, TypeOK
  <2>3. UNCHANGED <<sentBytes, rest, calls, closeAt>>
    BY Zenon DEF WriteLock, cryptoVars, localVars
  <2>4. \A e \in End : Sealed(e)'
    BY <2>3, Zenon DEF Writes, Sealed
  <2>5. ASSUME NEW h \in Writer, h # g
        PROVE  Progress(h)'
    <3>1. pc'[h] = pc[h] /\ Progress(h)
      BY <2>1, <2>2, <2>5, Zenon DEF Writes
    <3> QED
      BY <2>3, <3>1, <1>ProgressFrame, Zenon
  <2>6. Progress(g)'
    <3> DEFINE s == sentBytes[EndOf[g]]
               r == rest[g]
    <3>1. pc'[g] = "write"
      BY <2>1, <2>2, Zenon
    <3>2. OfCall(r, g, calls[g]) /\ Consecutive(r) /\ Fresh(s, r)
      <4>1. Progress(g)
        BY Zenon DEF Writes
      <4> QED
        BY <2>2, <4>1, Zenon DEF Progress, WriteLabel
    <3>3. Follows(s, Len(s), closeAt[EndOf[g]], r)
      BY <3>2, Zenon DEF Fresh, Follows
    <3> QED
      BY <2>3, <3>1, <3>2, <3>3, Zenon DEF Progress
  <2> QED
    BY <2>4, <2>5, <2>6, Zenon DEF Writes

\* The mutex keeps other Writes of this end out of the loop.
<1>OneSealer.
      ASSUME WriteMuHeld, NEW g \in Goroutine, NEW h \in Goroutine, h # g,
             EndOf[h] = EndOf[g], pc[g] \in SealLabel \/ writeMu[EndOf[g]] = None
      PROVE  pc[h] \notin SealLabel
  BY <1>OneSealer, ConnAssumption, Zenon DEF WriteMuHeld

<1>WriteSeal.
      ASSUME NEW g \in Writer, WriteSeal(g)
      PROVE  Writes'
  <2> USE <1>WriteSeal
  <2> DEFINE e == EndOf[g]
             s == sentBytes[e]
             c == closeAt[e]
             r == rest[g]
             q == Take(r, MaxPlaintextLength)
  <2>1. g \in Goroutine /\ EndOf \in [Goroutine -> End] /\ \A h \in Writer : h \in Goroutine
    BY ConnAssumption, Zenon DEF Goroutine
  <2>2. e \in End
    BY <2>1, Zenon
  <2>3. pc' = [pc EXCEPT ![g] = "write put"] /\ pc \in [Goroutine -> Labels] /\ pc[g] = "write"
    BY <2>1, GotoType, Zenon DEF WriteSeal, Labels, TypeOK
  <2>4. UNCHANGED <<rest, calls, closeAt>>
    BY Zenon DEF WriteSeal
  <2>5. sentBytes' = [sentBytes EXCEPT ![e] = s \o q] /\ sentBytes \in [End -> Seq(AppByte)]
    BY Zenon DEF WriteSeal, Set, TypeOK
  <2>6. sentBytes'[e] = s \o q /\ \A d \in End : d # e => sentBytes'[d] = sentBytes[d]
    BY <2>2, <2>5, Zenon
  <2>7. s \in Seq(AppByte) /\ r \in Seq(AppByte) /\ MaxPlaintextLength \in Nat
    BY <2>2, <2>5, ConnAssumption, Zenon DEF TypeOK
  <2>8. c \in Nat \cup {-1}
    BY <2>2, Zenon DEF TypeOK
  <2>9. Sealed(e) /\ Progress(g)
    BY <2>2, Zenon DEF Writes
  <2>10. c <= Len(s) /\ Contiguous(s) /\ NotCut(s, c)
    BY <2>9, Zenon DEF Sealed
  <2>11. OfCall(r, g, calls[g]) /\ Consecutive(r) /\ Follows(s, Len(s), c, r)
    BY <2>3, <2>9, Zenon DEF Progress, WriteLabel
  <2>12. Contiguous(s \o q) /\ NotCut(s \o q, c) /\ Placed(s \o q, c, r, Len(q))
    BY <2>7, <2>8, <2>10, <2>11, SealedChunk, Zenon
  <2>13. /\ Len(s) \in Nat /\ Len(q) \in Nat /\ Len(s \o q) = Len(s) + Len(q)
         /\ \A i \in 1 .. Len(s) : (s \o q)[i] = s[i]
         /\ \A k \in 1 .. Len(q) : k \in 1 .. Len(r) /\ (s \o q)[Len(s) + k] = r[k]
    <3>1. /\ q \in Seq(AppByte) /\ Len(q) \in Nat /\ Len(q) <= Len(r)
          /\ \A k \in 1 .. Len(q) : q[k] = r[k]
      BY <2>7, TakeFacts, Zenon
    <3>2. Len(r) \in Nat
      BY <2>7, SMTT(30)
    <3> HIDE DEF q, s, r
    <3>3. /\ Len(s) \in Nat /\ Len(s \o q) = Len(s) + Len(q)
          /\ \A i \in 1 .. Len(s) : (s \o q)[i] = s[i]
          /\ \A k \in 1 .. Len(q) : (s \o q)[Len(s) + k] = q[k]
      BY <2>7, <3>1, ConcatFacts, SMTT(30)
    <3>4. \A k \in 1 .. Len(q) : k \in 1 .. Len(r)
      BY <3>1, <3>2, SMTT(30)
    <3> QED
      BY <3>1, <3>3, <3>4, Zenon
  <2>14. \A i \in 1 .. Len(s) + Len(q) :
            \/ i \in 1 .. Len(s) /\ (s \o q)[i] = s[i]
            \/ Who((s \o q)[i]) = g /\ Call((s \o q)[i]) = calls[g]
    <3> DEFINE t == s \o q
               L == Len(s)
               m == Len(q)
    <3> HIDE DEF t, L, m
    <3>1. \A k \in 1 .. m : Who(t[L + k]) = g /\ Call(t[L + k]) = calls[g]
      BY <2>11, <2>13, Zenon DEF OfCall, t, L, m
    <3>0. L \in Nat /\ m \in Nat
      BY <2>13, Zenon DEF L, m
    <3>2. ASSUME NEW i \in 1 .. L + m, i \notin 1 .. L
          PROVE  i - L \in 1 .. m /\ i = L + (i - L)
      BY <3>0, <3>2, SMTT(30)
    <3>3. ASSUME NEW i \in 1 .. L + m, i \notin 1 .. L
          PROVE  Who(t[i]) = g /\ Call(t[i]) = calls[g]
      BY <3>1, <3>2, <3>3, Zenon
    <3>4. \A i \in 1 .. L : t[i] = s[i]
      BY <2>13, Zenon DEF t, L
    <3> QED
      BY <3>3, <3>4, Zenon DEF t, L, m
  <2>15. calls[g] \in Nat
    BY ConnAssumption, SMTT(30) DEF TypeOK
  <2> HIDE DEF e, s, c, q, r
  <2>16. Sealed(e)'
    <3>1. ASSUME NEW i \in 1 .. Len(s \o q)
          PROVE  Call((s \o q)[i]) <= calls[Who((s \o q)[i])]
      <4>1. CASE i \in 1 .. Len(s) /\ (s \o q)[i] = s[i]
        <5>1. Call(s[i]) <= calls[Who(s[i])]
          BY <2>9, <4>1, Zenon DEF Sealed, s
        <5> QED
          BY <4>1, <5>1, Zenon
      <4>2. CASE Who((s \o q)[i]) = g /\ Call((s \o q)[i]) = calls[g]
        BY <2>15, <4>2, SMTT(30)
      <4> QED
        BY <2>13, <2>14, <4>1, <4>2, Zenon
    <3>2. c <= Len(s \o q)
      BY <2>8, <2>10, <2>13, SMTT(30)
    <3> QED
      BY <2>4, <2>6, <2>12, <3>1, <3>2, Zenon DEF Sealed, c
  <2>17. ASSUME NEW d \in End, d # e
         PROVE  Sealed(d)'
    BY <2>4, <2>6, <2>17, Zenon DEF Writes, Sealed
  <2>18. Progress(g)'
    <3>1. pc'[g] = "write put"
      BY <2>1, <2>3, Zenon
    <3> QED
      BY <2>4, <2>6, <2>11, <2>12, <3>1, Zenon DEF Progress, Chunk, e, c, r, q
  <2>19. ASSUME NEW h \in Writer, h # g
         PROVE  Progress(h)'
    <3>1. pc'[h] = pc[h] /\ Progress(h) /\ h \in Goroutine /\ EndOf[h] \in End
      BY <2>1, <2>3, <2>19, Zenon DEF Writes
    <3>2. CASE EndOf[h] # e
      BY <2>4, <2>6, <3>1, <3>2, <1>ProgressFrame, Zenon
    <3>3. CASE EndOf[h] = e
      <4>1. pc[h] # "write" /\ pc[h] # "write put"
        <5>1. pc[g] \in SealLabel /\ WriteMuHeld
          BY <2>3, Zenon DEF SealLabel, Locks
        <5>2. pc[h] \notin SealLabel
          BY <2>1, <2>19, <3>1, <3>3, <5>1, <1>OneSealer, Zenon DEF e
        <5> QED
          BY <5>2, Zenon DEF SealLabel
      <4>2. ASSUME pc[h] = "write lock"
            PROVE  Fresh(s \o q, rest[h])
        <5>1. Fresh(s, rest[h]) /\ OfCall(rest[h], h, calls[h])
          BY <3>1, <3>3, <4>2, Zenon DEF Progress, WriteLabel, s
        <5> SUFFICES ASSUME NEW i \in 1 .. Len(s) + Len(q), NEW k \in 1 .. Len(rest[h])
                     PROVE  ~SameCall((s \o q)[i], rest[h][k])
          BY <2>13, Zenon DEF Fresh
        <5>2. Who(rest[h][k]) = h
          BY <5>1, Zenon DEF OfCall
        <5>3. CASE i \in 1 .. Len(s) /\ (s \o q)[i] = s[i]
          BY <5>1, <5>3, Zenon DEF Fresh
        <5>4. CASE Who((s \o q)[i]) = g
          BY <2>19, <5>2, <5>4, Zenon DEF SameCall
        <5> QED
          BY <2>14, <5>3, <5>4, Zenon
      <4> QED
        BY <2>4, <2>6, <3>1, <3>3, <4>1, <4>2, Zenon DEF Progress
    <3> QED
      BY <3>2, <3>3, Zenon
  <2> QED
    BY <2>16, <2>17, <2>18, <2>19, Zenon DEF Writes

<1>WriteChunkDone.
      ASSUME NEW g \in Writer, WriteChunkDone(g)
      PROVE  Writes'
  <2> USE <1>WriteChunkDone
  <2> DEFINE e == EndOf[g]
             s == sentBytes[e]
             c == closeAt[e]
             r == rest[g]
             q == Take(r, MaxPlaintextLength)
  <2>1. g \in Goroutine /\ EndOf \in [Goroutine -> End] /\ \A h \in Writer : h \in Goroutine
    BY ConnAssumption, Zenon DEF Goroutine
  <2>2. e \in End
    BY <2>1, Zenon
  <2>3. pc' = [pc EXCEPT ![g] = "write"] /\ pc \in [Goroutine -> Labels] /\ pc[g] = "write put"
    BY <2>1, GotoType, Zenon DEF WriteChunkDone, Labels, TypeOK
  <2>4. UNCHANGED <<sentBytes, calls, closeAt>>
    BY Zenon DEF WriteChunkDone
  <2>5. rest' = [rest EXCEPT ![g] = Drop(r, Len(q))] /\ rest \in [Writer -> Seq(AppByte)]
    BY Zenon DEF WriteChunkDone, Set, TypeOK
  <2>6. s \in Seq(AppByte) /\ r \in Seq(AppByte) /\ MaxPlaintextLength \in Nat
    BY <2>2, <2>5, ConnAssumption, Zenon DEF TypeOK
  <2>7. c \in Nat \cup {-1}
    BY <2>2, Zenon DEF TypeOK
  <2>8. Len(q) \in Nat /\ Len(q) <= Len(r)
    BY <2>6, TakeFacts, Zenon
  <2>9. Progress(g)
    BY Zenon DEF Writes
  <2>10. OfCall(r, g, calls[g]) /\ Consecutive(r) /\ Placed(s, c, r, Len(q))
    BY <2>3, <2>9, Zenon DEF Progress, WriteLabel, Chunk
  <2> DEFINE n == Len(q)
  <2>11. n \in Nat /\ n <= Len(r) /\ Placed(s, c, r, n) /\ rest'[g] = Drop(r, n)
    BY <2>5, <2>8, <2>10, Zenon
  <2> HIDE DEF e, s, c, q, r, n
  <2>12. Consecutive(Drop(r, n)) /\ Follows(s, Len(s), c, Drop(r, n))
    BY <2>6, <2>7, <2>10, <2>11, CountedChunk, Zenon
  <2>13. OfCall(Drop(r, n), g, calls[g])
    <3> DEFINE d == Drop(r, n)
    <3>1. \A i \in 1 .. Len(d) : n + i \in 1 .. Len(r) /\ d[i] = r[n + i]
      BY <2>6, <2>11, DropFacts, Zenon
    <3> HIDE DEF d
    <3>2. OfCall(d, g, calls[g])
      BY <2>10, <3>1, Zenon DEF OfCall
    <3> QED
      BY <3>2, Zenon DEF d
  <2>14. \A d \in End : Sealed(d)'
    BY <2>4, Zenon DEF Writes, Sealed
  <2>15. Progress(g)'
    <3>1. pc'[g] = "write"
      BY <2>1, <2>3, Zenon
    <3> QED
      BY <2>4, <2>11, <2>12, <2>13, <3>1, Zenon DEF Progress, e, s, c
  <2>16. ASSUME NEW h \in Writer, h # g
         PROVE  Progress(h)'
    <3>1. pc'[h] = pc[h] /\ Progress(h)
      BY <2>1, <2>3, <2>16, Zenon DEF Writes
    <3>2. rest'[h] = rest[h]
      BY <2>5, <2>16, Zenon
    <3> QED
      BY <2>4, <3>1, <3>2, <1>ProgressFrame, Zenon
  <2> QED
    BY <2>14, <2>15, <2>16, Zenon DEF Writes

<1>WriteReturn.
      ASSUME NEW g \in Writer, WriteReturn(g)
      PROVE  Writes'
  <2> USE <1>WriteReturn
  <2>1. g \in Goroutine /\ \A h \in Writer : h \in Goroutine
    BY Zenon DEF Goroutine
  <2>2. pc' = [pc EXCEPT ![g] = "idle"] /\ pc \in [Goroutine -> Labels]
    BY <2>1, GotoType, Zenon DEF WriteReturn, Labels, TypeOK
  <2>3. UNCHANGED <<sentBytes, calls, closeAt>>
    BY Zenon DEF WriteReturn, cryptoVars
  <2>4. rest' = [rest EXCEPT ![g] = << >>] /\ DOMAIN rest = Writer
    BY Zenon DEF WriteReturn, Set, TypeOK
  <2>5. \A d \in End : Sealed(d)'
    BY <2>3, Zenon DEF Writes, Sealed
  <2>6. Progress(g)'
    <3>1. pc'[g] = "idle"
      BY <2>1, <2>2, Zenon
    <3>2. "idle" \notin WriteLabel
      BY Zenon DEF WriteLabel
    <3> QED
      BY <3>1, <3>2, Zenon DEF Progress
  <2>7. ASSUME NEW h \in Writer, h # g
        PROVE  Progress(h)'
    <3>1. pc'[h] = pc[h] /\ Progress(h)
      BY <2>1, <2>2, <2>7, Zenon DEF Writes
    <3>2. rest'[h] = rest[h]
      BY <2>4, <2>7, Zenon
    <3> QED
      BY <2>3, <3>1, <3>2, <1>ProgressFrame, Zenon
  <2> QED
    BY <2>5, <2>6, <2>7, Zenon DEF Writes

\* close_notify is sealed at the end of the stream, and inside no Write.
<1>CloseSeal.
      ASSUME NEW g \in Closer, CloseSeal(g)
      PROVE  Writes'
  <2> USE <1>CloseSeal
  <2> DEFINE e == EndOf[g]
             s == sentBytes[e]
  <2>1. g \in Goroutine /\ EndOf \in [Goroutine -> End] /\ \A h \in Writer : h \in Goroutine
    BY ConnAssumption, Zenon DEF Goroutine
  <2>2. e \in End /\ sentBytes[e] \in Seq(AppByte)
    BY <2>1, Zenon DEF TypeOK
  <2>3. pc' = [pc EXCEPT ![g] = "close put"] /\ pc \in [Goroutine -> Labels]
    BY <2>1, GotoType, Zenon DEF CloseSeal, Labels, TypeOK
  <2>4. UNCHANGED <<sentBytes, rest, calls>> /\ writeMu[e] = None
    BY Zenon DEF CloseSeal
  <2>5. closeAt' = [closeAt EXCEPT ![e] = Len(s)] /\ DOMAIN closeAt = End
    BY Zenon DEF CloseSeal, Set, TypeOK
  <2>6. closeAt'[e] = Len(s) /\ \A d \in End : d # e => closeAt'[d] = closeAt[d]
    BY <2>2, <2>5, Zenon
  <2>7. Sealed(e)'
    <3>1. NotCut(s, Len(s))
      <4>1. Len(s) \in Nat
        BY <2>2, SMTT(30)
      <4> QED
        BY <4>1, SMTT(30) DEF NotCut
    <3>2. Len(s) <= Len(s)
      BY <2>2, SMTT(30)
    <3>3. Sealed(e)
      BY <2>2, Zenon DEF Writes
    <3> QED
      BY <2>4, <2>6, <3>1, <3>2, <3>3, Zenon DEF Sealed
  <2>8. ASSUME NEW d \in End, d # e
        PROVE  Sealed(d)'
    BY <2>4, <2>6, <2>8, Zenon DEF Writes, Sealed
  <2>9. ASSUME NEW h \in Writer
        PROVE  Progress(h)'
    <3>1. Progress(h) /\ h \in Goroutine /\ EndOf[h] \in End
      BY <2>1, Zenon DEF Writes
    <3>2. CASE h = g
      <4>1. pc'[h] = "close put"
        BY <2>1, <2>3, <3>2, Zenon
      <4> QED
        BY <4>1, Zenon DEF Progress, WriteLabel
    <3>3. CASE h # g /\ EndOf[h] # e
      <4>1. pc'[h] = pc[h]
        BY <2>3, <3>1, <3>3, Zenon
      <4> QED
        BY <2>4, <2>6, <3>1, <3>3, <4>1, <1>ProgressFrame, Zenon
    <3>4. CASE h # g /\ EndOf[h] = e
      <4>1. pc'[h] = pc[h]
        BY <2>3, <3>1, <3>4, Zenon
      <4>2. WriteMuHeld
        BY Zenon DEF Locks
      <4>3. pc[h] \notin SealLabel
        BY <2>1, <2>4, <3>1, <3>4, <4>2, <1>OneSealer, Zenon
      <4>4. pc[h] # "write" /\ pc[h] # "write put"
        BY <4>3, Zenon DEF SealLabel
      <4> QED
        BY <2>4, <3>1, <4>1, <4>4, Zenon DEF Progress
    <3> QED
      BY <3>2, <3>3, <3>4, Zenon
  <2> QED
    BY <2>7, <2>8, <2>9, Zenon DEF Writes

<1>Put.
      ASSUME NEW g \in Writer \cup Closer, Put(g)
      PROVE  Writes'
  BY <1>Put, <1>Frame, Zenon DEF Put, cryptoVars

<1>Reader.
      ASSUME NEW g \in Reader, ReadCall(g) \/ ReadDrain(g) \/ ReadLock(g) \/ ReadStep(g)
      PROVE  Writes'
  <2>1. g \in Goroutine /\ UNCHANGED <<sentBytes, rest, calls, closeAt>>
    BY <1>Reader, Zenon
    DEF Goroutine, ReadCall, ReadDrain, ReadLock, ReadStep, ReadHeader, ReadRecord,
        ReadUnsealFails, ReadEOF, ReadFail, cryptoVars, localVars
  <2>2. \E l \in ReadLabel \cup {"idle", "read lock"} : Goto(g, l)
    BY <1>Reader, Zenon
    DEF ReadCall, ReadDrain, ReadLock, ReadStep, ReadHeader, ReadRecord, ReadUnsealFails,
        ReadEOF, ReadFail, ReadReturn, ReadLabel
  <2>3. ReadLabel \cup {"idle", "read lock"} \subseteq Labels \ WriteLabel
    BY Zenon DEF ReadLabel, Labels, WriteLabel
  <2> QED
    BY <2>1, <2>2, <2>3, <1>Other, Zenon

<1>Closer.
      ASSUME NEW g \in Closer,
             CloseCall(g) \/ CloseNotifyDone(g) \/ CloseRaw(g) \/ CloseWait(g)
      PROVE  Writes'
  <2>1. g \in Goroutine /\ UNCHANGED <<sentBytes, rest, calls, closeAt>>
    BY <1>Closer, Zenon
    DEF Goroutine, CloseCall, CloseNotifyDone, CloseRaw, CloseWait, cryptoVars, localVars
  <2>2. \E l \in Labels \ WriteLabel : Goto(g, l)
    BY <1>Closer, Zenon
    DEF CloseCall, CloseNotifyDone, CloseRaw, CloseWait, Labels, WriteLabel
  <2> QED
    BY <2>1, <2>2, <1>Other, Zenon

<1>RawStep.
      ASSUME NEW e \in End, RawStep(e)
      PROVE  Writes'
  BY <1>RawStep, <1>Frame, Zenon
  DEF RawStep, Break, SetReadDeadline, SetWriteDeadline, ReadExpire, WriteExpire, cryptoVars,
      localVars
<1> QED
  <2>1. CASE \E g \in Writer : WriteCall(g) \/ WriteLock(g) \/ WriteStep(g)
    BY <2>1, <1>WriteCall, <1>WriteLock, <1>WriteSeal, <1>Put,
       <1>WriteChunkDone, <1>WriteReturn, Zenon
    DEF WriteStep
  <2>2. CASE \E g \in Closer : CloseCall(g) \/ CloseSeal(g) \/ CloseNotifyDone(g) \/ CloseStep(g)
    BY <2>2, <1>Closer, <1>CloseSeal, <1>Put, Zenon DEF CloseStep
  <2>3. CASE UNCHANGED vars
    BY <2>3, <1>Frame, Zenon DEF vars, cryptoVars, localVars
  <2> QED
    BY <2>1, <2>2, <2>3, <1>Reader, <1>RawStep, Zenon DEF Next, RawStep

-----------------------------------------------------------------------------
(* The stream cut into records *)

\* Every step keeps the stream cut into the records sealed, and is a step of the byte
\* stream in each direction, or none.
LEMMA StreamsStep ==
  ASSUME TypeOK, Locks, Records, Streams, [Next]_vars
  PROVE  Streams' /\ StreamSteps

\* A step that changes neither what was sealed nor what was read.
<1>Frame.
      ASSUME NEW e \in End, Stream(e),
             sealed'[e] = sealed[e], sentBytes'[e] = sentBytes[e], closeAt'[e] = closeAt[e],
             inSeq'[Peer(e)] = inSeq[Peer(e)], got'[Peer(e)] = got[Peer(e)],
             readBuf'[Peer(e)] = readBuf[Peer(e)], closeNotifyReceived'[Peer(e)] => eof'[Peer(e)]
      PROVE  Stream(e)'
  <2> USE <1>Frame
  <2>1. PICK off \in Cuts(e) : Cut(e, off) /\ Delivered(e, Peer(e), off)
    BY Zenon DEF Stream
  <2>2. off \in Cuts(e)' /\ Cut(e, off)'
    BY <2>1, Zenon DEF Cuts, Cut
  <2>3. Delivered(e, Peer(e), off)'
    BY <2>1, Zenon DEF Delivered
  <2> QED
    BY <2>2, <2>3, Zenon DEF Stream

<1>Quiet.
      ASSUME UNCHANGED <<sealed, sentBytes, closeAt, readerVars>>
      PROVE  Streams' /\ StreamSteps
  <2> USE <1>Quiet
  <2>1. UNCHANGED <<inSeq, readBuf, closeNotifyReceived, got, eof>>
    BY Zenon DEF readerVars
  <2>2. \A e \in End : closeNotifyReceived'[Peer(e)] => eof'[Peer(e)]
    BY <2>1, Zenon DEF Streams, Stream
  <2>3. Streams'
    BY <2>1, <2>2, <1>Frame, Zenon DEF Streams
  <2>4. StreamSteps
    BY <2>1, Zenon DEF StreamSteps, StreamStep
  <2> QED
    BY <2>3, <2>4, Zenon

\* One more record behind what is sealed.
<1>ExtendCut.
      ASSUME NEW e \in End, Stream(e), NEW r \in Record,
             sealed' = [sealed EXCEPT ![e] = Append(sealed[e], r)],
             sentBytes'[e] \in Seq(AppByte),
             Len(sentBytes'[e]) = Len(sentBytes[e]) + Len(r.data),
             At(sentBytes[e], sentBytes'[e], 0), At(r.data, sentBytes'[e], Len(sentBytes[e])),
             closeAt'[e] = closeAt[e] \/ closeAt[e] = -1,
             r.type = "alert" => r.data = << >> /\ closeAt'[e] = Len(sentBytes'[e]),
             UNCHANGED readerVars
      PROVE  Stream(e)'
  <2> USE <1>ExtendCut
  <2> DEFINE p == Peer(e)
             R == sealed[e]
             n == Len(R)
             s == sentBytes[e]
             t == sentBytes'[e]
             L == Len(s)
             m == Len(r.data)
             c == closeAt[e]
  <2>1. p \in End
    BY PeerFacts, Zenon
  <2>2. sealed \in [End -> Seq(Record)] /\ R \in Seq(Record) /\ n \in Nat
    <3>1. sealed \in [End -> Seq(Record)]
      BY Zenon DEF TypeOK, Record
    <3> QED
      BY <3>1, SMTT(30)
  <2>3. s \in Seq(AppByte) /\ L \in Nat /\ r.data \in Seq(AppByte) /\ m \in Nat
    <3>1. s \in Seq(AppByte)
      BY Zenon DEF TypeOK
    <3>2. r.data \in Seq(AppByte)
      BY Zenon DEF Record
    <3> QED
      BY <3>1, <3>2, SMTT(30)
  <2>4. Len(t) = L + m
    BY Zenon
  <2>5. sealed'[e] = Append(R, r)
    BY <2>2, Zenon
  <2>6. /\ Len(sealed'[e]) = n + 1 /\ sealed'[e][n + 1] = r
        /\ \A k \in 1 .. n : sealed'[e][k] = R[k]
    BY <2>2, <2>5, SMTT(30)
  <2>7. PICK off \in Cuts(e) : Cut(e, off) /\ Delivered(e, p, off)
    BY Zenon DEF Stream
  <2>8. /\ off \in [0 .. n -> 0 .. L] /\ off[0] = 0 /\ off[n] = L
        /\ \A k \in 1 .. n : Piece(R[k], s, c, off[k - 1], off[k])
    BY <2>7, Zenon DEF Cut, Cuts
  <2>9. /\ inSeq[p] <= n /\ off[inSeq[p]] = Len(got[p]) + Len(readBuf[p])
        /\ At(got[p], s, 0) /\ At(readBuf[p], s, Len(got[p]))
    BY <2>7, Zenon DEF Delivered
  <2>10. \A i \in 1 .. L : t[i] = s[i]
    BY <2>3, SMTT(30) DEF At
  <2>11. At(r.data, t, L) /\ (r.type = "alert" => r.data = << >> /\ closeAt'[e] = Len(t))
    BY Zenon
  <2>12. c \in Nat \cup {-1} /\ (closeAt'[e] = c \/ c = -1)
    BY Zenon DEF TypeOK
  <2>13. \A k \in 1 .. n : R[k] \in Record /\ R[k].data \in Seq(AppByte) /\ Len(R[k].data) \in Nat
    <3>1. \A k \in 1 .. n : R[k] \in Record
      BY <2>2, SMTT(30)
    <3>2. \A k \in 1 .. n : R[k].data \in Seq(AppByte)
      BY <3>1, Zenon DEF Record
    <3> QED
      BY <3>1, <3>2, SeqFacts, Zenon
  <2>13a. n \in Nat
    BY <2>2, Zenon
  <2> HIDE DEF R, n, s, t, L, m, c
  <2>13b. PICK f : f = [k \in 0 .. n + 1 |-> IF k = n + 1 THEN L + m ELSE off[k]]
    BY Zenon
  <2>14. /\ f \in [0 .. n + 1 -> 0 .. L + m] /\ f[n + 1] = L + m
         /\ \A k \in 0 .. n : f[k] = off[k] /\ off[k] \in 0 .. L
    <3>1. \A k \in 0 .. n : k \in 0 .. n + 1 /\ k # n + 1 /\ off[k] \in 0 .. L
      BY <2>2, <2>8, SMTT(30)
    <3>2. \A k \in 0 .. n + 1 : k # n + 1 => k \in 0 .. n
      BY <2>2, SMTT(30)
    <3>3. n + 1 \in 0 .. n + 1 /\ L + m \in 0 .. L + m
      BY <2>3, <2>13a, SumBounds, Zenon
    <3>4. \A x \in 0 .. L : x \in 0 .. L + m
      BY <2>3, SMTT(30)
    <3> QED
      BY <2>13b, <3>1, <3>2, <3>3, <3>4, Zenon
  <2>15. ASSUME NEW k \in 1 .. n
         PROVE  Piece(R[k], t, closeAt'[e], f[k - 1], f[k])
    <3>1. k \in 0 .. n /\ k - 1 \in 0 .. n
      BY <2>2, SMTT(30)
    <3>2. f[k] = off[k] /\ f[k - 1] = off[k - 1] /\ off[k] \in 0 .. L /\ off[k - 1] \in 0 .. L
      BY <2>14, <3>1, Zenon
    <3>3. /\ off[k] = off[k - 1] + Len(R[k].data) /\ At(R[k].data, s, off[k - 1])
          /\ R[k].type = "alert" => R[k].data = << >> /\ c = off[k]
      BY <2>8, Zenon DEF Piece
    <3> DEFINE a == off[k - 1]
               b == off[k]
               d == R[k].data
    <3>4. a \in 0 .. L /\ b \in 0 .. L /\ b = a + Len(d) /\ Len(d) \in Nat /\ At(d, s, a)
      BY <2>13, <3>2, <3>3, Zenon
    <3> HIDE DEF a, b, d
    <3>5. \A i \in 1 .. Len(d) : a + i \in 1 .. L
      BY <2>3, <3>4, SMTT(30)
    <3>6. At(d, t, a)
      BY <2>10, <3>4, <3>5, Zenon DEF At
    <3>7. R[k].type = "alert" => R[k].data = << >> /\ closeAt'[e] = b
      <4>1. ASSUME R[k].type = "alert"
            PROVE  c # -1
        <5>1. c = b
          BY <3>3, <4>1, Zenon DEF b
        <5> QED
          BY <2>3, <3>4, <5>1, SMTT(30)
      <4> QED
        BY <2>12, <3>3, <4>1, Zenon DEF b
    <3> QED
      BY <3>2, <3>4, <3>6, <3>7, Zenon DEF Piece, a, b, d
  <2>16. Piece(r, t, closeAt'[e], f[n], f[n + 1])
    <3>1. f[n] = L /\ f[n + 1] = L + m
      BY <2>2, <2>8, <2>14, SMTT(30)
    <3> QED
      BY <2>4, <2>11, <3>1, Zenon DEF Piece, m
  <2>17. Cut(e, f)'
    <3>1. f[0] = 0 /\ f[n + 1] = Len(t)
      BY <2>2, <2>4, <2>8, <2>14, SMTT(30)
    <3>2. ASSUME NEW k \in 1 .. n + 1
          PROVE  Piece(sealed'[e][k], t, closeAt'[e], f[k - 1], f[k])
      <4>1. CASE k \in 1 .. n
        BY <2>6, <2>15, <4>1, Zenon
      <4>2. CASE k = n + 1
        <5>1. k - 1 = n
          BY <2>2, <4>2, SMTT(30)
        <5> QED
          BY <2>6, <2>16, <4>2, <5>1, Zenon
      <4>3. k \in 1 .. n \/ k = n + 1
        BY <2>13a, SMTT(30)
      <4> QED
        BY <4>1, <4>2, <4>3, Zenon
    <3> QED
      BY <2>6, <3>1, <3>2, Zenon DEF Cut, t
  <2>18. Delivered(e, p, f)'
    <3>1. /\ inSeq[p] \in Nat /\ got[p] \in Seq(AppByte) /\ readBuf[p] \in Seq(AppByte)
      <4>1. inSeq[p] \in 0 .. SeqMax /\ SeqMax \in Nat
        BY <2>1, ConnAssumption, ZenonT(30) DEF TypeOK
      <4> QED
        BY <2>1, <4>1, SMTT(30) DEF TypeOK
    <3>2. inSeq[p] \in 0 .. n
      BY <2>2, <2>9, <3>1, SMTT(30)
    <3>3. f[inSeq[p]] = off[inSeq[p]] /\ off[inSeq[p]] \in 0 .. L
      BY <2>14, <3>2, Zenon
    <3> DEFINE x == Len(got[p])
               y == Len(readBuf[p])
    <3>4. x \in Nat /\ y \in Nat
      BY <3>1, SMTT(30)
    <3>5. x + y \in 0 .. L
      BY <2>9, <3>3, Zenon
    <3>6. At(got[p], t, 0)
      <4>1. \A i \in 1 .. x : i \in 1 .. L /\ 0 + i = i
        <5> HIDE DEF x, y
        <5> QED
          BY <2>3, <3>4, <3>5, SMTT(30)
      <4> QED
        BY <2>9, <2>10, <4>1, Zenon DEF At
    <3>7. At(readBuf[p], t, x)
      <4>1. \A i \in 1 .. y : x + i \in 1 .. L
        <5> HIDE DEF x, y
        <5> QED
          BY <2>3, <3>4, <3>5, SMTT(30)
      <4> QED
        BY <2>9, <2>10, <4>1, Zenon DEF At
    <3>8. inSeq[p] <= n + 1
      BY <2>2, <3>2, SMTT(30)
    <3>9. inSeq' = inSeq /\ got' = got /\ readBuf' = readBuf
      BY Zenon DEF readerVars
    <3> QED
      BY <2>6, <2>9, <3>3, <3>6, <3>7, <3>8, <3>9, ZenonT(30) DEF Delivered, t
  <2>19. f \in Cuts(e)'
    BY <2>4, <2>6, <2>14, Zenon DEF Cuts, t
  <2>20. closeNotifyReceived'[p] => eof'[p]
    BY Zenon DEF Stream, readerVars
  <2> QED
    BY <2>17, <2>18, <2>19, <2>20, Zenon DEF Stream

\* Read hands out bytes of readBuf, or of the next record when readBuf is empty.
<1>Hand.
      ASSUME NEW e \in End, NEW p \in End, p = Peer(e), Stream(e),
             NEW d \in Seq(AppByte), NEW n \in Nat,
             \/ inSeq'[p] = inSeq[p] /\ d = readBuf[p]
             \/ /\ inSeq'[p] = inSeq[p] + 1 /\ inSeq[p] < Len(sealed[e])
                /\ readBuf[p] = << >> /\ d = sealed[e][inSeq[p] + 1].data,
             got'[p] = got[p] \o Take(d, n), readBuf'[p] = Drop(d, n),
             sealed'[e] = sealed[e], sentBytes'[e] = sentBytes[e], closeAt'[e] = closeAt[e],
             closeNotifyReceived'[p] => eof'[p]
      PROVE  /\ Stream(e)'
             /\ Len(got[p]) <= Len(got'[p])
             /\ \A i \in 1 .. Len(got[p]) : got'[p][i] = got[p][i]
             /\ Len(got'[p]) <= Len(sentBytes[e])
             /\ At(got'[p], sentBytes[e], 0)
  <2> USE <1>Hand
  <2> DEFINE s == sentBytes[e]
             x == got[p]
             y == x \o Take(d, n)
             z == Drop(d, n)
             k == inSeq[p]
             N == Len(sealed[e])
  <2>1. PICK off \in Cuts(e) : Cut(e, off) /\ Delivered(e, p, off)
    BY Zenon DEF Stream
  <2>2. /\ k <= N /\ off[k] = Len(x) + Len(readBuf[p])
        /\ At(x, s, 0) /\ At(readBuf[p], s, Len(x))
    BY <2>1, Zenon DEF Delivered
  <2>3. x \in Seq(AppByte) /\ readBuf[p] \in Seq(AppByte) /\ s \in Seq(AppByte)
    BY Zenon DEF TypeOK
  <2>4. k \in Nat /\ N \in Nat
    <3>1. k \in 0 .. SeqMax /\ SeqMax \in Nat
      BY ConnAssumption, Zenon DEF TypeOK
    <3>2. sealed[e] \in Seq(Record)
      BY Zenon DEF TypeOK, Record
    <3> QED
      BY <3>1, <3>2, SMTT(30)
  <2>5. Len(x) \in Nat /\ Len(readBuf[p]) \in Nat /\ Len(s) \in Nat
    BY <2>3, SMTT(30)
  <2>6. off \in [0 .. N -> 0 .. Len(s)]
    BY <2>1, Zenon DEF Cuts
  <2>7. At(d, s, Len(x)) /\ off[inSeq'[p]] = Len(x) + Len(d) /\ inSeq'[p] \in 0 .. N
    <3>1. CASE inSeq'[p] = k /\ d = readBuf[p]
      <4>1. k \in 0 .. N
        BY <2>2, <2>4, UpTo, Zenon
      <4> QED
        BY <2>2, <3>1, <4>1, ZenonT(30)
    <3>2. CASE /\ inSeq'[p] = k + 1 /\ k < N /\ readBuf[p] = << >>
               /\ d = sealed[e][k + 1].data
      <4>1. k + 1 \in 1 .. N /\ k + 1 \in 0 .. N /\ (k + 1) - 1 = k
        BY <2>4, <3>2, NextIndex, Zenon
      <4>2. Piece(sealed[e][k + 1], s, closeAt[e], off[(k + 1) - 1], off[k + 1])
        BY <2>1, <4>1, Zenon DEF Cut
      <4>3. off[k + 1] = off[k] + Len(d) /\ At(d, s, off[k])
        BY <3>2, <4>1, <4>2, ZenonT(30) DEF Piece
      <4>4. off[k] = Len(x)
        <5>1. Len(readBuf[p]) = 0
          BY <3>2, Zenon
        <5> QED
          BY <2>2, <2>5, <5>1, PlusZero, Zenon
      <4> QED
        BY <3>2, <4>1, <4>3, <4>4, Zenon
    <3> QED
      BY <3>1, <3>2, Zenon
  <2>8. /\ y \in Seq(AppByte) /\ z \in Seq(AppByte)
        /\ Len(x) <= Len(y) /\ \A i \in 1 .. Len(x) : y[i] = x[i]
        /\ Len(y) + Len(z) = Len(x) + Len(d)
        /\ At(y, s, 0) /\ At(z, s, Len(y))
    BY <2>2, <2>3, <2>7, HandOut, Zenon
  <2>9. got'[p] = y /\ readBuf'[p] = z
    BY Zenon
  <2> HIDE DEF y, z, N
  <2>10. off[inSeq'[p]] = Len(y) + Len(z)
    BY <2>7, <2>8, Zenon
  <2>11. Len(y) <= Len(s)
    <3>1. Len(y) \in Nat /\ Len(z) \in Nat
      BY <2>8, SMTT(30)
    <3>2. off[inSeq'[p]] \in 0 .. Len(s)
      BY <2>6, <2>7, Zenon
    <3>3. Len(y) + Len(z) \in 0 .. Len(s)
      BY <2>10, <3>2, Zenon
    <3> QED
      BY <2>5, <3>1, <3>3, SMTT(30)
  <2>12. off \in Cuts(e)' /\ Cut(e, off)'
    BY <2>1, Zenon DEF Cuts, Cut
  <2>13. inSeq'[p] <= N
    BY <2>4, <2>7, SMTT(30)
  <2>14. Delivered(e, p, off)'
    BY <2>8, <2>9, <2>10, <2>13, Zenon DEF Delivered, N
  <2>15. Stream(e)'
    BY <2>12, <2>14, Zenon DEF Stream
  <2> QED
    BY <2>8, <2>9, <2>11, <2>15, Zenon

<1>WriteSealStream.
      ASSUME NEW g \in Writer, WriteSeal(g), \A d \in End : Stream(d)
      PROVE  \A d \in End : Stream(d)'
  <2> USE <1>WriteSealStream
  <2> DEFINE e == EndOf[g]
             s == sentBytes[e]
             q == Take(rest[g], MaxPlaintextLength)
             r == AppData(q)
  <2>1. e \in End
    BY ConnAssumption, Zenon DEF Goroutine
  <2>2. s \in Seq(AppByte) /\ rest[g] \in Seq(AppByte) /\ MaxPlaintextLength \in Nat
    BY <2>1, ConnAssumption, Zenon DEF TypeOK
  <2>3. q \in Seq(AppByte)
    BY <2>2, TakeFacts, Zenon
  <2>4. r \in Record /\ r.data = q /\ r.type = "data"
    BY <2>3, Zenon DEF AppData, Record
  <2>5. sealed' = [sealed EXCEPT ![e] = Append(sealed[e], r)]
    BY Zenon DEF WriteSeal, Set
  <2>6. sentBytes' = [sentBytes EXCEPT ![e] = s \o q]
    BY Zenon DEF WriteSeal, Set
  <2>7. UNCHANGED <<closeAt, readerVars>>
    BY Zenon DEF WriteSeal
  <2>8. DOMAIN sentBytes = End /\ DOMAIN sealed = End
    BY Zenon DEF TypeOK
  <2> HIDE DEF q, r, s
  <2>9. sentBytes'[e] = s \o q
    BY <2>1, <2>6, <2>8, Zenon
  <2>10. /\ s \o q \in Seq(AppByte) /\ Len(s \o q) = Len(s) + Len(q)
         /\ At(s, s \o q, 0) /\ At(q, s \o q, Len(s))
    <3>1. /\ s \o q \in Seq(AppByte) /\ Len(s \o q) = Len(s) + Len(q)
          /\ Len(s) \in Nat
          /\ \A i \in 1 .. Len(s) : (s \o q)[i] = s[i]
          /\ \A i \in 1 .. Len(q) : (s \o q)[Len(s) + i] = q[i]
      BY <2>2, <2>3, ConcatFacts, SMTT(30)
    <3>2. \A i \in 1 .. Len(s) : 0 + i = i
      BY <3>1, SMTT(30)
    <3> QED
      BY <3>1, <3>2, Zenon DEF At
  <2>11. Stream(e)'
    BY <2>1, <2>4, <2>5, <2>7, <2>9, <2>10, <1>ExtendCut, Zenon DEF s
  <2>12. ASSUME NEW d \in End, d # e
         PROVE  Stream(d)'
    <3>1. sealed'[d] = sealed[d] /\ sentBytes'[d] = sentBytes[d]
      BY <2>5, <2>6, <2>8, <2>12, Zenon
    <3>2. closeNotifyReceived'[Peer(d)] => eof'[Peer(d)]
      BY <2>7, Zenon DEF Stream, readerVars
    <3> QED
      BY <2>7, <3>1, <3>2, <1>Frame, Zenon DEF readerVars
  <2> QED
    BY <2>11, <2>12, Zenon

<1>WriteSealStep.
      ASSUME NEW g \in Writer, WriteSeal(g)
      PROVE  StreamSteps
  <2> USE <1>WriteSealStep
  <2> DEFINE e == EndOf[g]
             s == sentBytes[e]
             q == Take(rest[g], MaxPlaintextLength)
  <2>1. e \in End
    BY ConnAssumption, Zenon DEF Goroutine
  <2>2. s \in Seq(AppByte) /\ rest[g] \in Seq(AppByte) /\ rest[g] # << >>
    BY <2>1, Zenon DEF TypeOK, WriteSeal
  <2>3. MaxPlaintextLength \in Nat \ {0}
    BY ConnAssumption, Zenon
  <2>4. q \in Seq(AppByte) /\ Len(q) \in Nat /\ Len(q) > 0
    <3>1. /\ q \in Seq(AppByte) /\ Len(q) \in Nat
          /\ Len(q) = IF MaxPlaintextLength < Len(rest[g]) THEN MaxPlaintextLength ELSE Len(rest[g])
      BY <2>2, <2>3, TakeFacts, Zenon
    <3>2. Len(rest[g]) \in Nat /\ Len(rest[g]) # 0
      BY <2>2, SMTT(30)
    <3> DEFINE x == Len(rest[g])
               y == Len(q)
    <3> HIDE DEF x, y
    <3>3. y > 0
      BY <2>3, <3>1, <3>2, SMTT(30) DEF x, y
    <3> QED
      BY <3>1, <3>3, Zenon DEF y
  <2>5. sentBytes' = [sentBytes EXCEPT ![e] = s \o q] /\ DOMAIN sentBytes = End
    BY Zenon DEF WriteSeal, Set, TypeOK
  <2>6. UNCHANGED <<closeAt, got, eof>>
    BY Zenon DEF WriteSeal, readerVars
  <2> HIDE DEF s, q
  <2>7. /\ s \o q \in Seq(AppByte) /\ Len(s \o q) = Len(s) + Len(q) /\ Len(s) \in Nat
        /\ \A i \in 1 .. Len(s) : s[i] = (s \o q)[i]
    BY <2>2, <2>4, ConcatFacts, Zenon
  <2>8. Len(s \o q) > Len(s) /\ Len(s) <= Len(s \o q)
    BY <2>4, <2>7, SMTT(30)
  <2>9. SubSeq(s \o q, 1, Len(s)) = s
    BY <2>2, <2>7, <2>8, PrefixFacts, Zenon
  <2>10. sentBytes'[e] = s \o q
    BY <2>1, <2>5, Zenon
  <2>11. StreamStep(e)
    BY <2>6, <2>8, <2>9, <2>10, Zenon DEF StreamStep, s
  <2>12. \A d \in End : d # e => StreamStep(d)
    BY <2>5, <2>6, Zenon DEF StreamStep
  <2> QED
    BY <2>11, <2>12, Zenon DEF StreamSteps

<1>CloseSealStream.
      ASSUME NEW g \in Closer, CloseSeal(g), \A d \in End : Stream(d)
      PROVE  closeAt[EndOf[g]] = -1 /\ \A d \in End : Stream(d)'
  <2> USE <1>CloseSealStream
  <2> DEFINE e == EndOf[g]
             s == sentBytes[e]
             r == CloseNotify
  <2>1. e \in End /\ g \in Goroutine
    BY ConnAssumption, Zenon DEF Goroutine
  <2>2. s \in Seq(AppByte)
    BY <2>1, Zenon DEF TypeOK
  <2>3. r \in Record /\ r.data = << >> /\ r.type = "alert"
    BY SMTT(30) DEF CloseNotify, Record
  <2>4. sealed' = [sealed EXCEPT ![e] = Append(sealed[e], r)]
    BY Zenon DEF CloseSeal, Set
  <2>5. UNCHANGED <<sentBytes, readerVars>>
    BY Zenon DEF CloseSeal
  <2>6. closeAt' = [closeAt EXCEPT ![e] = Len(s)]
    BY Zenon DEF CloseSeal, Set
  <2>7. DOMAIN closeAt = End /\ DOMAIN sealed = End
    BY Zenon DEF TypeOK
  <2>8. closeAt[e] = -1
    <3>1. pc[g] = "close lock" /\ CloseOnce
      BY Zenon DEF CloseSeal, Locks
    <3> QED
      BY <2>1, <3>1, Zenon DEF CloseOnce
  <2>9. closeAt'[e] = Len(s)
    BY <2>1, <2>6, <2>7, Zenon
  <2> HIDE DEF r
  <2>10. /\ sentBytes'[e] \in Seq(AppByte)
         /\ Len(sentBytes'[e]) = Len(sentBytes[e]) + Len(r.data)
    <3>1. Len(r.data) = 0 /\ Len(s) \in Nat
      BY <2>2, <2>3, SMTT(30)
    <3> QED
      BY <2>2, <2>5, <3>1, SMTT(30)
  <2>11. At(sentBytes[e], sentBytes'[e], 0) /\ At(r.data, sentBytes'[e], Len(sentBytes[e]))
    <3>1. \A i \in 1 .. Len(s) : 0 + i = i
      BY <2>2, SMTT(30)
    <3> QED
      BY <2>3, <2>5, <3>1, SMTT(30) DEF At
  <2>12. Stream(e)'
    <3>1. r.type = "alert" => r.data = << >> /\ closeAt'[e] = Len(sentBytes'[e])
      BY <2>3, <2>5, <2>9, Zenon
    <3>2. UNCHANGED readerVars /\ Stream(e)
      BY <2>1, <2>5, Zenon
    <3> QED
      BY <2>1, <2>3, <2>4, <2>8, <2>10, <2>11, <3>1, <3>2, <1>ExtendCut, Zenon
  <2>13. ASSUME NEW d \in End, d # e
         PROVE  Stream(d)'
    <3>1. sealed'[d] = sealed[d] /\ closeAt'[d] = closeAt[d]
      BY <2>4, <2>6, <2>7, <2>13, Zenon
    <3>2. closeNotifyReceived'[Peer(d)] => eof'[Peer(d)]
      BY <2>5, Zenon DEF Stream, readerVars
    <3> QED
      BY <2>5, <3>1, <3>2, <1>Frame, Zenon DEF readerVars
  <2> QED
    BY <2>8, <2>12, <2>13, Zenon

<1>CloseSealStep.
      ASSUME NEW g \in Closer, CloseSeal(g), closeAt[EndOf[g]] = -1
      PROVE  StreamSteps
  <2> USE <1>CloseSealStep
  <2> DEFINE e == EndOf[g]
  <2>1. e \in End
    BY ConnAssumption, Zenon DEF Goroutine
  <2>2. closeAt' = [closeAt EXCEPT ![e] = Len(sentBytes[e])] /\ DOMAIN closeAt = End
    BY Zenon DEF CloseSeal, Set, TypeOK
  <2>3. UNCHANGED <<sentBytes, got, eof>>
    BY Zenon DEF CloseSeal, readerVars
  <2>4. StreamStep(e)
    <3>1. closeAt'[e] = Len(sentBytes[e])
      BY <2>1, <2>2, Zenon
    <3> QED
      BY <2>3, <3>1, Zenon DEF StreamStep
  <2>5. \A d \in End : d # e => StreamStep(d)
    BY <2>2, <2>3, Zenon DEF StreamStep
  <2> QED
    BY <2>4, <2>5, Zenon DEF StreamSteps

<1>ReadDrain.
      ASSUME NEW g \in Reader, ReadDrain(g), \A d \in End : Stream(d)
      PROVE  Reads(EndOf[g]) /\ \A d \in End : Stream(d)'
  <2> USE <1>ReadDrain
  <2> DEFINE p == EndOf[g]
             e == Peer(p)
  <2>1. p \in End /\ e \in End /\ e # p /\ p = Peer(e) /\ \A d \in End : d = p \/ d = e
    <3>1. p \in End
      BY ConnAssumption, Zenon DEF Goroutine
    <3> QED
      BY <3>1, PeerFacts, Zenon
  <2>2. /\ got' = [got EXCEPT ![p] = got[p] \o Take(readBuf[p], size[g])]
        /\ readBuf' = [readBuf EXCEPT ![p] = Drop(readBuf[p], size[g])]
    BY Zenon DEF ReadDrain, Set, Leftover
  <2>3. UNCHANGED <<sealed, sentBytes, closeAt, inSeq, closeNotifyReceived, eof>>
    BY Zenon DEF ReadDrain, cryptoVars
  <2>4. readBuf[p] \in Seq(AppByte) /\ size[g] \in Nat /\ DOMAIN got = End /\ DOMAIN readBuf = End
    BY <2>1, Zenon DEF TypeOK
  <2> HIDE DEF p, e
  <2>5. got'[p] = got[p] \o Take(readBuf[p], size[g]) /\ readBuf'[p] = Drop(readBuf[p], size[g])
    BY <2>1, <2>2, <2>4, Zenon
  <2>6. got'[e] = got[e] /\ readBuf'[e] = readBuf[e]
    BY <2>1, <2>2, <2>4, Zenon
  <2>7. \A d \in End : closeNotifyReceived'[Peer(d)] => eof'[Peer(d)]
    BY <2>3, Zenon DEF Stream
  <2>8. /\ Stream(e)'
        /\ Len(got[p]) <= Len(got'[p])
        /\ \A i \in 1 .. Len(got[p]) : got'[p][i] = got[p][i]
        /\ Len(got'[p]) <= Len(sentBytes[e])
        /\ At(got'[p], sentBytes[e], 0)
    BY <2>1, <2>3, <2>4, <2>5, <2>7, <1>Hand, Zenon
  <2>9. Stream(p)'
    <3>1. Peer(p) = e
      BY Zenon DEF e
    <3> QED
      BY <2>1, <2>3, <2>6, <2>7, <3>1, <1>Frame, Zenon
  <2> QED
    BY <2>1, <2>3, <2>6, <2>8, <2>9, Zenon DEF Reads, p, e

\* A receiver that opens close_notify has returned every byte sealed before it.
<1>AlertAtEnd.
      ASSUME NEW e \in End, NEW p \in End, p = Peer(e), Stream(e),
             inSeq[p] < Len(sealed[e]), readBuf[p] = << >>, sealed[e][inSeq[p] + 1].type = "alert"
      PROVE  sealed[e][inSeq[p] + 1].data = << >> /\ closeAt[e] = Len(got[p]) /\ closeAt[e] >= 0
  <2> USE <1>AlertAtEnd
  <2> DEFINE k == inSeq[p]
             r == sealed[e][k + 1]
  <2>1. PICK off \in Cuts(e) : Cut(e, off) /\ Delivered(e, p, off)
    BY Zenon DEF Stream
  <2>2. off[k] = Len(got[p]) + Len(readBuf[p])
    BY <2>1, Zenon DEF Delivered
  <2>3. Len(got[p]) \in Nat /\ Len(readBuf[p]) = 0
    BY SMTT(30) DEF TypeOK
  <2>4. k \in Nat /\ Len(sealed[e]) \in Nat
    <3>1. k \in 0 .. SeqMax /\ SeqMax \in Nat
      BY ConnAssumption, Zenon DEF TypeOK
    <3>2. sealed[e] \in Seq(Record)
      BY Zenon DEF TypeOK, Record
    <3> QED
      BY <3>1, <3>2, SMTT(30)
  <2>5. k + 1 \in 1 .. Len(sealed[e]) /\ (k + 1) - 1 = k
    BY <2>4, NextIndex, Zenon
  <2>6. Piece(r, sentBytes[e], closeAt[e], off[(k + 1) - 1], off[k + 1])
    BY <2>1, <2>5, Zenon DEF Cut
  <2>7. off[k + 1] = off[k] + Len(r.data) /\ r.data = << >> /\ closeAt[e] = off[k + 1]
    BY <2>5, <2>6, Zenon DEF Piece
  <2>8. Len(r.data) = 0
    BY <2>7, Zenon
  <2> HIDE DEF r
  <2>9. off[k] = Len(got[p])
    BY <2>2, <2>3, SMTT(30)
  <2>10. off[k + 1] = Len(got[p])
    BY <2>3, <2>7, <2>8, <2>9, SMTT(30)
  <2> QED
    BY <2>3, <2>7, <2>10, SMTT(30) DEF r

<1>ReadRecord.
      ASSUME NEW g \in Reader, ReadRecord(g), \A d \in End : Stream(d)
      PROVE  Reads(EndOf[g]) /\ \A d \in End : Stream(d)'
  <2> USE <1>ReadRecord
  <2> DEFINE p == EndOf[g]
             e == Peer(p)
             r == sealed[e][hdr[g]]
  <2>1. p \in End /\ e \in End /\ e # p /\ p = Peer(e) /\ \A d \in End : d = p \/ d = e
    <3>1. p \in End
      BY ConnAssumption, Zenon DEF Goroutine
    <3> QED
      BY <3>1, PeerFacts, Zenon
  <2>2. /\ hdr[g] = inSeq[p] + 1 /\ inSeq[p] \in Nat /\ hdr[g] \in 1 .. Len(sealed[e])
        /\ sealed[e] \in Seq(Record) /\ r \in Record
    BY OpenedRecord, Zenon
  <2>3. r = sealed[e][inSeq[p] + 1] /\ inSeq[p] < Len(sealed[e]) /\ r.data \in Seq(AppByte)
    <3>1. inSeq[p] < Len(sealed[e])
      BY <2>2, SMTT(30)
    <3>2. r.data \in Seq(AppByte)
      BY <2>2, Zenon DEF Record
    <3> QED
      BY <2>2, <3>1, <3>2, Zenon
  <2>4. readBuf[p] = << >>
    <3>1. pc[g] \in ReadLabel /\ g \in Goroutine /\ ReadMuHeld
      BY Zenon DEF ReadRecord, ReadLabel, Goroutine, Locks
    <3> QED
      BY <3>1, Zenon DEF ReadMuHeld
  <2>5. /\ got' = [got EXCEPT ![p] = got[p] \o Take(r.data, size[g])]
        /\ readBuf' = [readBuf EXCEPT ![p] = Drop(r.data, size[g])]
    BY Zenon DEF ReadRecord, Set, Leftover
  <2>6. inSeq' = [inSeq EXCEPT ![p] = inSeq[p] + 1]
    BY Zenon DEF ReadRecord, Set
  <2>7. /\ closeNotifyReceived' = [closeNotifyReceived EXCEPT
                                     ![p] = closeNotifyReceived[p] \/ r.type = "alert"]
        /\ eof' = [eof EXCEPT ![p] = eof[p] \/ r.type = "alert"]
    BY Zenon DEF ReadRecord, Set
  <2>8. UNCHANGED <<sealed, sentBytes, closeAt>>
    BY Zenon DEF ReadRecord, cryptoVars
  <2>9. /\ DOMAIN got = End /\ DOMAIN readBuf = End /\ DOMAIN inSeq = End
        /\ size[g] \in Nat /\ got[p] \in Seq(AppByte)
    BY <2>1, Zenon DEF TypeOK
  <2>10. closeNotifyReceived \in [End -> BOOLEAN] /\ eof \in [End -> BOOLEAN]
    BY Zenon DEF TypeOK
  <2> HIDE DEF p, e, r
  <2>11. got'[p] = got[p] \o Take(r.data, size[g]) /\ readBuf'[p] = Drop(r.data, size[g])
    BY <2>1, <2>5, <2>9, Zenon
  <2>12. inSeq'[p] = inSeq[p] + 1
    BY <2>1, <2>6, <2>9, Zenon
  <2>13. got'[e] = got[e] /\ readBuf'[e] = readBuf[e] /\ inSeq'[e] = inSeq[e]
    BY <2>1, <2>5, <2>6, <2>9, Zenon
  <2>14. /\ closeNotifyReceived'[e] = closeNotifyReceived[e] /\ eof'[e] = eof[e]
         /\ closeNotifyReceived'[p] = (closeNotifyReceived[p] \/ r.type = "alert")
         /\ eof'[p] = (eof[p] \/ r.type = "alert")
    BY <2>1, <2>7, <2>10, Zenon
  <2>15. (closeNotifyReceived[p] => eof[p]) /\ (closeNotifyReceived[e] => eof[e])
    <3>1. Peer(p) = e
      BY Zenon DEF e
    <3> QED
      BY <2>1, <3>1, Zenon DEF Stream
  <2>16. (closeNotifyReceived'[p] => eof'[p]) /\ (closeNotifyReceived'[e] => eof'[e])
    BY <2>14, <2>15, Zenon
  <2>17. /\ Stream(e)'
         /\ Len(got[p]) <= Len(got'[p])
         /\ \A i \in 1 .. Len(got[p]) : got'[p][i] = got[p][i]
         /\ Len(got'[p]) <= Len(sentBytes[e])
         /\ At(got'[p], sentBytes[e], 0)
    BY <2>1, <2>3, <2>4, <2>8, <2>9, <2>11, <2>12, <2>16, <1>Hand, ZenonT(30)
  <2>18. Stream(p)'
    <3>1. Peer(p) = e
      BY Zenon DEF e
    <3> QED
      BY <2>1, <2>8, <2>13, <2>16, <3>1, <1>Frame, Zenon
  <2>19. \/ eof'[p] = eof[p]
         \/ /\ eof'[p] = TRUE /\ got'[p] = got[p]
            /\ closeAt[e] >= 0 /\ Len(got[p]) >= closeAt[e]
    <3>1. CASE r.type = "alert"
      <4>1. r.data = << >> /\ closeAt[e] = Len(got[p]) /\ closeAt[e] >= 0
        BY <2>1, <2>3, <2>4, <3>1, <1>AlertAtEnd, Zenon
      <4>2. eof'[p] = TRUE
        BY <2>14, <3>1, Zenon
      <4>3. got'[p] = got[p]
        <5>1. Take(<< >>, size[g]) = << >>
          BY <2>9, SMTT(30) DEF Take
        <5>2. got[p] \o << >> = got[p]
          BY <2>9, SMTT(30)
        <5> QED
          BY <2>11, <4>1, <5>1, <5>2, Zenon
      <4>4. Len(got[p]) >= closeAt[e]
        <5>1. Len(got[p]) \in Nat
          BY <2>9, SMTT(30)
        <5> QED
          BY <4>1, <5>1, SMTT(30)
      <4> QED
        BY <4>1, <4>2, <4>3, <4>4, Zenon
    <3>2. CASE r.type # "alert"
      <4>1. eof[p] \in BOOLEAN
        BY <2>1, <2>10, Zenon
      <4>2. eof'[p] = eof[p]
        BY <2>14, <3>2, <4>1, Zenon
      <4> QED
        BY <4>2, Zenon
    <3> QED
      BY <3>1, <3>2, Zenon
  <2> QED
    BY <2>1, <2>8, <2>13, <2>14, <2>17, <2>18, <2>19, Zenon DEF Reads, p, e

\* At the end of the raw connection only a Read after close_notify reports io.EOF
\* again.
<1>ReadEOF.
      ASSUME NEW g \in Reader, ReadEOF(g), \A d \in End : Stream(d)
      PROVE  eof' = eof /\ \A d \in End : Stream(d)'
  <2> USE <1>ReadEOF
  <2> DEFINE p == EndOf[g]
  <2>1. p \in End /\ Peer(p) \in End /\ Peer(Peer(p)) = p
    <3>1. p \in End
      BY ConnAssumption, Zenon DEF Goroutine
    <3> QED
      BY <3>1, PeerFacts, Zenon
  <2>2. closeNotifyReceived[p] => eof[p]
    BY <2>1, Zenon DEF Stream
  <2>3. eof' = [eof EXCEPT ![p] = eof[p] \/ CleanEOF(g)] /\ eof \in [End -> BOOLEAN]
    BY Zenon DEF ReadEOF, Set, TypeOK
  <2>4. CleanEOF(g) => closeNotifyReceived[p]
    BY Zenon DEF CleanEOF
  <2>5. (eof[p] \/ CleanEOF(g)) = eof[p]
    BY <2>1, <2>2, <2>3, <2>4, Zenon
  <2>6. eof' = eof
    BY <2>3, <2>5, Zenon
  <2>7. UNCHANGED <<sealed, sentBytes, closeAt, inSeq, readBuf, closeNotifyReceived, got>>
    BY Zenon DEF ReadEOF, cryptoVars
  <2>8. \A d \in End : closeNotifyReceived'[Peer(d)] => eof'[Peer(d)]
    BY <2>6, <2>7, Zenon DEF Stream
  <2> QED
    BY <2>6, <2>7, <2>8, <1>Frame, Zenon

<1>Reads.
      ASSUME NEW p \in End, Reads(p)
      PROVE  StreamSteps
  <2> USE <1>Reads
  <2> DEFINE e == Peer(p)
             x == got[p]
             y == got'[p]
             s == sentBytes[e]
  <2>1. e \in End /\ Peer(e) = p /\ \A d \in End : d = p \/ d = e
    BY PeerFacts, Zenon
  <2>2. x \in Seq(AppByte) /\ y \in Seq(AppByte) /\ s \in Seq(AppByte)
    <3>1. TypeOK'
      BY TypeStep, Zenon
    <3> QED
      BY <2>1, <3>1, Zenon DEF TypeOK
  <2>3. sentBytes' = sentBytes /\ closeAt' = closeAt /\ got'[e] = got[e] /\ eof'[e] = eof[e]
    BY Zenon DEF Reads
  <2>4. Len(x) <= Len(y) /\ Len(y) <= Len(s) /\ \A i \in 1 .. Len(x) : x[i] = y[i]
    BY Zenon DEF Reads
  <2>5. At(y, s, 0)
    BY Zenon DEF Reads
  <2>6. Len(x) \in Nat /\ Len(y) \in Nat /\ Len(s) \in Nat
    BY <2>2, SMTT(30)
  <2>7. \A i \in 1 .. Len(y) : y[i] = s[i]
    <3>1. \A i \in 1 .. Len(y) : 0 + i = i
      BY <2>6, SMTT(30)
    <3> QED
      BY <2>5, <3>1, Zenon DEF At
  <2>8. x = SubSeq(y, 1, Len(x))
    BY <2>2, <2>4, PrefixFacts, Zenon
  <2>9. y = SubSeq(s, 1, Len(y))
    BY <2>2, <2>4, <2>7, PrefixFacts, Zenon
  <2>10. Len(y) > Len(x) \/ y = x
    <3>1. ASSUME Len(y) = Len(x)
          PROVE  y = x
      BY <2>2, <2>4, <3>1, SameSeq, Zenon
    <3> QED
      BY <2>4, <2>6, <3>1, SMTT(30)
  <2>11. StreamStep(p)
    BY <2>3, Zenon DEF StreamStep
  <2>12. StreamStep(e)
    <3>1. CASE eof'[p] = eof[p] /\ Len(y) > Len(x)
      BY <2>1, <2>3, <2>4, <2>8, <2>9, <3>1, Zenon DEF StreamStep
    <3>2. CASE eof'[p] = eof[p] /\ y = x
      BY <2>1, <2>3, <3>2, Zenon DEF StreamStep
    <3>3. CASE /\ eof'[p] = TRUE /\ got'[p] = got[p]
               /\ closeAt[e] >= 0 /\ Len(got[p]) >= closeAt[e]
      BY <2>1, <2>3, <3>3, Zenon DEF StreamStep
    <3> QED
      BY <2>10, <3>1, <3>2, <3>3, Zenon DEF Reads
  <2> QED
    BY <2>1, <2>11, <2>12, Zenon DEF StreamSteps

<1>Put.
      ASSUME NEW g \in Writer \cup Closer, Put(g)
      PROVE  Streams' /\ StreamSteps
  BY <1>Put, <1>Quiet, Zenon DEF Put, cryptoVars

<1>Writer.
      ASSUME NEW g \in Writer, WriteCall(g) \/ WriteLock(g) \/ WriteStep(g)
      PROVE  Streams' /\ StreamSteps
  <2>1. CASE WriteCall(g) \/ WriteLock(g) \/ WriteChunkDone(g) \/ WriteReturn(g)
    BY <2>1, <1>Quiet, Zenon DEF WriteCall, WriteLock, WriteChunkDone, WriteReturn, cryptoVars
  <2>2. CASE WriteSeal(g)
    BY <1>Writer, <2>2, <1>WriteSealStream, <1>WriteSealStep, Zenon DEF Streams
  <2> QED
    BY <1>Writer, <2>1, <2>2, <1>Put, Zenon DEF WriteStep

<1>Reader.
      ASSUME NEW g \in Reader, ReadCall(g) \/ ReadDrain(g) \/ ReadLock(g) \/ ReadStep(g)
      PROVE  Streams' /\ StreamSteps
  <2>1. EndOf[g] \in End
    BY <1>Reader, ConnAssumption, Zenon DEF Goroutine
  <2>2. CASE ReadDrain(g)
    BY <1>Reader, <2>1, <2>2, <1>ReadDrain, <1>Reads, Zenon DEF Streams
  <2>3. CASE ReadRecord(g)
    BY <1>Reader, <2>1, <2>3, <1>ReadRecord, <1>Reads, Zenon DEF Streams
  <2>4. CASE ReadEOF(g)
    <3>1. eof' = eof /\ Streams'
      BY <1>Reader, <2>4, <1>ReadEOF, Zenon DEF Streams
    <3>2. UNCHANGED <<got, sentBytes, closeAt>>
      BY <2>4, Zenon DEF ReadEOF, cryptoVars
    <3>3. StreamSteps
      BY <3>1, <3>2, Zenon DEF StreamSteps, StreamStep
    <3> QED
      BY <3>1, <3>3, Zenon
  <2>5. CASE ReadCall(g) \/ ReadLock(g) \/ ReadHeader(g) \/ ReadUnsealFails(g) \/ ReadFail(g)
    BY <2>5, <1>Quiet, Zenon
    DEF ReadCall, ReadLock, ReadHeader, ReadUnsealFails, ReadFail, cryptoVars
  <2> QED
    BY <1>Reader, <2>2, <2>3, <2>4, <2>5, Zenon DEF ReadStep

<1>Closer.
      ASSUME NEW g \in Closer,
             CloseCall(g) \/ CloseSeal(g) \/ CloseNotifyDone(g) \/ CloseStep(g)
      PROVE  Streams' /\ StreamSteps
  <2>1. CASE CloseCall(g) \/ CloseNotifyDone(g) \/ CloseRaw(g) \/ CloseWait(g)
    BY <2>1, <1>Quiet, Zenon DEF CloseCall, CloseNotifyDone, CloseRaw, CloseWait, cryptoVars
  <2>2. CASE CloseSeal(g)
    BY <1>Closer, <2>2, <1>CloseSealStream, <1>CloseSealStep, Zenon DEF Streams
  <2> QED
    BY <1>Closer, <2>1, <2>2, <1>Put, Zenon DEF CloseStep

<1>RawStep.
      ASSUME NEW e \in End, RawStep(e)
      PROVE  Streams' /\ StreamSteps
  BY <1>RawStep, <1>Quiet, Zenon
  DEF RawStep, Break, SetReadDeadline, SetWriteDeadline, ReadExpire, WriteExpire, cryptoVars
<1> QED
  <2>1. CASE UNCHANGED vars
    BY <2>1, <1>Quiet, Zenon DEF vars, cryptoVars
  <2> QED
    BY <2>1, <1>Writer, <1>Reader, <1>Closer, <1>RawStep, Zenon DEF Next, RawStep

-----------------------------------------------------------------------------
(* The invariant *)

\* Every step keeps the invariant and is a step of the two streams, or none.
LEMMA NextStep ==
  ASSUME IInv, [Next]_vars
  PROVE  IInv' /\ StreamSteps
<1>1. TypeOK /\ Locks /\ Records /\ Writes /\ Streams
  BY Zenon DEF IInv
<1>2. TypeOK' /\ Locks' /\ Records' /\ Writes'
  BY <1>1, TypeStep, LocksStep, RecordsStep, WritesStep, Zenon
<1>3. Streams' /\ StreamSteps
  BY <1>1, StreamsStep, Zenon
<1> QED
  BY <1>2, <1>3, Zenon DEF IInv

\* The first state.
LEMMA InitIInv ==
  ASSUME Init
  PROVE  IInv
<1>1. TypeOK
  <2>1. SeqMax \in Nat /\ BufCap \in Nat /\ MaxCalls \in Nat
    BY ConnAssumption, Zenon
  <2>2. /\ writeMu \in [End -> Writer \cup Closer \cup {None}]
        /\ readMu \in [End -> Reader \cup {None}]
        /\ once \in [End -> {"new", "running", "done"}]
        /\ rawOpen \in [End -> BOOLEAN]
        /\ closeNotifyReceived \in [End -> BOOLEAN] /\ eof \in [End -> BOOLEAN]
        /\ readDL \in [End -> {"none", "armed", "expired"}]
        /\ writeDL \in [End -> {"none", "armed", "expired"}]
        /\ pc \in [Goroutine -> Labels]
    BY Zenon DEF Init, Labels
  <2>3. /\ sealed \in [End -> Seq([type : {"data", "alert"}, data : Seq(AppByte)])]
        /\ readBuf \in [End -> Seq(AppByte)] /\ got \in [End -> Seq(AppByte)]
        /\ sentBytes \in [End -> Seq(AppByte)]
        /\ rest \in [Writer -> Seq(AppByte)]
        /\ pending \in [Writer \cup Closer -> Seq(UnitType)]
        /\ wire \in [End -> Seq(UnitType)]
    BY SMTT(30) DEF Init
  <2>4. /\ inSeq \in [End -> 0 .. SeqMax] /\ hdr \in [Reader -> 0 .. SeqMax]
        /\ calls \in [Writer -> 0 .. MaxCalls] /\ size \in [Reader -> Nat]
        /\ acked \in [End -> Nat] /\ closeAt \in [End -> Nat \cup {-1}]
    BY <2>1, SMTT(30) DEF Init
  <2>5. \A e \in End : Len(wire[e]) <= BufCap
    <3>1. \A e \in End : wire[e] = << >>
      BY Zenon DEF Init
    <3> QED
      BY <2>1, <3>1, SMTT(30)
  <2> QED
    BY <2>2, <2>3, <2>4, <2>5, Zenon DEF TypeOK
<1>2. Locks
  <2>1. \A g \in Goroutine : pc[g] = "idle"
    BY Zenon DEF Init
  <2>2. \A e \in End : closeAt[e] = -1
    BY Zenon DEF Init
  <2> QED
    BY <2>1, <2>2, Zenon
    DEF Locks, WriteMuHeld, ReadMuHeld, CloseOnce, SealLabel, ReadLabel, CloseLabel
<1>3. Records
  <2>1. \A e \in End : sealed[e] = << >> /\ wire[e] = << >>
    BY Zenon DEF Init
  <2>2. \A g \in Writer \cup Closer : pending[g] = << >>
    BY Zenon DEF Init
  <2>3. SeqMax \in Nat
    BY ConnAssumption, Zenon
  <2> QED
    BY <2>1, <2>2, <2>3, SMTT(30) DEF Records, WireSealed, PendingSealed
<1>4. Writes
  <2>1. \A g \in Writer : pc[g] = "idle"
    BY Zenon DEF Init, Goroutine
  <2>2. \A e \in End : sentBytes[e] = << >> /\ closeAt[e] = -1
    BY Zenon DEF Init
  <2>3. \A g \in Writer : Progress(g)
    BY <2>1, Zenon DEF Progress, WriteLabel
  <2>4. \A e \in End : Sealed(e)
    BY <2>2, SMTT(30) DEF Sealed, Contiguous, NotCut
  <2> QED
    BY <2>3, <2>4, Zenon DEF Writes
<1>5. Streams
  <2> SUFFICES ASSUME NEW e \in End
               PROVE  Stream(e)
    BY Zenon DEF Streams
  <2> DEFINE p == Peer(e)
             off == [k \in 0 .. 0 |-> 0]
  <2>1. p \in End
    BY PeerFacts, Zenon
  <2>2. sealed[e] = << >> /\ sentBytes[e] = << >> /\ got[p] = << >> /\ readBuf[p] = << >>
    BY <2>1, Zenon DEF Init
  <2>3. inSeq[p] = 0
    BY <2>1, Zenon DEF Init
  <2>4. closeNotifyReceived[p] = FALSE
    BY <2>1, Zenon DEF Init
  <2>5. off \in Cuts(e) /\ off[0] = 0
    BY <2>2, SMTT(30) DEF Cuts
  <2> HIDE DEF off
  <2>6. Cut(e, off)
    BY <2>2, <2>5, SMTT(30) DEF Cut
  <2>7. Delivered(e, p, off)
    BY <2>2, <2>3, <2>5, SMTT(30) DEF Delivered, At
  <2> QED
    BY <2>4, <2>5, <2>6, <2>7, Zenon DEF Stream
<1> QED
  BY <1>1, <1>2, <1>3, <1>4, <1>5, Zenon DEF IInv

-----------------------------------------------------------------------------
(* Theorems *)

\* Whatever Reads, Writes and Closes run at either end, and whatever the raw
\* connection does, the mutexes, the records in flight, the Writes in progress and
\* the two streams stay as IInv says.
THEOREM InvariantHolds == Spec => []IInv
<1>1. Init => IInv
  BY InitIInv, Zenon
<1>2. IInv /\ [Next]_vars => IInv'
  BY NextStep, Zenon
<1> QED
  BY <1>1, <1>2, PTL DEF Spec

\* Conn's fields, the raw connection and the callers' locals keep their types: no
\* end seals more than SeqMax records, opens more, or overfills a buffer.
THEOREM TypeCorrect == Spec => []TypeOK
<1>1. IInv => TypeOK
  BY Zenon DEF IInv
<1> QED
  BY <1>1, InvariantHolds, PTL

\* writeMu, held over all chunks of a Write, keeps the bytes of each call together and
\* in order in the stream, whatever other Writes, Close and failed writes do.
THEOREM WritesStayContiguous == Spec => []WritesContiguous
<1>1. IInv => WritesContiguous
  BY Zenon DEF IInv, Writes, Sealed, Contiguous, WritesContiguous, SameCall, Who, Call, Pos
<1> QED
  BY <1>1, InvariantHolds, PTL

\* Close seals close_notify before or after a Write, never inside one.
THEOREM CloseFallsBetweenWrites == Spec => []CloseBetweenWrites
<1>1. ASSUME IInv, NEW e \in End, closeAt[e] >= 0,
             NEW i \in 1 .. closeAt[e], NEW j \in closeAt[e] + 1 .. Len(sentBytes[e])
      PROVE  ~SameCall(sentBytes[e][i], sentBytes[e][j])
  <2>1. Sealed(e) /\ TypeOK
    BY <1>1, Zenon DEF IInv, Writes
  <2>2. closeAt[e] <= Len(sentBytes[e]) /\ NotCut(sentBytes[e], closeAt[e])
    BY <2>1, Zenon DEF Sealed
  <2>3. closeAt[e] \in Nat \cup {-1} /\ Len(sentBytes[e]) \in Nat
    BY <2>1, SMTT(30) DEF TypeOK
  <2> DEFINE c == closeAt[e]
             n == Len(sentBytes[e])
  <2> HIDE DEF c, n
  <2>4. i \in 1 .. n /\ j \in 1 .. n /\ i <= c /\ c < j
    BY <1>1, <2>2, <2>3, SMTT(30) DEF c, n
  <2> QED
    BY <2>2, <2>4, Zenon DEF NotCut, c, n
<1>2. IInv => CloseBetweenWrites
  BY <1>1, Zenon DEF CloseBetweenWrites, SameCall, Who, Call
<1> QED
  BY <1>2, InvariantHolds, PTL

\* Each direction of a connection is a byte stream that ends once: sealing a chunk
\* writes to it, sealing close_notify ends it, a Read that returns bytes takes the
\* next ones, a Read that opens close_notify reports the end with nothing missing,
\* and no other step is visible.
THEOREM ConnIsStream == Spec => ImplementsStream
<1>1. Init => FromClient!Init /\ FromServer!Init
  BY Zenon DEF Init, End, FromClient!Init, FromServer!Init
<1>2. ASSUME IInv, [Next]_vars
      PROVE  /\ [FromClient!Next]_<<sentBytes["client"], closeAt["client"],
                                    got["server"], eof["server"]>>
             /\ [FromServer!Next]_<<sentBytes["server"], closeAt["server"],
                                    got["client"], eof["client"]>>
  <2>1. StreamStep("client") /\ StreamStep("server")
    BY <1>2, NextStep, Zenon DEF StreamSteps, End
  <2>2. Peer("client") = "server" /\ Peer("server") = "client"
    BY Zenon DEF Peer
  <2>3. [FromClient!Next]_<<sentBytes["client"], closeAt["client"], got["server"], eof["server"]>>
    BY <2>1, <2>2, Zenon
    DEF StreamStep, FromClient!Next, FromClient!Write, FromClient!EndStream, FromClient!Read,
        FromClient!EOF, FromClient!Extends
  <2>4. [FromServer!Next]_<<sentBytes["server"], closeAt["server"], got["client"], eof["client"]>>
    BY <2>1, <2>2, Zenon
    DEF StreamStep, FromServer!Next, FromServer!Write, FromServer!EndStream, FromServer!Read,
        FromServer!EOF, FromServer!Extends
  <2> QED
    BY <2>3, <2>4, Zenon
<1> QED
  BY <1>1, <1>2, InvariantHolds, PTL
  DEF Spec, ImplementsStream, FromClient!Spec, FromServer!Spec, FromClient!vars, FromServer!vars

=============================================================================
