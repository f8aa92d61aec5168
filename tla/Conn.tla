-------------------------------- MODULE Conn --------------------------------
(***************************************************************************)
(* conn.go after the handshake: Read, Write and Close of the two Conns of  *)
(* one connection, called by any number of goroutines, over a raw          *)
(* connection with a bounded buffer, deadlines, and ends that break.       *)
(*                                                                         *)
(* A record crosses the raw connection in two units, its header and its    *)
(* body, so that a write may stop, and a read may be cut off, in between.  *)
(* Sealing and opening are RecordLayer's: the k-th record of an end opens  *)
(* exactly at a receiver that has opened k - 1 of them.  A byte carries    *)
(* the goroutine, the call and the position it was written at.             *)
(***************************************************************************)
EXTENDS Integers, Sequences

CONSTANTS
  Writer, Reader, Closer,  \* the goroutines that call Write, Read and Close
  EndOf,                   \* the end each goroutine holds
  None,                    \* no goroutine: the mutex is free
  WriteLen, ReadLen,       \* the lengths of the slices passed to Write and Read
  MaxCalls,                \* bound: Write calls per goroutine
  MaxPlaintextLength,      \* bytes per record
  SeqMax,                  \* records an end seals before the sequence overflows
  BufCap,                  \* units the raw connection buffers in each direction
  Unreliable,              \* the ends whose raw connection may break
  ReadDeadlines,           \* the ends whose application sets read deadlines
  WriteDeadlines           \* the ends whose application sets write deadlines

End == {"client", "server"}
Peer(e) == IF e = "client" THEN "server" ELSE "client"
Goroutine == Writer \cup Reader \cup Closer

ASSUME ConnAssumption ==
  /\ None \notin Goroutine
  /\ EndOf \in [Goroutine -> End]
  /\ WriteLen \subseteq Nat /\ ReadLen \subseteq Nat \ {0}
  /\ MaxPlaintextLength \in Nat \ {0} /\ SeqMax \in Nat
  /\ BufCap \in Nat \ {0} /\ MaxCalls \in Nat

VARIABLES
  \* per end
  writeMu, readMu,   \* the mutexes of the Conn
  once,              \* closeOnce
  sealed,            \* the records sealed by outCipher, in order
  inSeq,             \* the sequence number of inCipher
  readBuf,           \* decrypted bytes no Read has taken yet
  closeNotifyReceived,
  wire,              \* units written to the raw connection and not read by the peer
  rawOpen,           \* the raw connection has not been closed and has not broken
  readDL, writeDL,   \* its deadlines
  \* per goroutine
  pc,
  rest,              \* Write: the bytes still to be sealed
  pending,           \* Write, Close: the units of the record being written
  hdr,               \* Read: the record whose header was read, 0 for a bogus one
  size,              \* Read: len(b)
  calls,             \* Write: how many calls were made
  \* history, per end
  sentBytes,         \* the application bytes sealed so far
  acked,             \* how many of them Write has counted as sent
  got,               \* the bytes Read has returned
  eof,               \* some Read has returned io.EOF
  closeAt            \* how many bytes were sealed before close_notify, -1 before that

muVars == <<writeMu, readMu, once>>
cryptoVars == <<sealed, sentBytes, acked, closeAt>>
readerVars == <<inSeq, readBuf, closeNotifyReceived, got, eof>>
rawVars == <<wire, rawOpen, readDL, writeDL>>
localVars == <<rest, pending, hdr, size, calls>>
vars == <<muVars, cryptoVars, readerVars, rawVars, pc, localVars>>

Unit(p, k) == [part |-> p, rec |-> k]

\* writeFull puts the whole record on the wire.
UnitsShortWrite(k) == <<Unit("header", k)>>
Units(k) == <<Unit("header", k), Unit("body", k)>>
CloseNotify == [type |-> "alert", data |-> << >>]
AppData(s) == [type |-> "data", data |-> s]

Init ==
  /\ writeMu = [e \in End |-> None] /\ readMu = [e \in End |-> None]
  /\ once = [e \in End |-> "new"]
  /\ sealed = [e \in End |-> << >>] /\ inSeq = [e \in End |-> 0]
  /\ readBuf = [e \in End |-> << >>]
  /\ closeNotifyReceived = [e \in End |-> FALSE]
  /\ wire = [e \in End |-> << >>] /\ rawOpen = [e \in End |-> TRUE]
  /\ readDL = [e \in End |-> "none"] /\ writeDL = [e \in End |-> "none"]
  /\ pc = [g \in Goroutine |-> "idle"]
  /\ rest = [g \in Writer |-> << >>]
  /\ pending = [g \in Writer \cup Closer |-> << >>]
  /\ hdr = [g \in Reader |-> 0] /\ size = [g \in Reader |-> 0]
  /\ calls = [g \in Writer |-> 0]
  /\ sentBytes = [e \in End |-> << >>] /\ acked = [e \in End |-> 0]
  /\ got = [e \in End |-> << >>] /\ eof = [e \in End |-> FALSE]
  /\ closeAt = [e \in End |-> -1]

Set(f, x, v) == [f EXCEPT ![x] = v]
Goto(g, l) == pc' = Set(pc, g, l)
Take(s, n) == SubSeq(s, 1, IF n < Len(s) THEN n ELSE Len(s))
Drop(s, n) == SubSeq(s, n + 1, Len(s))

-----------------------------------------------------------------------------
(* The raw connection: net.Conn over TCP *)

\* A write is refused once either end is gone or the write deadline has passed.
RawWriteFails(e) == ~rawOpen[e] \/ ~rawOpen[Peer(e)] \/ writeDL[e] = "expired"
\* It may still be accepted when only the peer is gone: the kernel learns of it later.
RawWriteOK(e) == rawOpen[e] /\ writeDL[e] # "expired" /\ Len(wire[e]) < BufCap

RawReadOK(e) == rawOpen[e] /\ readDL[e] # "expired" /\ wire[Peer(e)] # << >>
RawEOF(e) == /\ rawOpen[e] /\ readDL[e] # "expired"
             /\ wire[Peer(e)] = << >> /\ ~rawOpen[Peer(e)]
\* Closed here, timed out, or reset by a peer that went away with unread data.
RawReadFails(e) == \/ ~rawOpen[e]
                   \/ readDL[e] = "expired"
                   \/ ~rawOpen[Peer(e)] /\ wire[e] # << >>

\* The process of end e dies or its path fails: what was in flight is cut short.
Break(e) ==
  /\ e \in Unreliable /\ rawOpen[e]
  /\ rawOpen' = Set(rawOpen, e, FALSE)
  /\ \E n \in 0 .. Len(wire[e]) : wire' = Set(wire, e, Take(wire[e], n))
  /\ UNCHANGED <<muVars, cryptoVars, readerVars, readDL, writeDL, pc, localVars>>

\* SetReadDeadline and SetWriteDeadline; SetDeadline is one after the other.
SetReadDeadline(e) ==
  /\ e \in ReadDeadlines
  /\ \E d \in {"none", "armed"} : readDL' = Set(readDL, e, d)
  /\ UNCHANGED <<muVars, cryptoVars, readerVars, wire, rawOpen, writeDL, pc, localVars>>

SetWriteDeadline(e) ==
  /\ e \in WriteDeadlines
  /\ \E d \in {"none", "armed"} : writeDL' = Set(writeDL, e, d)
  /\ UNCHANGED <<muVars, cryptoVars, readerVars, wire, rawOpen, readDL, pc, localVars>>

\* Time reaches an armed deadline.
ReadExpire(e) ==
  /\ readDL[e] = "armed"
  /\ readDL' = Set(readDL, e, "expired")
  /\ UNCHANGED <<muVars, cryptoVars, readerVars, wire, rawOpen, writeDL, pc, localVars>>

WriteExpire(e) ==
  /\ writeDL[e] = "armed"
  /\ writeDL' = Set(writeDL, e, "expired")
  /\ UNCHANGED <<muVars, cryptoVars, readerVars, wire, rawOpen, readDL, pc, localVars>>

-----------------------------------------------------------------------------
(* Write *)

\* Seal has a sequence number left; if not it returns ErrSequenceOverflow.
CanSealUnchecked(e) == TRUE
CanSeal(e) == Len(sealed[e]) < SeqMax

Bytes(g, c, n) == [i \in 1 .. n |-> <<g, c, i>>]

WriteCall(g) ==
  /\ pc[g] = "idle" /\ calls[g] < MaxCalls
  /\ \E n \in WriteLen : rest' = Set(rest, g, Bytes(g, calls[g] + 1, n))
  /\ calls' = Set(calls, g, calls[g] + 1)
  /\ Goto(g, "write lock")
  /\ UNCHANGED <<muVars, cryptoVars, readerVars, rawVars, pending, hdr, size>>

WriteLockNoMutex(g) ==
  /\ pc[g] = "write lock"
  /\ writeMu' = Set(writeMu, EndOf[g], g)
  /\ Goto(g, "write")
  /\ UNCHANGED <<readMu, once, cryptoVars, readerVars, rawVars, localVars>>

WriteLock(g) ==
  /\ pc[g] = "write lock" /\ writeMu[EndOf[g]] = None
  /\ writeMu' = Set(writeMu, EndOf[g], g)
  /\ Goto(g, "write")
  /\ UNCHANGED <<readMu, once, cryptoVars, readerVars, rawVars, localVars>>

\* Seal the next chunk: the sequence number moves on whatever becomes of the record.
WriteSeal(g) ==
  LET e == EndOf[g]
      chunk == Take(rest[g], MaxPlaintextLength)
  IN  /\ pc[g] = "write" /\ rest[g] # << >>
      /\ CanSeal(e)
      /\ sealed' = Set(sealed, e, Append(sealed[e], AppData(chunk)))
      /\ sentBytes' = Set(sentBytes, e, sentBytes[e] \o chunk)
      /\ pending' = Set(pending, g, Units(Len(sealed[e]) + 1))
      /\ Goto(g, "write put")
      /\ UNCHANGED <<muVars, acked, closeAt, readerVars, rawVars, rest, hdr, size, calls>>

\* One unit of writeFull, for Write and for Close.
Put(g) ==
  /\ pc[g] \in {"write put", "close put"} /\ pending[g] # << >>
  /\ RawWriteOK(EndOf[g])
  /\ wire' = Set(wire, EndOf[g], Append(wire[EndOf[g]], Head(pending[g])))
  /\ pending' = Set(pending, g, Tail(pending[g]))
  /\ UNCHANGED <<muVars, cryptoVars, readerVars, rawOpen, readDL, writeDL, pc,
                 rest, hdr, size, calls>>

\* writeFull returned: totalSent += chunkSize, on to the next chunk.
WriteChunkDone(g) ==
  LET e == EndOf[g]
      chunk == Take(rest[g], MaxPlaintextLength)
  IN  /\ pc[g] = "write put" /\ pending[g] = << >>
      /\ acked' = Set(acked, e, acked[e] + Len(chunk))
      /\ rest' = Set(rest, g, Drop(rest[g], Len(chunk)))
      /\ Goto(g, "write")
      /\ UNCHANGED <<muVars, sealed, sentBytes, closeAt, readerVars, rawVars, pending,
                     hdr, size, calls>>

\* Everything sent, ErrSequenceOverflow from Seal, or an error from writeFull.
WriteReturn(g) ==
  LET e == EndOf[g]
  IN  /\ \/ pc[g] = "write" /\ (rest[g] = << >> \/ ~CanSeal(e))
         \/ pc[g] = "write put" /\ pending[g] # << >> /\ RawWriteFails(e)
      /\ writeMu' = Set(writeMu, e, None)
      /\ rest' = Set(rest, g, << >>)
      /\ pending' = Set(pending, g, << >>)
      /\ Goto(g, "idle")
      /\ UNCHANGED <<readMu, once, cryptoVars, readerVars, rawVars, hdr, size, calls>>

-----------------------------------------------------------------------------
(* Read *)

\* What readBuf keeps of s when the caller's slice takes n bytes.
LeftoverUnsliced(s, n) == s
Leftover(s, n) == Drop(s, n)

ReadCall(g) ==
  /\ pc[g] = "idle"
  /\ \E n \in ReadLen : size' = Set(size, g, n)
  /\ Goto(g, "read lock")
  /\ UNCHANGED <<muVars, cryptoVars, readerVars, rawVars, rest, pending, hdr, calls>>

\* The mutex is free and an earlier record left bytes over: lock, copy, unlock.
ReadDrain(g) ==
  LET e == EndOf[g]
  IN  /\ pc[g] = "read lock" /\ readMu[e] = None
      /\ readBuf[e] # << >>
      /\ got' = Set(got, e, got[e] \o Take(readBuf[e], size[g]))
      /\ readBuf' = Set(readBuf, e, Leftover(readBuf[e], size[g]))
      /\ Goto(g, "idle")
      /\ UNCHANGED <<muVars, cryptoVars, inSeq, closeNotifyReceived, eof, rawVars, localVars>>

ReadLock(g) ==
  /\ pc[g] = "read lock" /\ readMu[EndOf[g]] = None
  /\ readBuf[EndOf[g]] = << >>
  /\ readMu' = Set(readMu, EndOf[g], g)
  /\ Goto(g, "read header")
  /\ UNCHANGED <<writeMu, once, cryptoVars, readerVars, rawVars, localVars>>

\* Read takes the next unit off the raw connection.
Consume(e) ==
  /\ RawReadOK(e)
  /\ wire' = Set(wire, Peer(e), Tail(wire[Peer(e)]))
  /\ UNCHANGED <<rawOpen, readDL, writeDL>>

\* Read returns and unlocks readMu.
ReadReturn(g) ==
  /\ Goto(g, "idle")
  /\ readMu' = Set(readMu, EndOf[g], None)
  /\ hdr' = Set(hdr, g, 0)

\* A header.  The body of a record whose header an earlier Read lost is refused
\* here, unless it happens to look like a header.
ReadHeader(g) ==
  LET e == EndOf[g]
      u == Head(wire[Peer(e)])
  IN  /\ pc[g] = "read header"
      /\ Consume(e)
      /\ hdr' = Set(hdr, g, IF u.part = "header" THEN u.rec ELSE 0)
      /\ \/ Goto(g, "read body") /\ UNCHANGED readMu
         \/ /\ u.part = "body"
            /\ Goto(g, "idle")
            /\ readMu' = Set(readMu, e, None)
      /\ UNCHANGED <<writeMu, once, cryptoVars, readerVars, rest, pending, size, calls>>

\* Unseal succeeds on the header and the body of the record inCipher is waiting for.
UnsealOK(e, h, u) == u = Unit("body", h) /\ h = inSeq[e] + 1

\* The payload is read and opened; the rest of what the caller has no room for is
\* kept, close_notify becomes io.EOF, an empty record sends Read back to the header.
ReadRecord(g) ==
  LET e == EndOf[g]
      r == sealed[Peer(e)][hdr[g]]
      more == r.type = "data" /\ r.data = << >>
  IN  /\ pc[g] = "read body"
      /\ Consume(e)
      /\ UnsealOK(e, hdr[g], Head(wire[Peer(e)]))
      /\ inSeq' = Set(inSeq, e, inSeq[e] + 1)
      /\ closeNotifyReceived' = Set(closeNotifyReceived, e,
                                    closeNotifyReceived[e] \/ r.type = "alert")
      /\ eof' = Set(eof, e, eof[e] \/ r.type = "alert")
      /\ got' = Set(got, e, got[e] \o Take(r.data, size[g]))
      /\ readBuf' = Set(readBuf, e, Leftover(r.data, size[g]))
      /\ IF more THEN Goto(g, "read header") /\ UNCHANGED <<readMu, hdr>> ELSE ReadReturn(g)
      /\ UNCHANGED <<writeMu, once, cryptoVars, rest, pending, size, calls>>

\* The payload does not open: "teetls: unseal record"; inCipher keeps its number.
ReadUnsealFails(g) ==
  LET e == EndOf[g]
  IN  /\ pc[g] = "read body"
      /\ Consume(e)
      /\ ~UnsealOK(e, hdr[g], Head(wire[Peer(e)]))
      /\ ReadReturn(g)
      /\ UNCHANGED <<writeMu, once, cryptoVars, readerVars, rest, pending, size, calls>>

\* The raw connection ends.  Between records that is io.EOF if close_notify came
\* before, and "connection closed without close_notify" if not; inside a record it
\* is "truncated TLS record".
CleanEOF(g) == pc[g] = "read header" /\ closeNotifyReceived[EndOf[g]]

ReadEOF(g) ==
  LET e == EndOf[g]
  IN  /\ pc[g] \in {"read header", "read body"}
      /\ RawEOF(e)
      /\ eof' = Set(eof, e, eof[e] \/ CleanEOF(g))
      /\ ReadReturn(g)
      /\ UNCHANGED <<writeMu, once, cryptoVars, inSeq, readBuf, closeNotifyReceived, got,
                     rawVars, rest, pending, size, calls>>

\* Any other error of the raw connection, a passed deadline included.
ReadFail(g) ==
  LET e == EndOf[g]
  IN  /\ pc[g] \in {"read header", "read body"}
      /\ RawReadFails(e)
      /\ ReadReturn(g)
      /\ UNCHANGED <<writeMu, once, cryptoVars, readerVars, rawVars, rest, pending, size, calls>>

-----------------------------------------------------------------------------
(* Close *)

\* The first caller runs the body of closeOnce, the others wait for it.
CloseCall(g) ==
  LET e == EndOf[g]
  IN  /\ pc[g] = "idle"
      /\ \/ /\ once[e] = "new"
            /\ once' = Set(once, e, "running")
            /\ Goto(g, "close lock")
         \/ /\ once[e] # "new"
            /\ Goto(g, "close wait")
            /\ UNCHANGED once
      /\ UNCHANGED <<writeMu, readMu, cryptoVars, readerVars, rawVars, localVars>>

CloseSealNoMutex(g) ==
  LET e == EndOf[g]
  IN  /\ pc[g] = "close lock"
      /\ CanSeal(e)
      /\ sealed' = Set(sealed, e, Append(sealed[e], CloseNotify))
      /\ closeAt' = Set(closeAt, e, Len(sentBytes[e]))
      /\ writeDL' = Set(writeDL, e, "armed")
      /\ pending' = Set(pending, g, Units(Len(sealed[e]) + 1))
      /\ Goto(g, "close put")
      /\ UNCHANGED <<muVars, sentBytes, acked, readerVars, wire, rawOpen, readDL,
                     rest, hdr, size, calls>>

\* Lock writeMu, seal close_notify, give its write 500 ms.
CloseSeal(g) ==
  LET e == EndOf[g]
  IN  /\ pc[g] = "close lock" /\ writeMu[e] = None
      /\ CanSeal(e)
      /\ sealed' = Set(sealed, e, Append(sealed[e], CloseNotify))
      /\ closeAt' = Set(closeAt, e, Len(sentBytes[e]))
      /\ writeMu' = Set(writeMu, e, g)
      /\ writeDL' = Set(writeDL, e, "armed")
      /\ pending' = Set(pending, g, Units(Len(sealed[e]) + 1))
      /\ Goto(g, "close put")
      /\ UNCHANGED <<readMu, once, sentBytes, acked, readerVars, wire, rawOpen, readDL,
                     rest, hdr, size, calls>>

CloseNotifyDoneLocked(g) ==
  /\ \/ pc[g] = "close lock" /\ writeMu[EndOf[g]] = None /\ ~CanSeal(EndOf[g])
     \/ pc[g] = "close put" /\ (pending[g] = << >> \/ RawWriteFails(EndOf[g]))
  /\ pending' = Set(pending, g, << >>)
  /\ Goto(g, "close raw")
  /\ UNCHANGED <<muVars, cryptoVars, readerVars, rawVars, rest, hdr, size, calls>>

\* Seal fails, or close_notify is written, or its write fails: unlock.
CloseNotifyDone(g) ==
  LET e == EndOf[g]
  IN  /\ \/ pc[g] = "close lock" /\ writeMu[e] = None /\ ~CanSeal(e)
         \/ pc[g] = "close put" /\ (pending[g] = << >> \/ RawWriteFails(e))
      /\ writeMu' = Set(writeMu, e, None)
      /\ pending' = Set(pending, g, << >>)
      /\ Goto(g, "close raw")
      /\ UNCHANGED <<readMu, once, cryptoVars, readerVars, rawVars, rest, hdr, size, calls>>

CloseRawLeftOpen(g) ==
  /\ pc[g] = "close raw"
  /\ once' = Set(once, EndOf[g], "done")
  /\ Goto(g, "idle")
  /\ UNCHANGED <<writeMu, readMu, cryptoVars, readerVars, rawVars, localVars>>

\* rawConn.Close: pending calls of this end fail, the peer reads on to the end.
CloseRaw(g) ==
  LET e == EndOf[g]
  IN  /\ pc[g] = "close raw"
      /\ rawOpen' = Set(rawOpen, e, FALSE)
      /\ once' = Set(once, e, "done")
      /\ Goto(g, "idle")
      /\ UNCHANGED <<writeMu, readMu, cryptoVars, readerVars, wire, readDL, writeDL, localVars>>

CloseWait(g) ==
  /\ pc[g] = "close wait" /\ once[EndOf[g]] = "done"
  /\ Goto(g, "idle")
  /\ UNCHANGED <<muVars, cryptoVars, readerVars, rawVars, localVars>>

-----------------------------------------------------------------------------
WriteStep(g) == WriteSeal(g) \/ Put(g) \/ WriteChunkDone(g) \/ WriteReturn(g)
ReadStep(g) ==
  ReadHeader(g) \/ ReadRecord(g) \/ ReadUnsealFails(g) \/ ReadEOF(g) \/ ReadFail(g)
CloseStep(g) == Put(g) \/ CloseRaw(g) \/ CloseWait(g)

Next ==
  \/ \E g \in Writer : WriteCall(g) \/ WriteLock(g) \/ WriteStep(g)
  \/ \E g \in Reader : ReadCall(g) \/ ReadDrain(g) \/ ReadLock(g) \/ ReadStep(g)
  \/ \E g \in Closer : CloseCall(g) \/ CloseSeal(g) \/ CloseNotifyDone(g) \/ CloseStep(g)
  \/ \E e \in End : \/ Break(e) \/ SetReadDeadline(e) \/ SetWriteDeadline(e)
                     \/ ReadExpire(e) \/ WriteExpire(e)

Spec == Init /\ [][Next]_vars

\* A goroutine inside a call runs on, sync.Mutex starves nobody, and an armed
\* deadline passes.  No call has to be made, and nothing has to break.
Fairness ==
  /\ \A g \in Writer : WF_vars(WriteStep(g)) /\ SF_vars(WriteLock(g))
  /\ \A g \in Reader : WF_vars(ReadStep(g)) /\ SF_vars(ReadDrain(g) \/ ReadLock(g))
  /\ \A g \in Closer : WF_vars(CloseStep(g)) /\ SF_vars(CloseSeal(g) \/ CloseNotifyDone(g))
  /\ \A e \in End : WF_vars(ReadExpire(e)) /\ WF_vars(WriteExpire(e))

FairSpec == Spec /\ Fairness

\* The applications go on calling Read.
KeepReading == \A g \in Reader : WF_vars(ReadCall(g))

-----------------------------------------------------------------------------
(* Properties *)

Labels == {"idle", "write lock", "write", "write put", "read lock", "read header",
           "read body", "close lock", "close put", "close raw", "close wait"}
AppByte == Writer \X (1 .. MaxCalls) \X Nat
UnitType == [part : {"header", "body"}, rec : 1 .. SeqMax]

\* The types of Conn's fields, the raw connection and the callers' locals.
TypeOK ==
  /\ writeMu \in [End -> Writer \cup Closer \cup {None}]
  /\ readMu \in [End -> Reader \cup {None}]
  /\ once \in [End -> {"new", "running", "done"}]
  /\ sealed \in [End -> Seq([type : {"data", "alert"}, data : Seq(AppByte)])]
  /\ inSeq \in [End -> 0 .. SeqMax]
  /\ readBuf \in [End -> Seq(AppByte)] /\ got \in [End -> Seq(AppByte)]
  /\ sentBytes \in [End -> Seq(AppByte)]
  /\ acked \in [End -> Nat] /\ closeAt \in [End -> Nat \cup {-1}]
  /\ closeNotifyReceived \in [End -> BOOLEAN] /\ eof \in [End -> BOOLEAN]
  /\ wire \in [End -> Seq(UnitType)] /\ rawOpen \in [End -> BOOLEAN]
  /\ \A e \in End : Len(wire[e]) <= BufCap
  /\ readDL \in [End -> {"none", "armed", "expired"}]
  /\ writeDL \in [End -> {"none", "armed", "expired"}]
  /\ pc \in [Goroutine -> Labels]
  /\ rest \in [Writer -> Seq(AppByte)]
  /\ pending \in [Writer \cup Closer -> Seq(UnitType)]
  /\ hdr \in [Reader -> 0 .. SeqMax] /\ size \in [Reader -> Nat]
  /\ calls \in [Writer -> 0 .. MaxCalls]

FromClient == INSTANCE ByteStream WITH
  written <- sentBytes["client"], end <- closeAt["client"],
  read <- got["server"], eof <- eof["server"]

FromServer == INSTANCE ByteStream WITH
  written <- sentBytes["server"], end <- closeAt["server"],
  read <- got["client"], eof <- eof["client"]

\* Each direction is a stream of bytes that ends once: concurrent Reads, partial
\* writes, timeouts in the middle of a record and retries after them never make Read
\* return a byte twice, skip one or reorder them, and Read reports io.EOF only after
\* the peer's Close, with every byte sealed before close_notify returned.  A
\* connection cut short is never taken for one that was closed.
ImplementsStream == FromClient!Spec /\ FromServer!Spec

\* The chunks of one Write are never interleaved with another's: bytes of one call
\* stand in the stream exactly as far apart as in the caller's slice.
WritesContiguous ==
  \A e \in End : \A i, j \in 1 .. Len(sentBytes[e]) :
    LET x == sentBytes[e][i]
        y == sentBytes[e][j]
    IN  x[1] = y[1] /\ x[2] = y[2] => j - i = y[3] - x[3]

\* close_notify never falls inside a Write: a Write that Close overtakes while it
\* waits for writeMu is sent whole behind the end of the stream, and what a receiver
\* has at io.EOF is made of whole Writes, and of ones that reported an error.
CloseBetweenWrites ==
  \A e \in End : closeAt[e] >= 0 =>
    \A i \in 1 .. closeAt[e], j \in closeAt[e] + 1 .. Len(sentBytes[e]) :
      LET x == sentBytes[e][i]
          y == sentBytes[e][j]
      IN  <<x[1], x[2]>> # <<y[1], y[2]>>

\* Once Close has run, every call on that end returns: Read, Write or Close.
CallsReturnAfterClose ==
  \A g \in Goroutine :
    once[EndOf[g]] = "done" /\ pc[g] # "idle" ~> pc[g] = "idle"

\* Every byte Write has counted as sent is returned by some Read, if the receiver
\* keeps reading, does not close, sets no deadline, and the connection holds.
AckedIsDelivered ==
  KeepReading => \A e \in End : []<>(Len(got[Peer(e)]) >= acked[e])

\* A Write and a Close return as long as the peer's application keeps reading: no
\* path through them leaves writeMu locked, and Close's own deadline is not needed.
WriteAndCloseReturn ==
  KeepReading => \A g \in Writer \cup Closer : pc[g] # "idle" ~> pc[g] = "idle"

\* conn.go:232: Close closes the underlying raw connection.
CloseReturns == \A g \in Closer : pc[g] # "idle" ~> pc[g] = "idle"
=============================================================================
