-------------------------- MODULE HandshakeReader --------------------------
(***************************************************************************)
(* handshake.go between the handshake and its records, for one direction:  *)
(* the hello in plaintext records, the encrypted messages up to Finished,  *)
(* then the records of the application, which the handshake must leave to  *)
(* Conn.  The peer is this code, which starts every message in a record of *)
(* its own, or another implementation, which splits and packs messages     *)
(* into records as it likes and may send an alert or a message too many,   *)
(* or pack one behind its hello, which the protocol forbids.               *)
(*                                                                         *)
(* Sealing is RecordLayer's: a record opens if it has the key the reader   *)
(* expects.  A failed read ends the handshake, so header and payload are   *)
(* read in one step.                                                       *)
(***************************************************************************)
EXTENDS Naturals, Sequences

CONSTANTS
  Body,                     \* message bodies
  K,                        \* encrypted messages of this direction, Finished included
  Base,                     \* values of a byte
  MaxPlaintextLength,       \* handshake bytes in a record
  maxHandshakeBufferSize,   \* what a reader buffers at most
  Cap                       \* bound: records in flight

HandshakeHeaderLen == 4
Hello == 1
Encrypted == 2

ASSUME ReaderAssumption ==
  /\ Base \in Nat /\ Base > Encrypted
  /\ K \in Nat \ {0} /\ Cap \in Nat \ {0} /\ MaxPlaintextLength \in Nat \ {0}
  /\ maxHandshakeBufferSize \in Nat
  /\ \A b \in Body : b \in Seq(0 .. Base - 1) /\ Len(b) < Base * Base * Base

VARIABLES
  own,      \* the peer is this code
  sent,     \* messages the peer has begun to write
  out,      \* their bytes that are in no record yet
  wire,     \* records not yet read
  peer,     \* "writing", then "application" after the handshake, "mixed" or "stopped"
  pc,       \* the reader: "plain", "encrypted", "check", "done" or "failed"
  buf,      \* assembled, or hr.buf
  rcvd      \* messages handed to the handshake

vars == <<own, sent, out, wire, peer, pc, buf, rcvd>>

Init ==
  /\ own \in BOOLEAN
  /\ sent = << >> /\ out = << >> /\ wire = << >> /\ peer = "writing"
  /\ pc = "plain" /\ buf = << >> /\ rcvd = << >>

-----------------------------------------------------------------------------
(* Writing *)

\* Type and three length bytes, most significant first; what does not fit is lost.
encodeHandshakeMsg(m) ==
  LET n == Len(m.body)
  IN  <<m.type, (n \div (Base * Base)) % Base, (n \div Base) % Base, n % Base>> \o m.body

KeyOf(i) == IF i = 1 THEN "plain" ELSE "handshake"

\* The next message of the script.  This code hands it to the record layer when the one
\* before is written; another implementation may add one after Finished.
WriteMsg ==
  LET i == Len(sent) + 1
  IN  /\ peer = "writing"
      /\ own \/ i = 2 => out = << >>
      /\ i <= IF own THEN K + 1 ELSE K + 2
      /\ \E b \in Body :
           LET m == [type |-> IF i = 1 THEN Hello ELSE Encrypted, body |-> b]
           IN  \* writePlaintextHandshakeMsg refuses a hello longer than a record.
               /\ own /\ i = 1 => Len(encodeHandshakeMsg(m)) <= MaxPlaintextLength
               /\ sent' = Append(sent, m)
               /\ out' = out \o encodeHandshakeMsg(m)
      /\ UNCHANGED <<own, wire, peer, pc, buf, rcvd>>

\* Another implementation begins its next message in plaintext, behind a hello that is
\* not all in records yet.
PackBehindHello ==
  /\ peer = "writing" /\ ~own /\ Len(sent) = 1 /\ out # << >>
  /\ \E b \in Body :
       LET m == [type |-> Encrypted, body |-> b]
       IN  sent' = Append(sent, m) /\ out' = out \o encodeHandshakeMsg(m)
  /\ peer' = "mixed"
  /\ UNCHANGED <<own, wire, pc, buf, rcvd>>

\* writeEncryptedHandshakeMsg fills each record before it begins the next.
ChunkSizes ==
  LET max == IF Len(out) < MaxPlaintextLength THEN Len(out) ELSE MaxPlaintextLength
  IN  IF own THEN {max} ELSE 1 .. max

Record(k, t, d) == [key |-> k, type |-> t, data |-> d]
WriteKey == IF peer = "mixed" THEN "plain" ELSE KeyOf(Len(sent))

WriteRecord ==
  /\ peer \in {"writing", "mixed"} /\ out # << >> /\ Len(wire) < Cap
  /\ \E n \in ChunkSizes :
       /\ wire' = Append(wire, Record(WriteKey, "handshake", SubSeq(out, 1, n)))
       /\ out' = SubSeq(out, n + 1, Len(out))
  /\ UNCHANGED <<own, sent, peer, pc, buf, rcvd>>

\* The handshake is written: application data follows at once, under other keys.
WriteAppData ==
  /\ peer = "writing" /\ out = << >> /\ Len(sent) > K /\ Len(wire) < Cap
  /\ wire' = Append(wire, Record("application", "data", << >>))
  /\ peer' = "application"
  /\ UNCHANGED <<own, sent, out, pc, buf, rcvd>>

\* Another implementation gives up with an alert.
WriteAlert ==
  /\ peer = "writing" /\ ~own /\ sent # << >> /\ Len(wire) < Cap
  /\ wire' = Append(wire, Record(KeyOf(Len(sent)), "alert", << >>))
  /\ peer' = "stopped"
  /\ UNCHANGED <<own, sent, out, pc, buf, rcvd>>

\* The peer dies; a record it was writing never arrives whole.
Cut ==
  /\ peer \in {"writing", "mixed"}
  /\ peer' = "stopped"
  /\ UNCHANGED <<own, sent, out, wire, pc, buf, rcvd>>

-----------------------------------------------------------------------------
(* Reading *)

HasHeader == Len(buf) >= HandshakeHeaderLen
TotalLen == HandshakeHeaderLen + buf[2] * (Base * Base) + buf[3] * Base + buf[4]
Complete == HasHeader /\ Len(buf) >= TotalLen

Fail == pc' = "failed" /\ UNCHANGED <<buf, rcvd>>

\* ReadMsg gives up on a message before it reads the rest of it; the plaintext reader
\* only when the bytes have come.
Announced == pc = "encrypted" /\ HasHeader /\ TotalLen > maxHandshakeBufferSize

ReadTooLong ==
  /\ Announced
  /\ Fail
  /\ UNCHANGED <<own, sent, out, wire, peer>>

Buffered(r) == buf \o r.data

RecordOKUnbounded(r) ==
  /\ r.key = IF pc = "plain" THEN "plain" ELSE "handshake"
  /\ r.type = "handshake"

RecordOKStrict(r) ==
  /\ r.key = IF pc = "plain" THEN "plain" ELSE "handshake"
  /\ r.type = "handshake"
  /\ Len(Buffered(r)) < maxHandshakeBufferSize

\* The record opens, holds handshake data, and does not overfill the buffer.
RecordOK(r) ==
  /\ r.key = IF pc = "plain" THEN "plain" ELSE "handshake"
  /\ r.type = "handshake"
  /\ Len(Buffered(r)) <= maxHandshakeBufferSize

\* Another record is needed: it is read and kept, or refused.
ReadRecord ==
  /\ pc \in {"plain", "encrypted"} /\ ~Complete /\ ~Announced
  /\ wire # << >>
  /\ wire' = Tail(wire)
  /\ \/ RecordOK(Head(wire)) /\ buf' = Buffered(Head(wire)) /\ UNCHANGED <<pc, rcvd>>
     \/ ~RecordOK(Head(wire)) /\ Fail
  /\ UNCHANGED <<own, sent, out, peer>>

\* The connection ends where a record should begin, or within one.
ReadEOF ==
  /\ pc \in {"plain", "encrypted"} /\ ~Complete /\ ~Announced
  /\ wire = << >> /\ peer = "stopped"
  /\ Fail
  /\ UNCHANGED <<own, sent, out, wire, peer>>

Message == [type |-> buf[1], body |-> SubSeq(buf, HandshakeHeaderLen + 1, TotalLen)]

RestKept == buf
Rest == SubSeq(buf, TotalLen + 1, Len(buf))

\* readPlaintextHandshakeMsg has a whole message; it keeps nothing for a next call, so
\* more than one message is an error.
ReturnHello ==
  /\ pc = "plain" /\ Complete
  /\ \/ /\ Len(buf) = TotalLen
        /\ rcvd' = Append(rcvd, Message)
        /\ buf' = << >> /\ pc' = "encrypted"
     \/ Len(buf) > TotalLen /\ Fail
  /\ UNCHANGED <<own, sent, out, wire, peer>>

\* ReadMsg has a whole message; what follows it stays in hr.buf for the next call.
ReturnMsg ==
  /\ pc = "encrypted" /\ Complete /\ ~Announced
  /\ rcvd' = Append(rcvd, Message)
  /\ buf' = Rest
  /\ pc' = IF Len(rcvd) = K THEN "check" ELSE "encrypted"
  /\ UNCHANGED <<own, sent, out, wire, peer>>

HasRemainingIgnored == FALSE
HasRemaining == buf # << >>

\* After Finished: "unexpected trailing handshake data", or the handshake is over.
Finish ==
  /\ pc = "check"
  /\ pc' = IF HasRemaining THEN "failed" ELSE "done"
  /\ UNCHANGED <<own, sent, out, wire, peer, buf, rcvd>>

-----------------------------------------------------------------------------
Writer == WriteMsg \/ WriteRecord \/ WriteAppData
Reader == ReadTooLong \/ ReadRecord \/ ReadEOF \/ ReturnHello \/ ReturnMsg \/ Finish

Next == Writer \/ PackBehindHello \/ WriteAlert \/ Cut \/ Reader

Spec == Init /\ [][Next]_vars

\* Both ends run on.
FairSpec == Spec /\ WF_vars(Writer) /\ WF_vars(Reader)

-----------------------------------------------------------------------------
(* Properties *)

Msg == [type : {Hello, Encrypted}, body : Body]
Records == [key : {"plain", "handshake", "application"},
            type : {"handshake", "data", "alert"}, data : Seq(0 .. Base - 1)]

\* The types; neither reader ever holds more than maxHandshakeBufferSize bytes, whatever
\* lengths the peer announces.
TypeOK ==
  /\ own \in BOOLEAN /\ peer \in {"writing", "application", "mixed", "stopped"}
  /\ sent \in Seq(Msg) /\ rcvd \in Seq(Msg)
  /\ out \in Seq(0 .. Base - 1) /\ buf \in Seq(0 .. Base - 1)
  /\ Len(buf) <= maxHandshakeBufferSize
  /\ wire \in Seq(Records) /\ Len(wire) <= Cap
  /\ pc \in {"plain", "encrypted", "check", "done", "failed"}

Messages == INSTANCE OrderedChannel WITH Item <- Msg

\* The messages handed to the handshake are those the peer wrote, whole, in order and
\* once each, however they were split over records and packed into them.
ImplementsMessages == Messages!Spec

\* The sequences of s joined in order: FlattenSeq of SequencesExt, without the rest of it.
Flatten(s) ==
  IF Len(s) = 0
  THEN s
  ELSE LET front[i \in 1 .. Len(s)] == IF i = 1 THEN s[i] ELSE front[i - 1] \o s[i]
       IN  front[Len(s)]

\* Handshake bytes the reader has not been given yet, in records or before them.
HandshakeData(r) == IF r.type = "handshake" THEN r.data ELSE << >>
Coming == Flatten([i \in 1 .. Len(wire) |-> HandshakeData(wire[i])]) \o out

\* The encoding of all that was written after the first k messages.
WrittenAfter(k) ==
  Flatten([i \in 1 .. Len(sent) - k |-> encodeHandshakeMsg(sent[k + i])])

\* A handshake that completes has taken exactly its own messages off the connection: all
\* that was sent after Finished is still there for Conn's Read to open, or to refuse.
HandoffClean ==
  pc = "done" => Len(rcvd) = K + 1 /\ buf = << >> /\ Coming = WrittenAfter(K + 1)

\* A message fits if the buffer can hold it, with all that a peer may pack behind it.
Fits(m) ==
  Len(encodeHandshakeMsg(m)) + (IF own THEN 0 ELSE MaxPlaintextLength - 1)
    <= maxHandshakeBufferSize

\* A peer that keeps to the protocol is never refused for how it uses records: if its
\* messages fit, and it goes on, the handshake gets all of them.
FittingDelivered ==
  <>(\/ pc = "done"
     \/ peer \in {"stopped", "mixed"}
     \/ Len(sent) > K + 1
     \/ \E i \in 1 .. Len(sent) : ~Fits(sent[i]))
=============================================================================
