---------------------------- MODULE RecordLayer ----------------------------
(***************************************************************************)
(* record.go: one direction of the record layer.  Two RecordCiphers hold   *)
(* the same key and base IV: `out` seals at the sender, `in` opens at the  *)
(* receiver.  Any number of goroutines call Seal on the one and Unseal on  *)
(* the other; each cipher serialises them with its mutex.  The transport   *)
(* between them is not trusted: any record sealed so far may be presented  *)
(* to Unseal any number of times, in any order, damaged or not, or never.  *)
(*                                                                         *)
(* The AEAD is abstract: Open succeeds exactly on an undamaged record that *)
(* was sealed under the nonce it is opened with.                           *)
(***************************************************************************)
EXTENDS Integers, Sequences

CONSTANTS
  Sealer, Opener,          \* the goroutines that call Seal and Unseal
  None,                    \* no goroutine: the mutex is free
  SeqBits,                 \* the width of RecordCipher.seq (64 in the code)
  BaseIV,                  \* the low SeqBits bits of the base IV
  SealType,                \* the content types callers pass to Seal
  Plaintext,               \* the plaintexts callers pass to Seal
  Padding,                 \* the padding lengths callers pass to SealWithPadding
  MaxPlaintextLength, MaxCiphertextLength, GCMTagSize

RecordTypeChangeCipherSpec == 20
RecordTypeAlert == 21
RecordTypeHandshake == 22
RecordTypeApplicationData == 23
RecordType == 20 .. 23

Byte == 0 .. 255
SeqMax == 2^SeqBits - 1

\* deriveNonce: the base IV XOR the sequence number, bit by bit.
deriveNonce(s) ==
  [i \in 0 .. SeqBits - 1 |-> BaseIV[i] # ((s \div 2^i) % 2 = 1)]

ASSUME SizeAssumption ==
  /\ MaxPlaintextLength \in Nat
  /\ MaxCiphertextLength \in Nat
  /\ GCMTagSize \in Nat
ASSUME InputAssumption ==
  /\ SealType \subseteq RecordType
  /\ Plaintext \subseteq Seq(Byte)
  /\ Padding \subseteq Int
ASSUME GoroutineAssumption ==
  /\ None \notin Sealer \cup Opener
  /\ Sealer \cap Opener = {}
ASSUME SeqAssumption ==
  /\ SeqBits \in Nat \ {0}
  /\ BaseIV \in [0 .. SeqBits - 1 -> BOOLEAN]

-----------------------------------------------------------------------------
(* Framing *)

\* The inner plaintext: plaintext || contentType || zeros(paddingLen).
InnerPlaintext(contentType, plaintext, paddingLen) ==
  plaintext \o <<contentType>> \o [i \in 1 .. paddingLen |-> 0]

\* The checks SealWithPadding makes before it takes the mutex.
SealArgsOK(plaintext, paddingLen) ==
  /\ Len(plaintext) <= MaxPlaintextLength
  /\ paddingLen >= 0
  /\ Len(plaintext) + 1 + paddingLen + GCMTagSize <= MaxCiphertextLength

\* The index of the last non-zero byte, 0 if there is none.
ContentTypeIndex(inner) ==
  CHOOSE n \in 0 .. Len(inner) :
    /\ \A i \in n + 1 .. Len(inner) : inner[i] = 0
    /\ n > 0 => inner[n] # 0

\* What Unseal accepts of a decrypted record ...
InnerOK(inner) ==
  LET idx == ContentTypeIndex(inner)
  IN  /\ idx > 0
      /\ inner[idx] \in {RecordTypeAlert, RecordTypeHandshake, RecordTypeApplicationData}
      /\ idx - 1 <= MaxPlaintextLength

\* ... and what it returns for it.
ContentWithType(inner) ==
  LET idx == ContentTypeIndex(inner)
  IN  [type |-> inner[idx], data |-> SubSeq(inner, 1, idx)]

Content(inner) ==
  LET idx == ContentTypeIndex(inner)
  IN  [type |-> inner[idx], data |-> SubSeq(inner, 1, idx - 1)]

-----------------------------------------------------------------------------
VARIABLES
  pc,       \* where each goroutine is in its call
  sealArg,  \* the arguments of each sealer's call
  nonce,    \* the nonce it has derived
  openArg,  \* the record each opener's call is given
  outSeq, outMu,   \* seq and mu of the sealing cipher
  inSeq, inMu,     \* seq and mu of the opening cipher
  sealed,   \* the records Seal returned, in the order of their sequence numbers
  sent,     \* what the callers of Seal asked for, in the same order
  opened    \* what Unseal returned, in the order of the receiver's sequence numbers

vars == <<pc, sealArg, nonce, openArg, outSeq, outMu, inSeq, inMu, sealed, sent, opened>>
sealerVars == <<sealArg, nonce, outSeq, outMu, sealed, sent>>
openerVars == <<openArg, inSeq, inMu, opened>>

Goroutine == Sealer \cup Opener
Item == [type : SealType, data : Plaintext]   \* what a caller of Seal asks for
Nonce == {deriveNonce(s) : s \in 0 .. SeqMax}
Record == [nonce : Nonce, inner : Seq(Byte)]
Damage == {"none", "header", "body"}

NoArg == [type |-> RecordTypeAlert, data |-> << >>, padding |-> 0]
NoRecord == [nonce |-> deriveNonce(0), inner |-> << >>, damage |-> "header"]

\* NewRecordCipher at both ends: sequence numbers start at zero.
Init ==
  /\ pc = [g \in Goroutine |-> "idle"]
  /\ sealArg = [g \in Sealer |-> NoArg]
  /\ nonce = [g \in Sealer |-> deriveNonce(0)]
  /\ openArg = [g \in Opener |-> NoRecord]
  /\ outSeq = 0 /\ outMu = None
  /\ inSeq = 0 /\ inMu = None
  /\ sealed = << >> /\ sent = << >> /\ opened = << >>

Goto(g, l) == pc' = [pc EXCEPT ![g] = l]

\* rc.seq++ on an unsigned integer of SeqBits bits.
Increment(s) == (s + 1) % (SeqMax + 1)

-----------------------------------------------------------------------------
(* Seal and SealWithPadding *)

SealCall(g) ==
  /\ pc[g] = "idle"
  /\ \E t \in SealType, p \in Plaintext, n \in Padding :
       sealArg' = [sealArg EXCEPT ![g] = [type |-> t, data |-> p, padding |-> n]]
  /\ Goto(g, "sealing")
  /\ UNCHANGED <<nonce, outSeq, outMu, sealed, sent, openerVars>>

\* ErrPlaintextTooLarge, negative padding, ErrCiphertextTooLarge.
SealReject(g) ==
  /\ pc[g] = "sealing"
  /\ ~SealArgsOK(sealArg[g].data, sealArg[g].padding)
  /\ sealArg' = [sealArg EXCEPT ![g] = NoArg]
  /\ Goto(g, "idle")
  /\ UNCHANGED <<nonce, outSeq, outMu, sealed, sent, openerVars>>

SealLock(g) ==
  /\ pc[g] = "sealing"
  /\ SealArgsOK(sealArg[g].data, sealArg[g].padding)
  /\ outMu = None
  /\ outMu' = g
  /\ Goto(g, "seal locked")
  /\ UNCHANGED <<sealArg, nonce, outSeq, sealed, sent, openerVars>>

\* ErrSequenceOverflow; the deferred unlock runs on this path too.
SealOverflowLocked(g) ==
  /\ pc[g] = "seal locked"
  /\ outSeq = SeqMax
  /\ sealArg' = [sealArg EXCEPT ![g] = NoArg]
  /\ Goto(g, "idle")
  /\ UNCHANGED <<nonce, outSeq, outMu, sealed, sent, openerVars>>

SealOverflow(g) ==
  /\ pc[g] = "seal locked"
  /\ outSeq = SeqMax
  /\ outMu' = None
  /\ sealArg' = [sealArg EXCEPT ![g] = NoArg]
  /\ Goto(g, "idle")
  /\ UNCHANGED <<nonce, outSeq, sealed, sent, openerVars>>

SealNonceWraps(g) ==
  /\ pc[g] = "seal locked"
  /\ nonce' = [nonce EXCEPT ![g] = deriveNonce(outSeq)]
  /\ Goto(g, "seal nonce")
  /\ UNCHANGED <<sealArg, outSeq, outMu, sealed, sent, openerVars>>

SealNonce(g) ==
  /\ pc[g] = "seal locked"
  /\ outSeq # SeqMax
  /\ nonce' = [nonce EXCEPT ![g] = deriveNonce(outSeq)]
  /\ Goto(g, "seal nonce")
  /\ UNCHANGED <<sealArg, outSeq, outMu, sealed, sent, openerVars>>

\* aead.Seal, rc.seq++, unlock and return the record.
SealReturn(g) ==
  LET a == sealArg[g]
  IN  /\ pc[g] = "seal nonce"
      /\ sealed' = Append(sealed, [nonce |-> nonce[g],
                                   inner |-> InnerPlaintext(a.type, a.data, a.padding)])
      /\ sent' = Append(sent, [type |-> a.type, data |-> a.data])
      /\ outSeq' = Increment(outSeq)
      /\ outMu' = None
      /\ sealArg' = [sealArg EXCEPT ![g] = NoArg]
      /\ nonce' = [nonce EXCEPT ![g] = deriveNonce(0)]
      /\ Goto(g, "idle")
      /\ UNCHANGED openerVars

-----------------------------------------------------------------------------
(* Unseal *)

\* The transport presents some record sealed so far, damaged or not.  Damage to
\* the header, a wrong length and a truncated record fail the checks made before
\* the mutex is taken; other damage is left to the AEAD.
UnsealCall(g) ==
  /\ pc[g] = "idle"
  /\ \E i \in 1 .. Len(sealed), d \in Damage :
       openArg' = [openArg EXCEPT ![g] = [nonce |-> sealed[i].nonce,
                                          inner |-> sealed[i].inner, damage |-> d]]
  /\ Goto(g, "unsealing")
  /\ UNCHANGED <<inSeq, inMu, opened, sealerVars>>

\* ErrRecordTooShort, ErrInvalidRecordHeader, ErrRecordLengthMismatch,
\* ErrCiphertextTooLarge.
UnsealReject(g) ==
  /\ pc[g] = "unsealing"
  /\ openArg[g].damage = "header"
  /\ openArg' = [openArg EXCEPT ![g] = NoRecord]
  /\ Goto(g, "idle")
  /\ UNCHANGED <<inSeq, inMu, opened, sealerVars>>

UnsealLock(g) ==
  /\ pc[g] = "unsealing"
  /\ openArg[g].damage # "header"
  /\ inMu = None
  /\ inMu' = g
  /\ Goto(g, "unseal locked")
  /\ UNCHANGED <<openArg, inSeq, opened, sealerVars>>

\* aead.Open with the nonce of the receiver's own sequence number.
OpenOKAnyNonce(r) == r.damage = "none"
OpenOK(r) == r.damage = "none" /\ r.nonce = deriveNonce(inSeq)

\* ErrSequenceOverflow, a failed Open, ErrNoContentType,
\* ErrInvalidInnerContentType, ErrPlaintextTooLarge: seq stays as it is.
UnsealFail(g) ==
  /\ pc[g] = "unseal locked"
  /\ \/ inSeq = SeqMax
     \/ ~OpenOK(openArg[g])
     \/ ~InnerOK(openArg[g].inner)
  /\ inMu' = None
  /\ openArg' = [openArg EXCEPT ![g] = NoRecord]
  /\ Goto(g, "idle")
  /\ UNCHANGED <<inSeq, opened, sealerVars>>

UnsealOpen(g) ==
  /\ pc[g] = "unseal locked"
  /\ inSeq # SeqMax
  /\ OpenOK(openArg[g])
  /\ InnerOK(openArg[g].inner)
  /\ Goto(g, "unseal opened")
  /\ UNCHANGED <<sealerVars, openerVars>>

\* rc.seq++, unlock and return the content type and the plaintext.
UnsealReturn(g) ==
  /\ pc[g] = "unseal opened"
  /\ opened' = Append(opened, Content(openArg[g].inner))
  /\ inSeq' = Increment(inSeq)
  /\ inMu' = None
  /\ openArg' = [openArg EXCEPT ![g] = NoRecord]
  /\ Goto(g, "idle")
  /\ UNCHANGED sealerVars

-----------------------------------------------------------------------------
\* Reset, called on either cipher, does nothing.
Reset == UNCHANGED vars

SealStep(g) == SealReject(g) \/ SealOverflow(g) \/ SealNonce(g) \/ SealReturn(g)
UnsealStep(g) == UnsealReject(g) \/ UnsealFail(g) \/ UnsealOpen(g) \/ UnsealReturn(g)

Next ==
  \/ \E g \in Sealer : SealCall(g) \/ SealLock(g) \/ SealStep(g)
  \/ \E g \in Opener : UnsealCall(g) \/ UnsealLock(g) \/ UnsealStep(g)
  \/ Reset

Spec == Init /\ [][Next]_vars

\* A goroutine inside a call keeps running, and sync.Mutex does not starve a waiter.
\* Nobody is obliged to make a call.
Fairness ==
  /\ \A g \in Sealer : WF_vars(SealStep(g)) /\ SF_vars(SealLock(g))
  /\ \A g \in Opener : WF_vars(UnsealStep(g)) /\ SF_vars(UnsealLock(g))

FairSpec == Spec /\ Fairness

-----------------------------------------------------------------------------
(* Properties *)

\* The type of every variable (RecordCipher's fields and the callers' locals).
TypeOK ==
  /\ pc \in [Goroutine -> {"idle", "sealing", "seal locked", "seal nonce",
                           "unsealing", "unseal locked", "unseal opened"}]
  /\ sealArg \in [Sealer -> [type : RecordType, data : Seq(Byte), padding : Int]]
  /\ nonce \in [Sealer -> Nonce]
  /\ openArg \in [Opener -> [nonce : Nonce, inner : Seq(Byte), damage : Damage]]
  /\ outSeq \in 0 .. SeqMax /\ inSeq \in 0 .. SeqMax
  /\ outMu \in Sealer \cup {None} /\ inMu \in Opener \cup {None}
  /\ sealed \in Seq(Record)
  /\ sent \in Seq(Item) /\ opened \in Seq([type : Byte, data : Seq(Byte)])

\* No two records are ever sealed under one nonce: not by goroutines racing in
\* Seal, not by Reset, and not by a sequence number that wraps around.
NonceUnique ==
  \A i, j \in 1 .. Len(sealed) : sealed[i].nonce = sealed[j].nonce => i = j

\* What Unseal has returned is a prefix of what was passed to Seal: types and
\* plaintexts come back unchanged by framing and padding, in order, none twice and
\* none skipped, whatever the transport replays, reorders, drops or damages.
InOrderDelivery ==
  /\ Len(opened) <= Len(sent)
  /\ \A i \in 1 .. Len(opened) : opened[i] = sent[i]

\* Every call of Seal and Unseal returns: no error path keeps a mutex.
CallsReturn == \A g \in Goroutine : pc[g] # "idle" ~> pc[g] = "idle"

\* The record layer implements an ordered channel of (type, plaintext) items.
Channel == INSTANCE OrderedChannel WITH rcvd <- opened
ImplementsChannel == Channel!Spec
=============================================================================
