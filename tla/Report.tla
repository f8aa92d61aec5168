------------------------------- MODULE Report -------------------------------
(***************************************************************************)
(* CSV attestation reports: how pkg/csvattest masks, signs and parses them *)
(* and verifies the certificates that vouch for the signature.             *)
(*                                                                         *)
(* A field is a sequence of words; masking combines each with the A nonce. *)
(* Keys and signatures are symbolic: a certificate names the key it        *)
(* certifies and the key that signed it, and a report's signature carries  *)
(* the bytes it was made over.                                             *)
(***************************************************************************)
EXTENDS Naturals

CONSTANTS
  Root,          \* attestation authorities, named for their root certificate
  Word, Zero,    \* the words of a field, and the word 0
  Xor(_, _),     \* bitwise exclusive or
  Width          \* words in a digest

ASSUME XorAssumption ==
  /\ Zero \in Word
  /\ \A a, b \in Word : Xor(a, b) \in Word /\ (Xor(a, b) = Zero <=> a = b)
  /\ \A a \in Word : Xor(a, Zero) = a
  /\ \A a, b, c \in Word : Xor(Xor(a, b), c) = Xor(a, Xor(b, c))

Field == [1 .. Width -> Word]

\* Applied to what it returned, it restores its argument.
UnmaskWords(f, anonce) == [i \in 1 .. Width |-> Xor(f[i], anonce)]

-----------------------------------------------------------------------------
(* Certificates *)

Role == {"HRK", "HSK", "CEK", "PEK"}
Issuer == [u \in Role |-> CASE u = "HRK" -> "HRK" [] u = "HSK" -> "HRK"
                            [] u = "CEK" -> "HSK" [] u = "PEK" -> "CEK"]

\* generateCertificates: the root signs itself and the HSK, that the CEK, that the PEK.
Certificates(r) ==
  [u \in Role |-> [usage |-> u, key |-> <<u, r>>, by |-> <<Issuer[u], r>>]]

\* Every certificate there is: nobody else has the keys to make one.
Issued == {Certificates(r)[u] : r \in Root, u \in Role}

verifyHygonSignature(c, key) == c.by = key

\* Each certificate has the usage of its place and is signed by the one before it.
VerifyCertChain(hrk, hsk, cek, pek) ==
  /\ hrk.usage = "HRK" /\ hsk.usage = "HSK" /\ cek.usage = "CEK" /\ pek.usage = "PEK"
  /\ verifyHygonSignature(hrk, hrk.key)
  /\ verifyHygonSignature(hsk, hrk.key)
  /\ verifyHygonSignature(cek, hsk.key)
  /\ verifyHygonSignature(pek, cek.key)

-----------------------------------------------------------------------------
(* Reports *)

\* The signature of authority r's PEK on user data u and measurement m as they stand in
\* the report, masked with a.  The last two record what was attested.
Signature(r, u, m, a) ==
  [key |-> <<"PEK", r>>, overUser |-> UnmaskWords(u, a), overMeasure |-> UnmaskWords(m, a),
   user |-> u, measure |-> m]

\* Generate: fields masked with the A nonce (the mock's is 0), PEK certificate included.
Generate(r, u, m, a) ==
  [userData |-> UnmaskWords(u, a), measure |-> UnmaskWords(m, a), anonce |-> a,
   pek |-> Certificates(r)["PEK"], pekMask |-> a, chipID |-> "printable",
   sig |-> Signature(r, u, m, a)]

\* A report as it may come from a peer: any fields, and a signature that some PEK made
\* on a measurement of Measured and user data of the guest's choice, whatever it is.
ReportType(Measured) ==
  [userData : Field, measure : Field, anonce : Word, pek : Issued, pekMask : Word,
   chipID : {"printable", "empty"},
   sig : {Signature(r, u, m, a) : r \in Root, u \in Field, m \in Measured, a \in Word}]

\* ParseReport: the fields unmasked.  It fails on an unusable chip ID, and on a PEK
\* certificate masked with another nonce, whose curve ID comes out wrong.
ParseOK(rep) == rep.chipID = "printable" /\ rep.pekMask = rep.anonce
UserData(rep) == UnmaskWords(rep.userData, rep.anonce)
Digest(rep) == UnmaskWords(rep.measure, rep.anonce)

\* The signature covers the masked user data and measurement, and not the A nonce, the
\* chip ID or the PEK certificate.
VerifyReportPEKSignature(rep) ==
  /\ rep.sig.key = rep.pek.key
  /\ rep.sig.overUser = rep.userData
  /\ rep.sig.overMeasure = rep.measure
=============================================================================
