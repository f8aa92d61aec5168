--------------------------- MODULE VerifierProofs ---------------------------
(***************************************************************************)
(* What the verifier accepts and what is refused ahead of it, for any      *)
(* roots, bundles, measurements, configurations and peer certificates, and *)
(* for fields of any width.                                                *)
(***************************************************************************)
EXTENDS Verifier, TLAPS

-----------------------------------------------------------------------------
(* Masks *)

\* Masking twice is masking once, with the two nonces combined.
LEMMA MaskTwice ==
  ASSUME NEW f \in Field, NEW a \in Word, NEW b \in Word
  PROVE  UnmaskWords(UnmaskWords(f, a), b) = UnmaskWords(f, Xor(a, b))
<1>1. \A i \in 1 .. Width : Xor(Xor(f[i], a), b) = Xor(f[i], Xor(a, b))
  BY XorAssumption DEF Field
<1> QED BY <1>1 DEF UnmaskWords

\* The nonce 0, which the mock uses, masks nothing.
LEMMA MaskZero ==
  ASSUME NEW f \in Field
  PROVE  UnmaskWords(f, Zero) = f
<1>1. \A i \in 1 .. Width : Xor(f[i], Zero) = f[i]
  BY XorAssumption DEF Field
<1> QED BY <1>1 DEF UnmaskWords, Field

\* The signature does not cover the nonce of the A section: what is parsed from a signed
\* report is what was attested up to one word, and exactly that when a key's digest was
\* attested and a key's digest is parsed.
LEMMA NonceUnsigned ==
  ASSUME NEW rep \in ReportType(Measurement), VerifyReportPEKSignature(rep)
  PROVE  /\ \E n \in Word : /\ UserData(rep) = UnmaskWords(rep.sig.user, n)
                            /\ Digest(rep) = UnmaskWords(rep.sig.measure, n)
         /\ {rep.sig.user, UserData(rep)} \subseteq KeyDigest =>
              rep.sig.user = UserData(rep) /\ rep.sig.measure = Digest(rep)
<1>1. PICK r \in Root, u \in Field, m \in Measurement, a \in Word :
        rep.sig = Signature(r, u, m, a)
  BY DEF ReportType
<1>2. /\ rep.sig.user = u /\ rep.sig.measure = m
      /\ rep.sig.overUser = UnmaskWords(u, a) /\ rep.sig.overMeasure = UnmaskWords(m, a)
  BY <1>1 DEF Signature
<1>3. rep.userData = UnmaskWords(u, a) /\ rep.measure = UnmaskWords(m, a)
  BY <1>2 DEF VerifyReportPEKSignature
<1>4. rep.anonce \in Word /\ u \in Field /\ m \in Field
  BY VerifierAssumption DEF ReportType
<1> DEFINE n == Xor(a, rep.anonce)
<1>5. UserData(rep) = UnmaskWords(u, n) /\ Digest(rep) = UnmaskWords(m, n)
  BY <1>3, <1>4, MaskTwice DEF UserData, Digest
<1>6. n \in Word
  BY <1>4, XorAssumption
<1> HIDE DEF n
<1>7. u \in KeyDigest /\ UserData(rep) \in KeyDigest => n = Zero
  BY <1>5, <1>6, VerifierAssumption
<1>8. n = Zero => UserData(rep) = u /\ Digest(rep) = m
  BY <1>4, <1>5, MaskZero
<1> QED BY <1>2, <1>5, <1>6, <1>7, <1>8

-----------------------------------------------------------------------------
(* Certificates *)

\* A certificate with the usage of its place, signed by the key of the place before it,
\* is the one of the same authority.
LEMMA IssuedUnder ==
  ASSUME NEW c \in Issued, NEW h, c.by = <<Issuer[c.usage], h>>
  PROVE  h \in Root /\ c = Certificates(h)[c.usage] /\ c.key = <<c.usage, h>>
<1>1. PICK r \in Root, u \in Role : c = Certificates(r)[u]
  BY DEF Issued
<1>2. c.usage = u /\ c.key = <<u, r>> /\ c.by = <<Issuer[u], r>>
  BY <1>1 DEF Certificates
<1>3. r = h
  BY <1>2
<1> QED BY <1>1, <1>2, <1>3

\* A chain that verifies is that of the authority its root names, down to the PEK.
LEMMA ChainOfOneRoot ==
  ASSUME NEW h, NEW hsk \in Issued, NEW cek \in Issued, NEW pek \in Issued,
         VerifyCertChain(Certificates(h)["HRK"], hsk, cek, pek)
  PROVE  /\ h \in Root /\ pek.key = <<"PEK", h>>
         /\ hsk = Certificates(h)["HSK"] /\ cek = Certificates(h)["CEK"]
<1>1. Certificates(h)["HRK"].key = <<"HRK", h>>
  BY DEF Certificates, Role
<1>2. Issuer["HSK"] = "HRK" /\ Issuer["CEK"] = "HSK" /\ Issuer["PEK"] = "CEK"
  BY DEF Issuer, Role
<1>3. hsk.key = <<"HSK", h>> /\ hsk = Certificates(h)["HSK"]
  BY <1>1, <1>2, IssuedUnder DEF VerifyCertChain, verifyHygonSignature
<1>4. cek.key = <<"CEK", h>> /\ cek = Certificates(h)["CEK"]
  BY <1>2, <1>3, IssuedUnder DEF VerifyCertChain, verifyHygonSignature
<1> QED BY <1>2, <1>3, <1>4, IssuedUnder DEF VerifyCertChain, verifyHygonSignature

-----------------------------------------------------------------------------
(* The anchor *)

\* loadChainFromOptions returns the chain it was given, or none: never one half of
\* each source.
LEMMA ChainFromOneSource ==
  ASSUME NEW o, loadChainFromOptions(o) # NoChain
  PROVE  \/ /\ o.hrk # None /\ o.hskCek # None
            /\ loadChainFromOptions(o) = [hrk |-> o.hrk, hskCek |-> o.hskCek]
         \/ /\ o.hrk = None /\ o.hskCek = None
            /\ loadChainFromOptions(o) = [hrk |-> o.hrkPath, hskCek |-> o.hskCekPath]
            /\ "unreadable" \notin {o.hrkPath, o.hskCekPath}
BY DEF loadChainFromOptions

\* The chain used has the configured anchor for its root, and a bundle of a source that
\* may give one; an anchor in memory and explicit paths give no chain.
LEMMA ChainSources ==
  ASSUME NEW c \in ConfigType, ConfigOK(c), DirOK(c), NEW p \in CertificateType,
         loadChainFromOptions(VerifyOptions(c, p)) # NoChain
  PROVE  LET chain == loadChainFromOptions(VerifyOptions(c, p))
         IN  /\ chain.hrk = Anchor(c) /\ chain.hskCek \in Bundles(c) \cap Bundle
             /\ c.hrkPath # None => TrustedHRK(c) = None
<1> DEFINE o == VerifyOptions(c, p)
           chain == loadChainFromOptions(o)
<1>1. \/ o.hrk # None /\ o.hskCek # None /\ chain.hrk = o.hrk /\ chain.hskCek = o.hskCek
      \/ /\ o.hrk = None /\ o.hskCek = None /\ chain.hrk = o.hrkPath
         /\ chain.hskCek = o.hskCekPath /\ chain.hskCek # "unreadable" /\ chain # NoChain
  <2>1. \/ /\ o.hrk # None /\ o.hskCek # None
           /\ chain = [hrk |-> o.hrk, hskCek |-> o.hskCek]
        \/ /\ o.hrk = None /\ o.hskCek = None
           /\ chain = [hrk |-> o.hrkPath, hskCek |-> o.hskCekPath]
           /\ "unreadable" \notin {o.hrkPath, o.hskCekPath}
    BY ChainFromOneSource
  <2> HIDE DEF chain, o
  <2> QED BY <2>1 DEF chain, o
<1>2. /\ c.hskCekPath \in Bundle \cup {None, "unreadable"}
      /\ c.dirHSKCek \in Bundle \cup {"unreadable"}
      /\ p.hskCek \in Bundle \cup {None}
  BY DEF ConfigType, CertificateType
<1>3. CASE c.hrkPath # None /\ c.hskCekPath # None
  <2>1. o = Options(TrustedHRK(c), None, c.hrkPath, c.hskCekPath)
    BY <1>3 DEF VerifyOptions
  <2>2. /\ o.hrk = TrustedHRK(c) /\ o.hskCek = None
        /\ o.hrkPath = c.hrkPath /\ o.hskCekPath = c.hskCekPath
    BY <2>1 DEF Options
  <2> QED BY <1>1, <1>2, <1>3, <2>2 DEF Anchor, Bundles, ConfigOK
<1>4. CASE ~(c.hrkPath # None /\ c.hskCekPath # None) /\ c.dir
  <2>1. o = Options(IF TrustedHRK(c) = None THEN c.dirHRK ELSE TrustedHRK(c),
                    c.dirHSKCek, None, None)
    BY <1>4 DEF VerifyOptions
  <2>2. /\ o.hrk = IF TrustedHRK(c) = None THEN c.dirHRK ELSE TrustedHRK(c)
        /\ o.hskCek = c.dirHSKCek
    BY <2>1 DEF Options
  <2>3. c.dirHSKCek # "unreadable"
    BY <1>4 DEF ConfigOK, DirOK
  <2>4. o.hskCek # None
    BY <1>2, <2>2, <2>3, VerifierAssumption
  <2> QED BY <1>1, <1>2, <1>4, <2>2, <2>3, <2>4 DEF Anchor, Bundles, ConfigOK
<1>5. CASE ~(c.hrkPath # None /\ c.hskCekPath # None) /\ ~c.dir
  <2>1. o = Options(TrustedHRK(c), p.hskCek, None, None)
    BY <1>5 DEF VerifyOptions
  <2>2. o.hrk = TrustedHRK(c) /\ o.hskCek = p.hskCek /\ o.hrkPath = None /\ o.hskCekPath = None
    BY <2>1 DEF Options
  <2>3. o.hrk # None /\ o.hskCek # None
    BY <2>2 DEF loadChainFromOptions, NoChain
  <2> QED BY <1>1, <1>2, <1>5, <2>2, <2>3 DEF Anchor, Bundles, ConfigOK
<1> QED BY <1>3, <1>4, <1>5

\* The chain of a verified report is that of the configured anchor.
LEMMA ChainOfAnchor ==
  ASSUME NEW c \in ConfigType, ConfigOK(c), DirOK(c), NEW p \in CertificateType,
         VerifyReportWithOptions(VerifyOptions(c, p), p.report)
  PROVE  p.report.sig.key = <<"PEK", Anchor(c)>> /\ ChainUsable(c)
<1> DEFINE chain == loadChainFromOptions(VerifyOptions(c, p))
<1>1. ChainOK(chain, p.report.pek) /\ p.report.sig.key = p.report.pek.key
  BY DEF VerifyReportWithOptions, VerifyReportPEKSignature
<1>2. /\ chain.hrk = Anchor(c) /\ chain.hskCek \in Bundles(c) \cap Bundle
      /\ c.hrkPath # None => TrustedHRK(c) = None
  BY <1>1, ChainSources DEF ChainOK
<1>3. p.report.pek \in Issued
  BY DEF CertificateType, ReportType
<1> HIDE DEF chain
<1>4. HSKOf[chain.hskCek] \in Issued /\ CEKOf[chain.hskCek] \in Issued
  BY <1>2, VerifierAssumption
<1>5. /\ chain.hrk \in Root /\ p.report.pek.key = <<"PEK", chain.hrk>>
      /\ HSKOf[chain.hskCek] = Certificates(chain.hrk)["HSK"]
      /\ CEKOf[chain.hskCek] = Certificates(chain.hrk)["CEK"]
  BY <1>1, <1>3, <1>4, ChainOfOneRoot DEF ChainOK
<1>6. \E b \in Bundles(c) : Issues(Anchor(c), b)
  BY <1>2, <1>5 DEF Issues
<1>7. ChainUsable(c)
  BY <1>2, <1>6 DEF ChainUsable, DirOK
<1> QED BY <1>1, <1>2, <1>5, <1>7

\* The configured anchor is one of the local sources.
LEMMA AnchorLocal ==
  ASSUME NEW c, ChainUsable(c)
  PROVE  Anchor(c) \in LocalAnchors(c) \cap Root
BY VerifierAssumption DEF ChainUsable, Issues, Anchor, LocalAnchors

-----------------------------------------------------------------------------
(* What is accepted *)

\* A verified report has passed every check the verifier makes when it is not skipped.
LEMMA NotSkipped ==
  ASSUME NEW c, NEW p, ~c.skip, Verify(c, p) # "error"
  PROVE  ConfigOK(c) /\ p.validity = "now" /\ Verified(c, p)
BY DEF Verify

\* The result is what the entry function decided on the configuration, or the verifier
\* on the peer once it was admitted.
Decided ==
  /\ cfg \in Config /\ cert \in Certificate
  /\ entry \in {"DialContext", "Listen", "Conn"}
  /\ \/ result = "pending"
     \/ result = "refused" /\ ~AdmittedBy(entry, cfg)
     \/ AdmittedBy(entry, cfg) /\ result \in {"admitted", Verify(cfg, cert)}

LEMMA AlwaysDecided == Spec => []Decided
<1>1. Init => Decided
  BY DEF Init, Decided
<1>2. Decided /\ [Next]_vars => Decided'
  <2> SUFFICES ASSUME Decided, [Next]_vars PROVE Decided'
    OBVIOUS
  <2>1. CASE Admit
    BY <2>1 DEF Decided, Admit
  <2>2. CASE VerifyPeer
    BY <2>2 DEF Decided, VerifyPeer, Verify
  <2>3. CASE UNCHANGED vars
    BY <2>3 DEF Decided, vars
  <2> QED BY <2>1, <2>2, <2>3 DEF Next
<1> QED BY <1>1, <1>2, PTL DEF Spec

LEMMA DecidedAttested == Decided => AcceptsOnlyAttested
<1> SUFFICES ASSUME Decided, result \in {"evidence", "no evidence"}, ~cfg.skip
             PROVE  /\ cert.validity = "now" /\ cert.evidence = "present"
                    /\ \E r \in LocalAnchors(cfg) \cap Root : cert.report.sig.key = <<"PEK", r>>
                    /\ \E n \in Word : /\ cert.key = UnmaskWords(cert.report.sig.user, n)
                                       /\ Digest(cert.report) =
                                            UnmaskWords(cert.report.sig.measure, n)
                    /\ Mode(cfg) = "strict" => Digest(cert.report) \in cfg.measurements
                    /\ cert.report.sig.user \in KeyDigest =>
                         /\ cert.report.sig.user = cert.key
                         /\ cert.report.sig.measure = Digest(cert.report)
  BY DEF AcceptsOnlyAttested
<1>1. Verify(cfg, cert) # "error"
  BY DEF Decided
<1>2. ConfigOK(cfg) /\ cert.validity = "now" /\ Verified(cfg, cert)
  BY <1>1, NotSkipped
<1>3. cfg \in ConfigType /\ cert \in CertificateType
  BY VerifierAssumption DEF Decided
<1>4. cert.evidence = "present" /\ DirOK(cfg) /\ UserData(cert.report) = cert.key
      /\ VerifyReportWithOptions(VerifyOptions(cfg, cert), cert.report)
  BY <1>2 DEF Verified, KeyBound
<1>5. \E r \in LocalAnchors(cfg) \cap Root : cert.report.sig.key = <<"PEK", r>>
  BY <1>2, <1>3, <1>4, ChainOfAnchor, AnchorLocal
<1>6. cert.key \in KeyDigest /\ cert.report \in ReportType(Measurement)
  BY <1>3 DEF CertificateType
<1>7. /\ \E n \in Word : /\ cert.key = UnmaskWords(cert.report.sig.user, n)
                         /\ Digest(cert.report) = UnmaskWords(cert.report.sig.measure, n)
      /\ cert.report.sig.user \in KeyDigest =>
           cert.report.sig.user = cert.key /\ cert.report.sig.measure = Digest(cert.report)
  BY <1>4, <1>6, NonceUnsigned DEF VerifyReportWithOptions
<1>8. Mode(cfg) = "strict" => Digest(cert.report) \in cfg.measurements
  BY <1>2 DEF Verified, MeasurementOK
<1> QED BY <1>2, <1>4, <1>5, <1>7, <1>8

\* VerifyPeerCertificateAndEvidence accepts a peer only on a report that a machine under
\* a locally configured root signed, whatever user data its guest chose.  What is read
\* from it is what was attested up to one word, the same in both fields, and exactly the
\* peer's key and the measurement when the guest had a key's digest attested.
THEOREM OnlyAttestedAccepted == Spec => []AcceptsOnlyAttested
BY AlwaysDecided, DecidedAttested, PTL

-----------------------------------------------------------------------------
(* What the peer cannot change *)

\* With local intermediates the options do not depend on the peer's evidence.
LEMMA OptionsLocal ==
  ASSUME NEW c, NEW p, NEW q, ConfigOK(c), c.dir \/ c.hrkPath # None
  PROVE  VerifyOptions(c, p) = VerifyOptions(c, q)
BY DEF ConfigOK, VerifyOptions, Options

\* Whatever bundle the peer sends, a verifier with local intermediates decides the
\* same; dropping the peer's HRK never turns acceptance into refusal.
THEOREM PeerCannotShadow == Spec => []LocalNeverShadowed
<1>1. ASSUME cfg \in Config, cert \in Certificate
      PROVE  LocalNeverShadowed
  <2> SUFFICES ASSUME ~cfg.skip, cfg.dir \/ cfg.hrkPath # None
               PROVE  /\ \A b \in Bundle \cup {None} :
                           Verify(cfg, [cert EXCEPT !.hskCek = b]) = Verify(cfg, cert)
                      /\ Verify(cfg, cert) # "error" =>
                           Verify(cfg, [cert EXCEPT !.hrk = None]) = Verify(cfg, cert)
    BY DEF LocalNeverShadowed
  <2>1. cert \in CertificateType
    BY <1>1, VerifierAssumption
  <2>2. ASSUME NEW b \in Bundle \cup {None}
        PROVE  Verify(cfg, [cert EXCEPT !.hskCek = b]) = Verify(cfg, cert)
    <3> DEFINE q == [cert EXCEPT !.hskCek = b]
    <3>1. /\ q.validity = cert.validity /\ q.evidence = cert.evidence /\ q.hrk = cert.hrk
          /\ q.report = cert.report /\ q.key = cert.key
      BY <2>1 DEF CertificateType
    <3>2. ConfigOK(cfg) => VerifyOptions(cfg, q) = VerifyOptions(cfg, cert)
      BY OptionsLocal
    <3> HIDE DEF q
    <3>3. ConfigOK(cfg) => Verified(cfg, q) = Verified(cfg, cert)
      BY <3>1, <3>2 DEF Verified, PeerHRKOK, KeyBound, MeasurementOK
    <3>4. Verify(cfg, q) = Verify(cfg, cert)
      BY <3>1, <3>3 DEF Verify
    <3> QED BY <3>4 DEF q
  <2>3. ASSUME Verify(cfg, cert) # "error"
        PROVE  Verify(cfg, [cert EXCEPT !.hrk = None]) = Verify(cfg, cert)
    <3> DEFINE q == [cert EXCEPT !.hrk = None]
    <3>1. /\ q.validity = cert.validity /\ q.evidence = cert.evidence /\ q.hrk = None
          /\ q.report = cert.report /\ q.key = cert.key
      BY <2>1 DEF CertificateType
    <3>2. ConfigOK(cfg) => VerifyOptions(cfg, q) = VerifyOptions(cfg, cert)
      BY OptionsLocal
    <3> HIDE DEF q
    <3>3. ConfigOK(cfg) /\ Verified(cfg, cert)
      BY <2>3 DEF Verify
    <3>4. Verified(cfg, q)
      BY <3>1, <3>2, <3>3 DEF Verified, PeerHRKOK, KeyBound, MeasurementOK
    <3>5. Verify(cfg, q) = Verify(cfg, cert)
      BY <3>1, <3>3, <3>4 DEF Verify
    <3> QED BY <3>5 DEF q
  <2> QED BY <2>2, <2>3
<1>2. Decided => LocalNeverShadowed
  BY <1>1 DEF Decided
<1> QED BY <1>2, AlwaysDecided, PTL

-----------------------------------------------------------------------------
(* What is refused ahead of the verifier *)

\* A strict verifier with an empty whitelist refuses every peer.
LEMMA NobodyAccepted ==
  ASSUME NEW c, NEW p, NeverAccepts(c)
  PROVE  Verify(c, p) = "error"
<1>1. ~MeasurementOK(c, p)
  BY DEF NeverAccepts, MeasurementOK
<1> QED BY <1>1 DEF NeverAccepts, Verify, Verified

\* The peer that a configuration with usable chain material is meant for chains to its
\* anchor.
LEMMA MeantChain ==
  ASSUME NEW c \in ConfigType, ConfigOK(c), NEW p, p.hskCek \in Bundle,
         c.hrkPath # None => TrustedHRK(c) = None,
         Anchor(c) \in Root,
         (c.hrkPath = None /\ ~c.dir) \/ p.hskCek \in Bundles(c)
  PROVE  loadChainFromOptions(VerifyOptions(c, p)) = [hrk |-> Anchor(c), hskCek |-> p.hskCek]
<1> DEFINE o == VerifyOptions(c, p)
<1>1. Anchor(c) \notin {None, "unreadable"} /\ p.hskCek \notin {None, "unreadable"}
  BY VerifierAssumption
<1>2. CASE c.hrkPath # None
  <2>1. c.hskCekPath # None /\ TrustedHRK(c) = None
        /\ Anchor(c) = c.hrkPath /\ p.hskCek = c.hskCekPath
    BY <1>2 DEF ConfigOK, Anchor, Bundles
  <2>2. o = Options(None, None, Anchor(c), p.hskCek)
    BY <1>2, <2>1 DEF VerifyOptions
  <2> HIDE DEF o
  <2> QED BY <1>1, <2>2 DEF loadChainFromOptions, Options, o
<1>3. CASE c.hrkPath = None
  <2>1. o = Options(Anchor(c), p.hskCek, None, None)
    BY <1>1, <1>3 DEF VerifyOptions, Anchor, Bundles
  <2> HIDE DEF o
  <2> QED BY <1>1, <2>1 DEF loadChainFromOptions, Options, o
<1> QED BY <1>2, <1>3

\* The certificates of one authority verify as a chain.
LEMMA OwnChain ==
  ASSUME NEW r
  PROVE  VerifyCertChain(Certificates(r)["HRK"], Certificates(r)["HSK"],
                         Certificates(r)["CEK"], Certificates(r)["PEK"])
BY DEF VerifyCertChain, verifyHygonSignature, Certificates, Issuer, Role

\* Its report passes every check that does not depend on the configuration.
LEMMA MeantReport ==
  ASSUME NEW c, NEW b, NEW m \in Field, NEW d \in Field
  PROVE  LET p == MeantPeer(c, b, m, d)
         IN  /\ p.validity = "now" /\ p.evidence = "present" /\ p.hrk = None
             /\ p.hskCek = b /\ p.report.pek = Certificates(Anchor(c))["PEK"]
             /\ ParseOK(p.report) /\ VerifyReportPEKSignature(p.report)
             /\ KeyBound(p) /\ Digest(p.report) = m
<1> DEFINE rep == Generate(Anchor(c), d, m, Zero)
           p == MeantPeer(c, b, m, d)
<1>1. /\ p.validity = "now" /\ p.evidence = "present" /\ p.hrk = None
      /\ p.hskCek = b /\ p.report = rep /\ p.key = d
  BY DEF MeantPeer
<1>2. /\ rep.pek = Certificates(Anchor(c))["PEK"] /\ rep.pekMask = Zero /\ rep.anonce = Zero
      /\ rep.userData = d /\ rep.measure = m /\ rep.chipID = "printable"
      /\ rep.sig = Signature(Anchor(c), d, m, Zero)
  BY MaskZero DEF Generate
<1>3. /\ rep.sig.key = <<"PEK", Anchor(c)>> /\ rep.sig.overUser = d
      /\ rep.sig.overMeasure = m
  BY <1>2, MaskZero DEF Signature
<1>4. Certificates(Anchor(c))["PEK"].key = <<"PEK", Anchor(c)>>
  BY DEF Certificates, Role
<1> HIDE DEF rep, p
<1>5. ParseOK(rep) /\ VerifyReportPEKSignature(rep)
  BY <1>2, <1>3, <1>4 DEF ParseOK, VerifyReportPEKSignature
<1>6. UserData(rep) = d /\ Digest(rep) = m
  BY <1>2, MaskZero DEF UserData, Digest
<1>7. KeyBound(p)
  BY <1>1, <1>6 DEF KeyBound
<1> QED BY <1>1, <1>2, <1>5, <1>6, <1>7 DEF p

\* A configuration that is in order, can accept somebody and has usable chain material
\* accepts the peer it is meant for.
LEMMA MeantAccepted ==
  ASSUME NEW c \in ConfigType, ConfigOK(c), ~NeverAccepts(c), ChainUsable(c),
         NEW d \in KeyDigest
  PROVE  \E b \in Bundle, m \in Field : Verify(c, MeantPeer(c, b, m, d)) = "evidence"
<1>1. PICK b \in Bundles(c) : Issues(Anchor(c), b)
  BY DEF ChainUsable
<1>2. b \in Bundle /\ Anchor(c) \in Root
  BY <1>1 DEF Issues
<1>3. PICK m \in Field : c.skip \/ m \in c.measurements \/ Mode(c) = "permissive"
  <2>1. [i \in 1 .. Width |-> Zero] \in Field
    BY XorAssumption DEF Field
  <2>2. c.measurements \subseteq Field /\ c.mode \in {"", "strict", "permissive", "other"}
    BY VerifierAssumption DEF ConfigType
  <2> QED BY <2>1, <2>2 DEF NeverAccepts, Mode, ConfigOK
<1> DEFINE p == MeantPeer(c, b, m, d)
<1>4. /\ p.validity = "now" /\ p.evidence = "present" /\ p.hrk = None
      /\ p.hskCek = b /\ p.report.pek = Certificates(Anchor(c))["PEK"]
      /\ ParseOK(p.report) /\ VerifyReportPEKSignature(p.report)
      /\ KeyBound(p) /\ Digest(p.report) = m
  BY MeantReport, VerifierAssumption
<1> HIDE DEF p
<1> DEFINE chain == loadChainFromOptions(VerifyOptions(c, p))
<1>5. chain = [hrk |-> Anchor(c), hskCek |-> b]
  BY <1>1, <1>2, <1>4, MeantChain DEF ChainUsable
<1> HIDE DEF chain
<1>6. ChainOK(chain, p.report.pek)
  <2>1. chain.hrk = Anchor(c) /\ chain.hskCek = b /\ chain # NoChain
    BY <1>2, <1>5, VerifierAssumption DEF NoChain
  <2> QED BY <1>1, <1>4, <2>1, OwnChain DEF ChainOK, Issues
<1>7. VerifyReportWithOptions(VerifyOptions(c, p), p.report)
  BY <1>4, <1>6 DEF VerifyReportWithOptions, chain
<1>8. PeerHRKOK(c, p) /\ DirOK(c)
  <2>1. TrustedHRK(c) # Short
    BY <1>2, VerifierAssumption DEF Anchor, None, Short
  <2>2. DirOK(c)
    BY <1>1, <1>2, VerifierAssumption DEF DirOK, ChainUsable, Bundles
  <2> QED BY <1>4, <2>1, <2>2 DEF PeerHRKOK
<1>9. c.skip \/ Verified(c, p)
  BY <1>3, <1>4, <1>7, <1>8 DEF Verified, MeasurementOK
<1>10. Verify(c, p) = "evidence"
  BY <1>4, <1>9 DEF Verify
<1> QED BY <1>2, <1>10 DEF p

\* Listen and DialContext refuse no configuration that could have worked, a key pair that
\* is half missing aside.  One they admit for verifying peers accepts the peers it is
\* meant for exactly when its chain material, which they do not look at, is usable.
THEOREM FailFastExact == Spec => []FailsFastExactly
<1>1. ASSUME Decided, result \notin {"pending", "refused"}, ChainUsable(cfg),
             entry = "DialContext" \/ (entry = "Listen" /\ cfg.mutual)
      PROVE  \E b \in Bundle, m \in Field : Verify(cfg, MeantPeer(cfg, b, m, cert.key)) = "evidence"
  <2>1. ConfigOK(cfg) /\ ~NeverAccepts(cfg)
    BY <1>1 DEF Decided, AdmittedBy, Validate
  <2>2. cfg \in ConfigType /\ cert.key \in KeyDigest
    BY <1>1, VerifierAssumption DEF Decided, CertificateType
  <2> QED BY <1>1, <2>1, <2>2, MeantAccepted
<1>2. ASSUME Decided, result = "refused"
      PROVE  \/ cfg.pem = "half"
             \/ Verify(cfg, cert) = "error"
             \/ entry = "Listen" /\ ~HasCertificate(cfg)
  <2>1. ~AdmittedBy(entry, cfg)
    BY <1>2 DEF Decided, Verify
  <2>2. ~ConfigOK(cfg) => Verify(cfg, cert) = "error"
    BY DEF Verify
  <2>3. NeverAccepts(cfg) => Verify(cfg, cert) = "error"
    BY NobodyAccepted
  <2>4. entry \in {"DialContext", "Listen", "Conn"}
    BY <1>2 DEF Decided
  <2> QED BY <2>1, <2>2, <2>3, <2>4 DEF AdmittedBy, Validate
<1>3. ASSUME Decided, result = "evidence", ~cfg.skip
      PROVE  ChainUsable(cfg)
  <2>1. Verify(cfg, cert) # "error"
    BY <1>3 DEF Decided
  <2>2. ConfigOK(cfg) /\ Verified(cfg, cert)
    BY <1>3, <2>1, NotSkipped
  <2>3. cfg \in ConfigType /\ cert \in CertificateType
    BY <1>3, VerifierAssumption DEF Decided
  <2> QED BY <2>2, <2>3, ChainOfAnchor DEF Verified
<1>4. Decided => FailsFastExactly
  BY <1>1, <1>2, <1>3 DEF FailsFastExactly
<1> QED BY <1>4, AlwaysDecided, PTL
=============================================================================
