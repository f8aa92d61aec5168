------------------------------ MODULE Verifier ------------------------------
(***************************************************************************)
(* verifier.go and pkg/csvattest/verify.go: what                           *)
(* VerifyPeerCertificateAndEvidence decides about a peer's certificate,    *)
(* and what Listen and DialContext refuse before there is a peer.  These   *)
(* have no side effects, so the order of their checks shows only in the    *)
(* error returned; the model keeps every check and the result.             *)
(*                                                                         *)
(* Root certificates (HRK) and HSK/CEK bundles are named; a file or a      *)
(* directory stands for what it holds.                                     *)
(***************************************************************************)
EXTENDS Report

CONSTANTS
  Bundle,        \* HSK/CEK bundles, and the two certificates of each
  HSKOf, CEKOf,
  Measurement,   \* report digests
  KeyDigest,     \* SM3 digests of the public keys of peers
  Config,        \* the configurations considered
  Certificate    \* the peer certificates considered

None == "none"               \* an empty field, a missing file
Short == "short"             \* material shorter than an HRK certificate

\* The fields of Config that are read.  dir stands for hrk.cert and hsk_cek.cert.
ConfigType ==
  [mode : {"", "strict", "permissive", "other"},
   skip : BOOLEAN, mutual : BOOLEAN,
   measurements : SUBSET Measurement,
   malformed : BOOLEAN,             \* some whitelist entry is not 64 hex characters
   pem : {"none", "half", "pair"},  \* CertPEM and KeyPEM
   hrkPath : Root \cup {None, "unreadable"}, hskCekPath : Bundle \cup {None, "unreadable"},
   dir : BOOLEAN, dirHRK : Root \cup {"unreadable"}, dirHSKCek : Bundle \cup {"unreadable"},
   trusted : Root \cup {None, Short},
   hasProvider : BOOLEAN,
   provider : Root \cup {None}]     \* EvidenceProvider's TrustedHRKCert

CertificateType ==
  [validity : {"early", "now", "expired"},
   evidence : {"missing", "undecodable", "present"},
   hrk : Root \cup {None}, hskCek : Bundle \cup {None},
   report : ReportType(Measurement),
   key : KeyDigest]

\* No digest of a key is another one masked: SM3 is modelled as an ideal hash.
ASSUME VerifierAssumption ==
  /\ Config \subseteq ConfigType /\ Certificate \subseteq CertificateType
  /\ Root \cap {None, Short, "unreadable"} = {}
  /\ Bundle \cap {None, "unreadable"} = {}
  /\ HSKOf \in [Bundle -> Issued] /\ CEKOf \in [Bundle -> Issued]
  /\ Measurement \subseteq Field /\ KeyDigest \subseteq Field
  /\ \A d, e \in KeyDigest, a \in Word : UnmaskWords(d, a) = e => a = Zero

-----------------------------------------------------------------------------
(* normalizedVerifyConfig *)

ConfigOK(c) ==
  /\ c.mode # "other"
  /\ (c.hrkPath = None) = (c.hskCekPath = None)
  /\ ~c.malformed

Mode(c) == IF c.mode = "" THEN "strict" ELSE c.mode

\* TrustedHRKCert, or else the provider's.
TrustedHRK(c) == IF c.trusted = None THEN c.provider ELSE c.trusted

-----------------------------------------------------------------------------
(* The options VerifyPeerCertificateAndEvidence builds *)

\* The peer's HRK is compared with an in-memory anchor, and only with that.
PeerHRKOK(c, p) ==
  /\ TrustedHRK(c) # Short
  /\ TrustedHRK(c) # None => p.hrk \in {None, TrustedHRK(c)}

Options(hrk, hskCek, hrkPath, hskCekPath) ==
  [hrk |-> hrk, hskCek |-> hskCek, hrkPath |-> hrkPath, hskCekPath |-> hskCekPath]

\* Local material first: explicit paths, then the directory, then the peer's bundle.
VerifyOptionsPeerFirst(c, p) ==
  IF p.hskCek # None THEN Options(TrustedHRK(c), p.hskCek, None, None)
  ELSE Options(TrustedHRK(c), None, c.hrkPath, c.hskCekPath)

VerifyOptionsPeerAnchor(c, p) ==
  IF c.hrkPath # None /\ c.hskCekPath # None
  THEN Options(TrustedHRK(c), None, c.hrkPath, c.hskCekPath)
  ELSE IF c.dir
       THEN Options(IF TrustedHRK(c) = None THEN c.dirHRK ELSE TrustedHRK(c),
                    c.dirHSKCek, None, None)
       ELSE Options(IF TrustedHRK(c) = None THEN p.hrk ELSE TrustedHRK(c),
                    p.hskCek, None, None)

VerifyOptions(c, p) ==
  IF c.hrkPath # None /\ c.hskCekPath # None
  THEN Options(TrustedHRK(c), None, c.hrkPath, c.hskCekPath)
  ELSE IF c.dir
       THEN Options(IF TrustedHRK(c) = None THEN c.dirHRK ELSE TrustedHRK(c),
                    c.dirHSKCek, None, None)
       ELSE Options(TrustedHRK(c), p.hskCek, None, None)

\* LoadLocalCertChain must succeed when the directory is used.
DirOK(c) ==
  c.dir /\ c.hrkPath = None => c.dirHRK # "unreadable" /\ c.dirHSKCek # "unreadable"

-----------------------------------------------------------------------------
(* VerifyReportWithOptions *)

NoChain == [hrk |-> None, hskCek |-> None]

\* ErrMissingCertChain unless both halves come from memory or both from files.
loadChainFromOptions(o) ==
  IF o.hrk # None \/ o.hskCek # None
  THEN IF o.hrk = None \/ o.hskCek = None THEN NoChain
       ELSE [hrk |-> o.hrk, hskCek |-> o.hskCek]
  ELSE IF "unreadable" \in {o.hrkPath, o.hskCekPath} THEN NoChain
       ELSE [hrk |-> o.hrkPath, hskCek |-> o.hskCekPath]

ChainOK(chain, pek) ==
  /\ chain # NoChain
  /\ VerifyCertChain(Certificates(chain.hrk)["HRK"], HSKOf[chain.hskCek],
                     CEKOf[chain.hskCek], pek)

VerifyReportWithOptions(o, rep) ==
  /\ ParseOK(rep)
  /\ VerifyReportPEKSignature(rep)
  /\ ChainOK(loadChainFromOptions(o), rep.pek)

-----------------------------------------------------------------------------
(* VerifyPeerCertificateAndEvidence *)

\* The report's user data is the digest of the key in the certificate.
KeyBound(p) == UserData(p.report) = p.key

MeasurementOK(c, p) == Digest(p.report) \in c.measurements \/ Mode(c) = "permissive"

Verified(c, p) ==
  /\ p.evidence = "present"
  /\ PeerHRKOK(c, p)
  /\ DirOK(c)
  /\ VerifyReportWithOptions(VerifyOptions(c, p), p.report)
  /\ KeyBound(p)
  /\ MeasurementOK(c, p)

\* With InsecureSkipAttestationVerify only the dates and the encoding are checked.
Verify(c, p) ==
  LET accepted == /\ ConfigOK(c) /\ p.validity = "now"
                  /\ IF c.skip THEN p.evidence # "undecodable" ELSE Verified(c, p)
  IN  IF ~accepted THEN "error"
      ELSE IF p.evidence = "missing" THEN "no evidence" ELSE "evidence"

-----------------------------------------------------------------------------
(* Validate, and the checks Listen and DialContext add *)

Validate(c) == ConfigOK(c) /\ c.pem # "half"

\* In strict mode an empty whitelist accepts nobody.
NeverAcceptsEvenSkipping(c) == Mode(c) = "strict" /\ c.measurements = {}
NeverAccepts(c) == Mode(c) = "strict" /\ ~c.skip /\ c.measurements = {}

HasCertificate(c) == c.pem = "pair" \/ c.hasProvider

AdmittedBy(entry, c) ==
  CASE entry = "DialContext" -> Validate(c) /\ ~NeverAccepts(c)
    [] entry = "Listen" -> Validate(c) /\ HasCertificate(c) /\ ~(c.mutual /\ NeverAccepts(c))
    [] OTHER -> TRUE

VARIABLES
  entry,     \* how the configuration comes to be used: by which function, or directly
  cfg, cert,
  result     \* "pending", "refused", "admitted", or what Verify returns
vars == <<entry, cfg, cert, result>>

Init ==
  /\ entry \in {"DialContext", "Listen", "Conn"}
  /\ cfg \in Config /\ cert \in Certificate
  /\ result = "pending"

Admit ==
  /\ result = "pending"
  /\ result' = IF AdmittedBy(entry, cfg) THEN "admitted" ELSE "refused"
  /\ UNCHANGED <<entry, cfg, cert>>

VerifyPeer ==
  /\ result = "admitted"
  /\ result' = Verify(cfg, cert)
  /\ UNCHANGED <<entry, cfg, cert>>

Next == Admit \/ VerifyPeer
Spec == Init /\ [][Next]_vars

-----------------------------------------------------------------------------
(* Properties *)

\* The roots this verifier was told to trust, from any of its local sources.
LocalAnchors(c) ==
  {TrustedHRK(c), c.hrkPath} \cup (IF c.dir THEN {c.dirHRK} ELSE {})

\* A peer is accepted only on the word of a machine under a locally configured root:
\* nothing the peer sends takes the place of the anchor, and no certificate serves in
\* another's place.  The signature does not cover the A nonce, so the verifier reads
\* what was attested up to one word, the same throughout user data and measurement; in
\* strict mode the measurement read is whitelisted.  A guest that has the digest of a
\* key attested, as this library's providers do, attested the very key of the
\* certificate and the very measurement read.
AcceptsOnlyAttested ==
  result \in {"evidence", "no evidence"} /\ ~cfg.skip =>
    LET sig == cert.report.sig
        measure == Digest(cert.report)
    IN  /\ cert.validity = "now" /\ cert.evidence = "present"
        /\ \E r \in LocalAnchors(cfg) \cap Root : sig.key = <<"PEK", r>>
        /\ \E n \in Word :
             cert.key = UnmaskWords(sig.user, n) /\ measure = UnmaskWords(sig.measure, n)
        /\ Mode(cfg) = "strict" => measure \in cfg.measurements
        /\ sig.user \in KeyDigest => sig.user = cert.key /\ sig.measure = measure

\* When the intermediates are local, the bundle the peer sent changes nothing; its
\* HRK can only make verification fail.
LocalNeverShadowed ==
  ~cfg.skip /\ (cfg.dir \/ cfg.hrkPath # None) =>
    /\ \A b \in Bundle \cup {None} :
         Verify(cfg, [cert EXCEPT !.hskCek = b]) = Verify(cfg, cert)
    /\ Verify(cfg, cert) # "error" =>
         Verify(cfg, [cert EXCEPT !.hrk = None]) = Verify(cfg, cert)

\* The anchor configured, and the bundles its intermediates may come from.
Anchor(c) ==
  IF TrustedHRK(c) # None THEN TrustedHRK(c)
  ELSE IF c.hrkPath # None THEN c.hrkPath
  ELSE IF c.dir THEN c.dirHRK ELSE None
Bundles(c) ==
  IF c.hrkPath # None THEN {c.hskCekPath} ELSE IF c.dir THEN {c.dirHSKCek} ELSE Bundle

Issues(r, b) ==
  /\ r \in Root /\ b \in Bundle
  /\ HSKOf[b] = Certificates(r)["HSK"] /\ CEKOf[b] = Certificates(r)["CEK"]

\* There is an anchor, of full length; it does not stand beside explicit paths; a
\* directory, when used, can be read as a whole; the anchor issued the intermediates.
ChainUsable(c) ==
  /\ c.hrkPath # None => TrustedHRK(c) = None
  /\ c.hrkPath = None /\ c.dir => c.dirHRK # "unreadable"
  /\ \E b \in Bundles(c) : Issues(Anchor(c), b)

\* A peer as the configuration means it: under its anchor, for key digest d.
MeantPeer(c, b, m, d) ==
  [validity |-> "now", evidence |-> "present", hrk |-> None, hskCek |-> b,
   report |-> Generate(Anchor(c), d, m, Zero), key |-> d]

\* Listen and DialContext fail fast, and only then.  What they refuse, a key pair that
\* is half missing aside, could not have verified this peer, or any, or has no
\* certificate to show.  What they admit for verifying peers accepts the peers it is
\* meant for, unless its chain material is unusable; that alone they do not look at,
\* and it then refuses every peer.
FailsFastExactly ==
  /\ result = "refused" =>
       \/ cfg.pem = "half"
       \/ Verify(cfg, cert) = "error"
       \/ entry = "Listen" /\ ~HasCertificate(cfg)
  /\ /\ result \notin {"pending", "refused"}
     /\ entry = "DialContext" \/ (entry = "Listen" /\ cfg.mutual)
     /\ ChainUsable(cfg)
     => \E b \in Bundle, m \in Field : Verify(cfg, MeantPeer(cfg, b, m, cert.key)) = "evidence"
  /\ result = "evidence" /\ ~cfg.skip => ChainUsable(cfg)

\* README.md:247: chain material is resolved from HRKCertPath + HSKCekCertPath, when
\* both are set.  So a valid certificate whose report chains to these files, from a
\* peer that contradicts no anchor, is accepted.
ExplicitPathsUsed ==
  /\ result \notin {"pending", "refused", "admitted"}
  /\ ConfigOK(cfg) /\ PeerHRKOK(cfg, cert)
  /\ cfg.hrkPath \in Root /\ cfg.hskCekPath \in Bundle
  /\ cert.validity = "now" /\ cert.evidence = "present"
  /\ VerifyReportWithOptions(Options(None, None, cfg.hrkPath, cfg.hskCekPath), cert.report)
  /\ KeyBound(cert) /\ MeasurementOK(cfg, cert)
  => result = "evidence"
=============================================================================
