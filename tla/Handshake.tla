----------------------------- MODULE Handshake -----------------------------
(***************************************************************************)
(* handshake.go: ClientHandshakeContext against ServerHandshakeContext,    *)
(* one action per message sent or read.  The hellos travel in plaintext    *)
(* and may be altered on the way; a sealed record may be damaged; either   *)
(* side may time out, fail to prepare its certificate or refuse its peer's *)
(* evidence, and a side that failed closes the connection.                 *)
(*                                                                         *)
(* Cryptography is symbolic.  A share stands for a random and an ephemeral *)
(* public key; a secret is the pair of shares it was computed from; a      *)
(* signature and a Finished tag carry the transcript they are made over.   *)
(***************************************************************************)
EXTENDS Integers, Sequences

CONSTANTS
  Config,       \* the configurations of the two ends that are considered
  Cap,          \* messages the raw connection buffers in each direction
  MaxFaults,    \* bound: messages altered or damaged on the way
  TimedOut      \* the ends whose deadline may pass

End == {"client", "server"}
Peer(e) == IF e = "client" THEN "server" ELSE "client"

\* What the code reads from Config: VerifyMutualAttestation, whether
\* prepareCertificate will succeed, whether there is a provider or a key pair at
\* all, and whether VerifyPeerCertificateAndEvidence accepts the peer.
ConfigType == [End -> [mutual : BOOLEAN, prepares : BOOLEAN, provider : BOOLEAN,
                       accepts : BOOLEAN]]

ASSUME HandshakeAssumption ==
  /\ Config \subseteq ConfigType
  /\ Cap \in Nat \ {0} /\ MaxFaults \in Nat /\ TimedOut \subseteq End

VARIABLES
  cfg,
  pc,           \* the message an end is waiting for, or the one it sends next
  chan,         \* messages written by an end and not read by the other
  open,         \* the end has not closed the raw connection
  transcript,   \* handshakeTranscript
  peerShare,    \* the share in the peer's hello: the peer's own or "other"
  mutual,       \* client: mutualRequired; server: own flag or clientRequestedMutual
  appKey,       \* HandshakeResult's keys, None before the handshake is complete
  faults

vars == <<cfg, pc, chan, open, transcript, peerShare, mutual, appKey, faults>>

None == << >>
Failed(e) == pc[e] \in {"failed", "timed out"}
Active(e) == pc[e] # "done" /\ ~Failed(e)

\* computeECDHESharedSecret with deriveHandshakeTrafficKeys: client share, server share.
Secret(e) ==
  IF e = "client" THEN <<"client", peerShare[e]>> ELSE <<peerShare[e], "server">>
Plain == <<"plain", "plain">>

Msg(t, v) == [type |-> t, val |-> v]
Signature(e, log) == [signer |-> e, over |-> log]
FinishedTag(e, secret, log) == [key |-> <<secret, e>>, over |-> log]
\* deriveApplicationTrafficKeys: bound to the secret and the whole transcript.
AppKey(secret, log) == [secret |-> secret, over |-> log]

Init ==
  /\ cfg \in Config
  /\ pc = [e \in End |-> "start"]
  /\ chan = [e \in End |-> << >>]
  /\ open = [e \in End |-> TRUE]
  /\ transcript = [e \in End |-> << >>]
  /\ peerShare = [e \in End |-> "other"]
  /\ mutual = [e \in End |-> FALSE]
  /\ appKey = [e \in End |-> None]
  /\ faults = 0

Set(f, x, v) == [f EXCEPT ![x] = v]
Goto(e, l) == pc' = Set(pc, e, l)

\* Write a message and enter it into the transcript.  The raw connection may take it
\* although the peer has closed; a later read or write then fails (PeerGone).
Send(e, key, m) ==
  /\ open[e]
  /\ Len(chan[e]) < Cap
  /\ chan' = Set(chan, e, Append(chan[e], [key |-> key, ok |-> TRUE, body |-> m]))
  /\ transcript' = Set(transcript, e, Append(transcript[e], m))

-----------------------------------------------------------------------------
(* What an end demands of the message it is waiting for *)

HelloOK(m) ==
  (IF m.type = "ClientHello" THEN m.val.share ELSE m.val) # "undecodable"

\* ErrMutualAttestationNotConfirmed, ErrMutualAttestationRequired.
ExtensionsOK(m) ==
  LET c == cfg["client"]
  IN  /\ ~(c.mutual /\ ~m.val)
      /\ ~(m.val /\ ~c.mutual /\ ~c.provider)

\* VerifyPeerCertificateAndEvidence on the peer's certificate.
CertificateOKUnverified(e) == TRUE
CertificateOK(e) == cfg[e].accepts

\* The signature is the peer's, over the transcript before CertificateVerify.
SignatureOK(e, m) == m.val = Signature(Peer(e), transcript[e])

\* The HMAC is made with the peer's Finished key over the transcript so far.
FinishedOK(e, m) == m.val = FinishedTag(Peer(e), Secret(e), transcript[e])

AcceptableSealed(e, w) ==
  /\ w.ok /\ w.body.type = pc[e]
  /\ w.key = IF pc[e] \in {"ClientHello", "ServerHello"} THEN Plain ELSE Secret(e)
  /\ CASE pc[e] \in {"ClientHello", "ServerHello"} -> HelloOK(w.body)
       [] pc[e] = "EncryptedExtensions" -> ExtensionsOK(w.body)
       [] pc[e] = "Certificate" -> CertificateOK(e)
       [] OTHER -> TRUE

Acceptable(e, w) ==
  /\ w.ok
  /\ w.body.type = pc[e]
  /\ w.key = IF pc[e] \in {"ClientHello", "ServerHello"} THEN Plain ELSE Secret(e)
  /\ CASE pc[e] \in {"ClientHello", "ServerHello"} -> HelloOK(w.body)
       [] pc[e] = "EncryptedExtensions" -> ExtensionsOK(w.body)
       [] pc[e] = "Certificate" -> CertificateOK(e)
       [] pc[e] = "CertificateVerify" -> SignatureOK(e, w.body)
       [] pc[e] = "Finished" -> FinishedOK(e, w.body)

\* Read message m of the type the end waits for and enter it into the transcript.
Reading(e) ==
  pc[e] \in {"ClientHello", "ServerHello", "EncryptedExtensions", "Certificate",
             "CertificateVerify", "Finished"}
Waiting(e) == Reading(e) /\ open[e] /\ chan[Peer(e)] # << >>

Read(e, t) ==
  /\ Waiting(e) /\ pc[e] = t
  /\ Acceptable(e, Head(chan[Peer(e)]))
  /\ chan' = Set(chan, Peer(e), Tail(chan[Peer(e)]))
  /\ transcript' = Set(transcript, e, Append(transcript[e], Head(chan[Peer(e)]).body))

Val(e) == Head(chan[Peer(e)]).body.val

-----------------------------------------------------------------------------
(* ClientHandshakeContext *)

ClientSendClientHello ==
  /\ pc["client"] = "start"
  /\ Send("client", Plain,
          Msg("ClientHello", [share |-> "client", flag |-> cfg["client"].mutual]))
  /\ Goto("client", "ServerHello")
  /\ UNCHANGED <<cfg, open, peerShare, mutual, appKey, faults>>

ClientReadServerHello ==
  /\ Read("client", "ServerHello")
  /\ peerShare' = Set(peerShare, "client", Val("client"))
  /\ Goto("client", "EncryptedExtensions")
  /\ UNCHANGED <<cfg, open, mutual, appKey, faults>>

ClientReadEncryptedExtensions ==
  /\ Read("client", "EncryptedExtensions")
  /\ mutual' = Set(mutual, "client", Val("client"))
  /\ Goto("client", "Certificate")
  /\ UNCHANGED <<cfg, open, peerShare, appKey, faults>>

ClientReadCertificate ==
  /\ Read("client", "Certificate")
  /\ Goto("client", "CertificateVerify")
  /\ UNCHANGED <<cfg, open, peerShare, mutual, appKey, faults>>

ClientReadCertificateVerify ==
  /\ Read("client", "CertificateVerify")
  /\ Goto("client", "Finished")
  /\ UNCHANGED <<cfg, open, peerShare, mutual, appKey, faults>>

ClientReadFinished ==
  /\ Read("client", "Finished")
  /\ Goto("client", IF mutual["client"] THEN "send Certificate" ELSE "send Finished")
  /\ UNCHANGED <<cfg, open, peerShare, mutual, appKey, faults>>

\* prepareCertificate succeeded.
ClientSendCertificate ==
  /\ pc["client"] = "send Certificate" /\ cfg["client"].prepares
  /\ Send("client", Secret("client"), Msg("Certificate", "client"))
  /\ Goto("client", "send CertificateVerify")
  /\ UNCHANGED <<cfg, open, peerShare, mutual, appKey, faults>>

ClientSendCertificateVerify ==
  /\ pc["client"] = "send CertificateVerify"
  /\ Send("client", Secret("client"),
          Msg("CertificateVerify", Signature("client", transcript["client"])))
  /\ Goto("client", "send Finished")
  /\ UNCHANGED <<cfg, open, peerShare, mutual, appKey, faults>>

\* The client is done as soon as its Finished is written.
ClientSendFinished ==
  /\ pc["client"] = "send Finished"
  /\ Send("client", Secret("client"),
          Msg("Finished", FinishedTag("client", Secret("client"), transcript["client"])))
  /\ appKey' = Set(appKey, "client", AppKey(Secret("client"), transcript'["client"]))
  /\ Goto("client", "done")
  /\ UNCHANGED <<cfg, open, peerShare, mutual, faults>>

-----------------------------------------------------------------------------
(* ServerHandshakeContext *)

\* The deadline is set and prepareCertificate succeeds.
ServerPrepare ==
  /\ pc["server"] = "start" /\ cfg["server"].prepares
  /\ Goto("server", "ClientHello")
  /\ UNCHANGED <<cfg, chan, open, transcript, peerShare, mutual, appKey, faults>>

ServerReadClientHello ==
  /\ Read("server", "ClientHello")
  /\ peerShare' = Set(peerShare, "server", Val("server").share)
  /\ mutual' = Set(mutual, "server", cfg["server"].mutual \/ Val("server").flag)
  /\ Goto("server", "send ServerHello")
  /\ UNCHANGED <<cfg, open, appKey, faults>>

ServerSendServerHello ==
  /\ pc["server"] = "send ServerHello"
  /\ Send("server", Plain, Msg("ServerHello", "server"))
  /\ Goto("server", "send EncryptedExtensions")
  /\ UNCHANGED <<cfg, open, peerShare, mutual, appKey, faults>>

ServerSendEncryptedExtensions ==
  /\ pc["server"] = "send EncryptedExtensions"
  /\ Send("server", Secret("server"), Msg("EncryptedExtensions", mutual["server"]))
  /\ Goto("server", "send Certificate")
  /\ UNCHANGED <<cfg, open, peerShare, mutual, appKey, faults>>

ServerSendCertificate ==
  /\ pc["server"] = "send Certificate"
  /\ Send("server", Secret("server"), Msg("Certificate", "server"))
  /\ Goto("server", "send CertificateVerify")
  /\ UNCHANGED <<cfg, open, peerShare, mutual, appKey, faults>>

ServerSendCertificateVerify ==
  /\ pc["server"] = "send CertificateVerify"
  /\ Send("server", Secret("server"),
          Msg("CertificateVerify", Signature("server", transcript["server"])))
  /\ Goto("server", "send Finished")
  /\ UNCHANGED <<cfg, open, peerShare, mutual, appKey, faults>>

ServerSendFinishedOwnFlag ==
  /\ pc["server"] = "send Finished"
  /\ Send("server", Secret("server"),
          Msg("Finished", FinishedTag("server", Secret("server"), transcript["server"])))
  /\ Goto("server", IF cfg["server"].mutual THEN "Certificate" ELSE "Finished")
  /\ UNCHANGED <<cfg, open, peerShare, mutual, appKey, faults>>

ServerSendFinished ==
  /\ pc["server"] = "send Finished"
  /\ Send("server", Secret("server"),
          Msg("Finished", FinishedTag("server", Secret("server"), transcript["server"])))
  /\ Goto("server", IF mutual["server"] THEN "Certificate" ELSE "Finished")
  /\ UNCHANGED <<cfg, open, peerShare, mutual, appKey, faults>>

ServerReadCertificate ==
  /\ Read("server", "Certificate")
  /\ Goto("server", "CertificateVerify")
  /\ UNCHANGED <<cfg, open, peerShare, mutual, appKey, faults>>

ServerReadCertificateVerify ==
  /\ Read("server", "CertificateVerify")
  /\ Goto("server", "Finished")
  /\ UNCHANGED <<cfg, open, peerShare, mutual, appKey, faults>>

ServerReadFinishedEarlyHash ==
  /\ Read("server", "Finished")
  /\ appKey' = Set(appKey, "server", AppKey(Secret("server"), transcript["server"]))
  /\ Goto("server", "done")
  /\ UNCHANGED <<cfg, open, peerShare, mutual, faults>>

ServerReadFinished ==
  /\ Read("server", "Finished")
  /\ appKey' = Set(appKey, "server", AppKey(Secret("server"), transcript'["server"]))
  /\ Goto("server", "done")
  /\ UNCHANGED <<cfg, open, peerShare, mutual, faults>>

-----------------------------------------------------------------------------
(* Failures *)

Fail(e, l) ==
  /\ Goto(e, l)
  /\ UNCHANGED <<cfg, open, transcript, peerShare, mutual, appKey, faults>>

\* prepareCertificate returns an error.
PrepareFails(e) ==
  /\ ~cfg[e].prepares
  /\ pc[e] = IF e = "client" THEN "send Certificate" ELSE "start"
  /\ Fail(e, "failed") /\ UNCHANGED chan

\* The message does not open, is of another type, or is refused.
Reject(e) ==
  /\ Waiting(e) /\ ~Acceptable(e, Head(chan[Peer(e)]))
  /\ chan' = Set(chan, Peer(e), Tail(chan[Peer(e)]))
  /\ Fail(e, "failed")

\* The peer has closed the raw connection: a write may fail, and a read does when
\* nothing is left to be read.
AtIO(e) == Active(e) /\ (e = "server" => pc[e] # "start")
PeerGoneAtWrite(e) ==
  /\ AtIO(e) /\ ~open[Peer(e)]
  /\ ~Reading(e)
  /\ Fail(e, "failed") /\ UNCHANGED chan

PeerGone(e) ==
  /\ AtIO(e) /\ ~open[Peer(e)]
  /\ chan[Peer(e)] = << >> \/ ~Waiting(e)
  /\ Fail(e, "failed") /\ UNCHANGED chan

\* The deadline passes: ServerHandshakeContext's own, or the one DialContext set.
TimeOutUnset(e) == FALSE /\ UNCHANGED vars
TimeOut(e) ==
  /\ e \in TimedOut /\ AtIO(e)
  /\ Fail(e, "timed out") /\ UNCHANGED chan

CloseRaw(e) ==
  /\ open[e] /\ open' = Set(open, e, FALSE)
  /\ UNCHANGED <<cfg, pc, chan, transcript, peerShare, mutual, appKey, faults>>

\* DialContext closes a connection whose handshake failed.
DialCloses == Failed("client") /\ CloseRaw("client")

\* An application calls Conn.Close: either one when its end is done, and the server's
\* when Handshake, Read or Write returned the handshake's error.  Nothing else closes
\* the connection of a server whose handshake failed.
ApplicationCloses(e) == (pc[e] = "done" \/ (e = "server" /\ Failed(e))) /\ CloseRaw(e)

\* The network alters a hello or damages a sealed record.
Altered(w) ==
  LET m == w.body
  IN  CASE m.type = "ClientHello" ->
             {[w EXCEPT !.body = Msg(m.type, [share |-> s, flag |-> f])] :
                s \in {"client", "other", "undecodable"}, f \in BOOLEAN}
        [] m.type = "ServerHello" ->
             {[w EXCEPT !.body = Msg(m.type, s)] : s \in {"other", "undecodable"}}
        [] OTHER -> {[w EXCEPT !.ok = FALSE]}

Alter(e) ==
  /\ faults < MaxFaults
  /\ \E i \in 1 .. Len(chan[e]) : \E w \in Altered(chan[e][i]) :
       chan' = Set(chan, e, Set(chan[e], i, w))
  /\ faults' = faults + 1
  /\ UNCHANGED <<cfg, pc, open, transcript, peerShare, mutual, appKey>>

-----------------------------------------------------------------------------
ClientStep ==
  \/ ClientSendClientHello \/ ClientReadServerHello \/ ClientReadEncryptedExtensions
  \/ ClientReadCertificate \/ ClientReadCertificateVerify \/ ClientReadFinished
  \/ ClientSendCertificate \/ ClientSendCertificateVerify \/ ClientSendFinished

ServerStep ==
  \/ ServerPrepare \/ ServerReadClientHello \/ ServerSendServerHello
  \/ ServerSendEncryptedExtensions \/ ServerSendCertificate
  \/ ServerSendCertificateVerify \/ ServerSendFinished
  \/ ServerReadCertificate \/ ServerReadCertificateVerify \/ ServerReadFinished

FailStep(e) == PrepareFails(e) \/ Reject(e) \/ PeerGone(e)

Next ==
  \/ ClientStep \/ ServerStep
  \/ DialCloses
  \/ \E e \in End : FailStep(e) \/ TimeOut(e) \/ ApplicationCloses(e) \/ Alter(e)

Spec == Init /\ [][Next]_vars

\* The server's goroutine runs on, and prepareCertificate answers it (see CertCache).
\* Nothing is assumed of the client, which may stall for ever, of the applications, or
\* of the clock.
FairSpec == Spec /\ WF_vars(ServerStep) /\ WF_vars(FailStep("server"))

\* The client does not stall either, not in its own prepareCertificate (see Dial).
ClientRuns ==
  WF_vars(ClientStep) /\ WF_vars(FailStep("client")) /\ WF_vars(DialCloses)

\* Time reaches the deadline ServerHandshakeContext sets, or DialContext's.
DeadlinePasses(e) == WF_vars(TimeOut(e))

\* The server's application closes a connection whose handshake failed.
ServerApplicationCloses == WF_vars(Failed("server") /\ ApplicationCloses("server"))

-----------------------------------------------------------------------------
(* Properties *)

\* A server that completes did so with a client that completed, and both hold the
\* application keys of one secret and one transcript.
ServerDoneMeansAgreement ==
  pc["server"] = "done" => pc["client"] = "done" /\ appKey["client"] = appKey["server"]

\* A client that completes saw what the server sent and the server saw what the
\* client sent, up to the server's Finished: nothing altered on the way survives.
ClientDoneMeansAgreement ==
  pc["client"] = "done" =>
    /\ Len(transcript["server"]) >= 6
    /\ \A i \in 1 .. 6 : transcript["client"][i] = transcript["server"][i]
    /\ Secret("client") = Secret("server")
    /\ mutual["client"] = mutual["server"]

\* Mutual attestation asked for by either side cannot be lost: a client that asked
\* for it completes only with a server that demands its certificate, and a server
\* completes only after the client's evidence was accepted.
MutualHonoured ==
  /\ pc["client"] = "done" /\ cfg["client"].mutual => mutual["server"]
  /\ pc["client"] = "done" => cfg["client"].accepts
  /\ pc["server"] = "done" /\ (cfg["client"].mutual \/ cfg["server"].mutual)
       => cfg["server"].accepts /\ cfg["client"].prepares

\* The server returns even if the client stops answering at any point: its deadline
\* covers every read and write of the handshake.
ServerReturns == DeadlinePasses("server") => <>~Active("server")

\* Whatever happens to the messages, both ends return although only one deadline
\* passes: the client's own, because DialContext then closes; or the server's, if the
\* server's application closes what failed, for the library does not.
HandshakeTerminates ==
  /\ ClientRuns /\ DeadlinePasses("client") => \A e \in End : <>~Active(e)
  /\ ClientRuns /\ DeadlinePasses("server") /\ ServerApplicationCloses
       => \A e \in End : <>~Active(e)

\* Ends whose configurations fit complete, unless a message is altered or a deadline
\* passes; no deadline is needed to get them out of waiting for each other.
Compatible ==
  LET c == cfg["client"]
      s == cfg["server"]
  IN  /\ s.prepares /\ c.accepts
      /\ c.mutual \/ s.mutual => c.prepares /\ s.accepts
CompatibleEndsComplete ==
  ClientRuns =>
    (Compatible => <>(\/ pc = [e \in End |-> "done"]
                      \/ faults > 0
                      \/ \E e \in End : pc[e] = "timed out"))
=============================================================================
