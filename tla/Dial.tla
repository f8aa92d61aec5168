-------------------------------- MODULE Dial --------------------------------
(***************************************************************************)
(* transport.go, DialContext: the raw dial, the handshake deadline, and    *)
(* the goroutine that turns a cancelled context into an expired deadline   *)
(* while the handshake runs.                                               *)
(*                                                                         *)
(* The handshake itself is module Handshake; here it is a number of reads  *)
(* and writes on the raw connection, each of which fails once the deadline *)
(* has passed, and between the server's Finished and the client's last     *)
(* flight, under mutual attestation, the wait for the client's own         *)
(* certificate, which is no I/O and knows of no deadline.  CertCache has   *)
(* that wait in detail.                                                    *)
(*                                                                         *)
(* Names differ from those of ConnHandshake, the other way to a Conn that  *)
(* can be used, so that one module can reason about both.                  *)
(***************************************************************************)
EXTENDS Naturals

CONSTANTS
  IO,       \* raw reads and writes of a client handshake
  Flight    \* those after the server's Finished

ASSUME DialAssumption == IO \in Nat \ {0} /\ Flight \in 1 .. IO

VARIABLES
  cfg,        \* the Config fields that DialContext looks at
  ctx,        \* "live", or "done" once cancelled or past its own deadline
  dialPc,     \* where DialContext is
  open,       \* the raw connection is open
  rawDeadline, \* of the raw connection: "none", "armed", or "past"
  watcher,    \* the watcher goroutine: "none", "select", "fire", "done"
  ctxDone,    \* the channel that stops the watcher is closed
  left,       \* reads and writes the handshake has still to do
  err,        \* handshakeErr # nil
  ret         \* what DialContext returned

dialVars == <<cfg, ctx, dialPc, open, rawDeadline, watcher, ctxDone, left, err, ret>>

\* own: what the client attests itself with, if asked to: nothing, CertPEM with KeyPEM, a
\* plain EvidenceProvider, or a ContextEvidenceProvider.
Configs ==
  [valid : BOOLEAN, strict : BOOLEAN, skip : BOOLEAN, measurements : BOOLEAN,
   own : {"none", "pem", "plain", "aware"}]

Returned == dialPc = "returned"

DialInit ==
  /\ cfg \in Configs
  /\ ctx \in {"live", "done"}
  /\ dialPc = "validate" /\ open = FALSE /\ rawDeadline = "none"
  /\ watcher = "none" /\ ctxDone = FALSE
  /\ left = IO /\ err = FALSE /\ ret = "none"

-----------------------------------------------------------------------------
(* The caller and the clock *)

\* The caller cancels, or the context's own deadline passes.
Cancel ==
  /\ ctx = "live" /\ ctx' = "done"
  /\ UNCHANGED <<cfg, dialPc, open, rawDeadline, watcher, ctxDone, left, err, ret>>

\* The deadline set on the raw connection passes.
Expire ==
  /\ rawDeadline = "armed" /\ rawDeadline' = "past"
  /\ UNCHANGED <<cfg, ctx, dialPc, open, watcher, ctxDone, left, err, ret>>

-----------------------------------------------------------------------------
(* DialContext *)

DialConfigOK ==
  cfg.valid /\ (cfg.strict /\ ~cfg.skip => cfg.measurements)

ReturnFromDial(r) == dialPc' = "returned" /\ ret' = r

Validate ==
  /\ dialPc = "validate"
  /\ \/ DialConfigOK /\ dialPc' = "dial" /\ UNCHANGED ret
     \/ ~DialConfigOK /\ ReturnFromDial("config error")
  /\ UNCHANGED <<cfg, ctx, open, rawDeadline, watcher, ctxDone, left, err>>

\* net.Dialer: connects, or fails for a reason of the network's or by its Timeout.
RawDial ==
  /\ dialPc = "dial" /\ ctx = "live"
  /\ dialPc' = "arm" /\ open' = TRUE
  /\ UNCHANGED <<cfg, ctx, rawDeadline, watcher, ctxDone, left, err, ret>>

RawDialFails ==
  /\ dialPc = "dial"
  /\ ReturnFromDial("dial error")
  /\ UNCHANGED <<cfg, ctx, open, rawDeadline, watcher, ctxDone, left, err>>

\* The earlier of the context's deadline and cfg.timeout(): there always is one.
ArmNothing ==
  /\ dialPc = "arm"
  /\ dialPc' = "spawn"
  /\ UNCHANGED <<cfg, ctx, open, rawDeadline, watcher, ctxDone, left, err, ret>>

Arm ==
  /\ dialPc = "arm"
  /\ rawDeadline' = "armed" /\ dialPc' = "spawn"
  /\ UNCHANGED <<cfg, ctx, open, watcher, ctxDone, left, err, ret>>

Spawn ==
  /\ dialPc = "spawn"
  /\ watcher' = "select" /\ dialPc' = "handshake"
  /\ UNCHANGED <<cfg, ctx, open, rawDeadline, ctxDone, left, err, ret>>

InIO == (dialPc = "handshake" /\ left > Flight) \/ (dialPc = "flight" /\ left > 0)

HandshakeIO ==
  /\ InIO /\ rawDeadline # "past"
  /\ left' = left - 1
  /\ UNCHANGED <<cfg, ctx, dialPc, open, rawDeadline, watcher, ctxDone, err, ret>>

HandshakeError ==
  /\ err' = TRUE /\ dialPc' = "stop"
  /\ UNCHANGED <<cfg, ctx, open, rawDeadline, watcher, ctxDone, left, ret>>

\* The peer closed the connection or sent something the handshake refuses.
HandshakeRefused == (dialPc = "handshake" \/ InIO) /\ HandshakeError

HandshakeTimeout == InIO /\ rawDeadline = "past" /\ HandshakeError

HandshakeDone ==
  /\ dialPc = "flight" /\ left = 0
  /\ dialPc' = "stop"
  /\ UNCHANGED <<cfg, ctx, open, rawDeadline, watcher, ctxDone, left, err, ret>>

\* Without mutual attestation, or with CertPEM, the last flight follows at once;
\* otherwise prepareCertificate turns to the cache and its mutex.
ServerFinishedRead ==
  /\ dialPc = "handshake" /\ left = Flight
  /\ \/ dialPc' = "flight"
     \/ cfg.own \in {"plain", "aware"} /\ dialPc' = "certMu"
  /\ UNCHANGED <<cfg, ctx, open, rawDeadline, watcher, ctxDone, left, err, ret>>

\* certMu is got, however long that took: the cache has a certificate, or the provider
\* is asked.
CertificateAtHand ==
  /\ dialPc' = "flight"
  /\ UNCHANGED <<cfg, ctx, open, rawDeadline, watcher, ctxDone, left, err, ret>>

TakeCertMu ==
  /\ dialPc = "certMu"
  /\ \/ CertificateAtHand
     \/ /\ cfg.own = "plain" \/ ctx = "live"
        /\ dialPc' = "evidence"
        /\ UNCHANGED <<cfg, ctx, open, rawDeadline, watcher, ctxDone, left, err, ret>>
     \/ cfg.own = "aware" /\ ctx = "done" /\ HandshakeError

ProviderReturns == dialPc = "evidence" /\ (CertificateAtHand \/ HandshakeError)

\* Only a plain provider, called in a goroutine of its own, is left behind.
Abandon ==
  dialPc = "evidence" /\ cfg.own = "plain" /\ ctx = "done" /\ HandshakeError

StopWatcher ==
  /\ dialPc = "stop"
  /\ ctxDone' = TRUE /\ dialPc' = "wait"
  /\ UNCHANGED <<cfg, ctx, open, rawDeadline, watcher, left, err, ret>>

AwaitWatcherNot ==
  /\ dialPc = "wait"
  /\ dialPc' = IF err THEN "close" ELSE "clear"
  /\ UNCHANGED <<cfg, ctx, open, rawDeadline, watcher, ctxDone, left, err, ret>>

AwaitWatcher ==
  /\ dialPc = "wait" /\ watcher = "done"
  /\ dialPc' = IF err THEN "close" ELSE "clear"
  /\ UNCHANGED <<cfg, ctx, open, rawDeadline, watcher, ctxDone, left, err, ret>>

\* conn.Close, without a close_notify as the handshake has not completed.
FailLeak ==
  /\ dialPc = "close"
  /\ ReturnFromDial(IF ctx = "done" THEN "context error" ELSE "handshake error")
  /\ UNCHANGED <<cfg, ctx, open, rawDeadline, watcher, ctxDone, left, err>>

Fail ==
  /\ dialPc = "close"
  /\ open' = FALSE
  /\ ReturnFromDial(IF ctx = "done" THEN "context error" ELSE "handshake error")
  /\ UNCHANGED <<cfg, ctx, rawDeadline, watcher, ctxDone, left, err>>

ClearRawDeadline ==
  /\ dialPc = "clear"
  /\ rawDeadline' = "none"
  /\ ReturnFromDial("conn")
  /\ UNCHANGED <<cfg, ctx, open, watcher, ctxDone, left, err>>

-----------------------------------------------------------------------------
(* The watcher goroutine.  With both channels ready, select picks either. *)

WatcherCancelled ==
  /\ watcher = "select" /\ ctx = "done"
  /\ watcher' = "fire"
  /\ UNCHANGED <<cfg, ctx, dialPc, open, rawDeadline, ctxDone, left, err, ret>>

WatcherStopped ==
  /\ watcher = "select" /\ ctxDone
  /\ watcher' = "done"
  /\ UNCHANGED <<cfg, ctx, dialPc, open, rawDeadline, ctxDone, left, err, ret>>

\* SetDeadline(time.Now()); on a closed connection it has no effect.
WatcherIdle ==
  /\ watcher = "fire"
  /\ watcher' = "done"
  /\ UNCHANGED <<cfg, ctx, dialPc, open, rawDeadline, ctxDone, left, err, ret>>

WatcherFires ==
  /\ watcher = "fire"
  /\ rawDeadline' = IF open THEN "past" ELSE rawDeadline
  /\ watcher' = "done"
  /\ UNCHANGED <<cfg, ctx, dialPc, open, ctxDone, left, err, ret>>

-----------------------------------------------------------------------------

Dialer ==
  \/ Validate \/ RawDial \/ RawDialFails \/ Arm \/ Spawn
  \/ HandshakeIO \/ HandshakeRefused \/ HandshakeTimeout \/ HandshakeDone
  \/ ServerFinishedRead \/ TakeCertMu \/ ProviderReturns \/ Abandon
  \/ StopWatcher \/ AwaitWatcher \/ Fail \/ ClearRawDeadline
Watcher == WatcherCancelled \/ WatcherStopped \/ WatcherFires

DialNext == Cancel \/ Expire \/ Dialer \/ Watcher

DialSpec == DialInit /\ [][DialNext]_dialVars

\* Steps DialContext takes by itself.  A peer need never answer, so HandshakeIO and
\* HandshakeRefused are not among them, and neither are a holder of certMu and the
\* provider; a cancelled dial returns.
DialerAlone ==
  \/ Validate \/ (RawDialFails /\ ctx = "done") \/ Arm \/ Spawn
  \/ HandshakeTimeout \/ HandshakeDone \/ ServerFinishedRead \/ Abandon
  \/ StopWatcher \/ AwaitWatcher \/ Fail \/ ClearRawDeadline

\* Goroutines that can run do; timers need not fire.
DialFairSpec == DialSpec /\ WF_dialVars(DialerAlone) /\ WF_dialVars(Watcher)

\* The dialer's Timeout and the connection's deadline do fire.
TimersFire == WF_dialVars(Expire) /\ WF_dialVars(RawDialFails)

\* Whoever holds certMu lets go of it.
CertMuReached == WF_dialVars(TakeCertMu)

\* The provider answers.
ProviderAnswers == WF_dialVars(ProviderReturns)

-----------------------------------------------------------------------------
(* Properties *)

\* The types of the variables of DialContext and its watcher.
DialTypeOK ==
  /\ cfg \in Configs /\ ctx \in {"live", "done"}
  /\ dialPc \in {"validate", "dial", "arm", "spawn", "handshake", "certMu", "evidence",
                 "flight", "stop", "wait", "close", "clear", "returned"}
  /\ open \in BOOLEAN /\ rawDeadline \in {"none", "armed", "past"}
  /\ watcher \in {"none", "select", "fire", "done"}
  /\ ctxDone \in BOOLEAN /\ left \in 0 .. IO /\ err \in BOOLEAN
  /\ ret \in {"none", "config error", "dial error", "context error", "handshake error",
              "conn"}

\* transport.go:94-97 and README.md:251: a connection handed back is open and carries
\* no deadline, then and ever after, however a cancellation races with the end of the
\* handshake.
HandedBackClean == ret = "conn" => open /\ rawDeadline = "none" /\ left = 0

\* A dial that fails leaves no raw connection open and no watcher running.
FailureReleases ==
  Returned /\ ret # "conn" => ~open /\ watcher \in {"none", "done"}

\* The dial neither needs certMu nor the provider.
AttestsAtOnce == cfg.own \in {"none", "pem"}

\* A cancelled DialContext returns although the peer never answers and no timer fires:
\* the watcher makes the blocked read fail.  The wait for the client's own certificate
\* is another matter: a cancellation ends neither the wait for certMu nor a retrieval
\* that a context-aware provider has begun.
CancelReturns ==
  /\ ctx = "done" /\ AttestsAtOnce ~> Returned
  /\ CertMuReached => (ctx = "done" /\ cfg.own = "plain" ~> Returned)
  /\ CertMuReached /\ ProviderAnswers => (ctx = "done" ~> Returned)

\* When timers fire, a silent peer is given up on without any cancellation.  Timeout is
\* a deadline of the raw connection only: it does not bound the wait for certMu or for
\* the provider, plain or not, although README.md:251 has it bound the handshake.
DialReturns ==
  /\ TimersFire => (AttestsAtOnce => <>Returned)
  /\ TimersFire /\ CertMuReached /\ ProviderAnswers => <>Returned
=============================================================================
