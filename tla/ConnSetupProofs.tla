-------------------------- MODULE ConnSetupProofs --------------------------
(***************************************************************************)
(* Setting up a connection: the lazy handshake of conn.go is safe for any  *)
(* number of goroutines, and DialContext of transport.go hands back a      *)
(* clean connection or none, for handshakes of any length.                 *)
(*                                                                         *)
(* The invariant follows the one caller that holds handshakeMutex: the     *)
(* protocol has been started once exactly if that caller is in it or it    *)
(* left a verdict behind, and handshakeDone is set only after everything   *)
(* it publishes.                                                           *)
(***************************************************************************)
EXTENDS ConnHandshake, Dial, TLAPS

\* The holder of handshakeMutex has started the protocol and not yet returned.
Busy == {"running", "ciphers", "peer", "publish"}
InProgress == mutex # None /\ pc[mutex] \in Busy

\* A run in progress or a verdict accounts for the one run there may be.
RunsInv ==
  /\ runs = 0 \/ runs = 1
  /\ runs = 1 => handshakeDone \/ handshakeErr \/ InProgress
  /\ runs = 0 => ~handshakeDone /\ ~handshakeErr /\ ~InProgress
  /\ InProgress => ~handshakeDone /\ ~handshakeErr

\* What callers were told is what the Conn remembers.
VerdictInv ==
  /\ ~(handshakeDone /\ handshakeErr)
  /\ "ok" \in verdicts => handshakeDone
  /\ "err" \in verdicts => handshakeErr

\* The fields are assigned before they are published, and used afterwards.
PublishInv ==
  /\ handshakeDone => inCipher /\ outCipher /\ peerInfo
  /\ \A g \in Goroutine :
       /\ pc[g] = "peer" => inCipher /\ outCipher
       /\ pc[g] = "publish" => inCipher /\ outCipher /\ peerInfo
       /\ pc[g] \in {"use", "alert"} => handshakeDone

\* A handshake deadline is there only while the server's protocol runs.
DeadlineInv ==
  deadline = "handshake" => IsServer /\ mutex # None /\ pc[mutex] = "running"

IInv == TypeOK /\ RunsInv /\ VerdictInv /\ PublishInv /\ DeadlineInv

-----------------------------------------------------------------------------
\* A new Conn satisfies the invariant.
LEMMA InitInv == Init => IInv
<1> SUFFICES ASSUME Init PROVE IInv
  OBVIOUS
<1> USE CallerAssumption DEF Init
<1>1. TypeOK
  BY Zenon DEF TypeOK
<1>2. RunsInv /\ VerdictInv
  BY DEF RunsInv, VerdictInv, InProgress
<1>3. PublishInv /\ DeadlineInv
  BY DEF PublishInv, DeadlineInv
<1> QED BY <1>1, <1>2, <1>3 DEF IInv

\* The fast path of handshake(), or queueing for handshakeMutex.
LEMMA CallInv ==
  ASSUME IInv, NEW g \in Goroutine, Call(g)
  PROVE  IInv'
<1> USE CallerAssumption DEF Call, Return, Goto, connVars
<1>1. TypeOK'
  BY Zenon DEF IInv, TypeOK
<1>2. RunsInv'
  BY DEF IInv, TypeOK, RunsInv, InProgress, Busy
<1>3. VerdictInv'
  BY DEF IInv, TypeOK, RunsInv, InProgress, Busy, VerdictInv
<1>4. PublishInv'
  BY DEF IInv, TypeOK, RunsInv, InProgress, Busy, PublishInv
<1>5. DeadlineInv'
  BY DEF IInv, TypeOK, DeadlineInv
<1> QED BY <1>1, <1>2, <1>3, <1>4, <1>5 DEF IInv

\* Taking handshakeMutex.
LEMMA LockInv ==
  ASSUME IInv, NEW g \in Goroutine, Lock(g)
  PROVE  IInv'
BY CallerAssumption DEF IInv, TypeOK, RunsInv, VerdictInv, PublishInv, DeadlineInv,
   InProgress, Busy,
   Lock, Goto, connVars

\* The recheck under the mutex returns the verdict of an earlier caller.
LEMMA ReturnEarlyInv ==
  ASSUME IInv, NEW g \in Goroutine, ReturnEarly(g)
  PROVE  IInv'
BY CallerAssumption DEF IInv, TypeOK, RunsInv, VerdictInv, PublishInv, DeadlineInv,
   InProgress, Busy,
   ReturnEarly, Recheck, Return, Goto, connVars

\* Whoever starts the protocol found no verdict, so nobody has started it before.
LEMMA StartInv ==
  ASSUME IInv, NEW g \in Goroutine, Start(g)
  PROVE  IInv'
<1> USE CallerAssumption
<1>1. pc[g] = "locked" /\ mutex = g /\ ~handshakeDone /\ ~handshakeErr
  BY DEF IInv, TypeOK, Start, Recheck
<1>2. runs = 0
  BY <1>1 DEF IInv, RunsInv, InProgress, Busy
<1>3. runs' = 1
  BY <1>2 DEF Start
<1>4. TypeOK'
  <2>1. runs' \in Nat
    BY <1>3
  <2>2. deadline' \in {"none", "handshake", "application"}
    BY DEF IInv, TypeOK, Start
  <2>3. /\ pc' = [pc EXCEPT ![g] = "running"]
        /\ UNCHANGED <<connVars, mutex, closeOnce, verdicts>>
    BY DEF Start, Goto
  <2> QED BY <1>1, <2>1, <2>2, <2>3 DEF IInv, TypeOK, connVars
<1>5. RunsInv'
  BY <1>1, <1>3 DEF IInv, TypeOK, RunsInv, InProgress, Busy, Start, Goto, connVars
<1>6. VerdictInv'
  BY DEF IInv, VerdictInv, Start, connVars
<1>7. PublishInv'
  BY DEF IInv, TypeOK, PublishInv, Start, Goto, connVars
<1>8. DeadlineInv'
  BY <1>1 DEF IInv, TypeOK, DeadlineInv, Start, Goto
<1> QED BY <1>4, <1>5, <1>6, <1>7, <1>8 DEF IInv

\* A run that fails before it has set a deadline counts as the one run, and leaves the
\* sticky error.
LEMMA StartFailsInv ==
  ASSUME IInv, NEW g \in Goroutine, StartFails(g)
  PROVE  IInv'
<1> USE CallerAssumption
<1>1. pc[g] = "locked" /\ mutex = g /\ ~handshakeDone /\ ~handshakeErr
  BY DEF IInv, TypeOK, StartFails, Recheck
<1>2. runs = 0
  BY <1>1 DEF IInv, RunsInv, InProgress, Busy
<1>3. runs' = 1
  BY <1>2 DEF StartFails
<1>4. /\ pc' = [pc EXCEPT ![g] = "idle"] /\ mutex' = None
      /\ verdicts' = verdicts \cup {"err"} /\ handshakeErr' = TRUE
      /\ UNCHANGED <<handshakeDone, inCipher, outCipher, peerInfo, closeOnce, deadline>>
  BY <1>1 DEF StartFails, Return, Goto
<1>5. TypeOK'
  BY <1>1, <1>3, <1>4 DEF IInv, TypeOK
<1>6. RunsInv'
  BY <1>1, <1>3, <1>4 DEF IInv, RunsInv, InProgress
<1>7. VerdictInv'
  BY <1>1, <1>4 DEF IInv, VerdictInv
<1>8. PublishInv'
  BY <1>4 DEF IInv, TypeOK, PublishInv
<1>9. DeadlineInv'
  BY <1>1, <1>4 DEF IInv, DeadlineInv
<1> QED BY <1>5, <1>6, <1>7, <1>8, <1>9 DEF IInv

\* A failed run leaves the sticky error.
LEMMA RunFailsInv ==
  ASSUME IInv, NEW g \in Goroutine, RunFails(g)
  PROVE  IInv'
<1> USE CallerAssumption DEF RunFails, ClearDeadline, Return, Goto
<1>1. TypeOK'
  BY DEF IInv, TypeOK
<1>2. RunsInv'
  BY DEF IInv, TypeOK, RunsInv, InProgress, Busy
<1>3. VerdictInv'
  BY DEF IInv, TypeOK, RunsInv, InProgress, Busy, VerdictInv
<1>4. PublishInv'
  BY DEF IInv, TypeOK, RunsInv, InProgress, Busy, PublishInv
<1>5. DeadlineInv'
  BY DEF IInv, TypeOK, DeadlineInv
<1> QED BY <1>1, <1>2, <1>3, <1>4, <1>5 DEF IInv

\* A successful run goes on to install its result.
LEMMA RunSucceedsInv ==
  ASSUME IInv, NEW g \in Goroutine, RunSucceeds(g)
  PROVE  IInv'
<1> USE CallerAssumption DEF RunSucceeds, ClearDeadline, Goto, connVars
<1>1. TypeOK'
  BY DEF IInv, TypeOK
<1>2. RunsInv'
  BY DEF IInv, TypeOK, RunsInv, InProgress, Busy
<1>3. VerdictInv'
  BY DEF IInv, TypeOK, RunsInv, InProgress, Busy, VerdictInv
<1>4. PublishInv'
  BY DEF IInv, TypeOK, RunsInv, InProgress, Busy, PublishInv
<1>5. DeadlineInv'
  BY DEF IInv, TypeOK, DeadlineInv
<1> QED BY <1>1, <1>2, <1>3, <1>4, <1>5 DEF IInv

\* The ciphers are assigned.
LEMMA InstallInv ==
  ASSUME IInv, NEW g \in Goroutine, Install(g)
  PROVE  IInv'
BY CallerAssumption DEF IInv, TypeOK, RunsInv, VerdictInv, PublishInv, DeadlineInv,
   InProgress, Busy,
   Install, Goto

\* The peer's certificate and evidence are assigned.
LEMMA InstallPeerInv ==
  ASSUME IInv, NEW g \in Goroutine, InstallPeer(g)
  PROVE  IInv'
BY CallerAssumption DEF IInv, TypeOK, RunsInv, VerdictInv, PublishInv, DeadlineInv,
   InProgress, Busy,
   InstallPeer, Goto

\* handshakeDone is stored last.
LEMMA PublishStepInv ==
  ASSUME IInv, NEW g \in Goroutine, Publish(g)
  PROVE  IInv'
BY CallerAssumption DEF IInv, TypeOK, RunsInv, VerdictInv, PublishInv, DeadlineInv,
   InProgress, Busy,
   Publish, Return, Goto

\* The body of Read or Write.
LEMMA UseInv ==
  ASSUME IInv, NEW g \in Goroutine, Use(g)
  PROVE  IInv'
BY CallerAssumption DEF IInv, TypeOK, RunsInv, VerdictInv, PublishInv, DeadlineInv,
   InProgress, Busy,
   Use, Goto, connVars

\* Close looks at handshakeDone without the mutex.
LEMMA CloseCallInv ==
  ASSUME IInv, NEW g \in Goroutine, CloseCall(g)
  PROVE  IInv'
BY CallerAssumption, Zenon DEF IInv, TypeOK, RunsInv, VerdictInv, PublishInv, DeadlineInv,
   InProgress, Busy,
   CloseCall, Goto, connVars

\* Close seals its alert.
LEMMA CloseAlertInv ==
  ASSUME IInv, NEW g \in Goroutine, CloseAlert(g)
  PROVE  IInv'
BY CallerAssumption DEF IInv, TypeOK, RunsInv, VerdictInv, PublishInv, DeadlineInv,
   InProgress, Busy,
   CloseAlert, Goto, connVars

\* Close closes the raw connection.
LEMMA CloseRawInv ==
  ASSUME IInv, NEW g \in Goroutine, CloseRaw(g)
  PROVE  IInv'
BY CallerAssumption, ZenonT(30) DEF IInv, TypeOK, RunsInv, VerdictInv, PublishInv, DeadlineInv,
   InProgress, Busy,
   CloseRaw, Goto, connVars

\* SetReadDeadline at any moment.
LEMMA SetDeadlineInv ==
  ASSUME IInv, NEW on \in BOOLEAN, SetReadDeadline(on)
  PROVE  IInv'
BY DEF IInv, TypeOK, RunsInv, VerdictInv, PublishInv, DeadlineInv, InProgress,
   SetReadDeadline, connVars

-----------------------------------------------------------------------------
\* Every step of every goroutine preserves the invariant.
LEMMA NextInv == IInv /\ [Next]_vars => IInv'
<1> SUFFICES ASSUME IInv, [Next]_vars PROVE IInv'
  OBVIOUS
<1>1. ASSUME NEW g \in Goroutine, Call(g) \/ Lock(g) \/ Step(g) \/ CloseCall(g)
      PROVE  IInv'
  BY <1>1, CallInv, LockInv, ReturnEarlyInv, StartFailsInv, StartInv, RunFailsInv,
     RunSucceedsInv, InstallInv, InstallPeerInv, PublishStepInv, UseInv, CloseCallInv, CloseAlertInv,
     CloseRawInv DEF Step
<1>2. ASSUME NEW on \in BOOLEAN, SetReadDeadline(on)
      PROVE  IInv'
  BY <1>2, SetDeadlineInv
<1>3. CASE UNCHANGED vars
  BY <1>3 DEF vars, IInv, TypeOK, RunsInv, VerdictInv, PublishInv, DeadlineInv, InProgress
<1> QED BY <1>1, <1>2, <1>3 DEF Next

\* The invariant holds in every state of handshake() with any number of callers.
THEOREM Invariance == Spec => []IInv
BY InitInv, NextInv, PTL DEF Spec

\* Conn's fields keep their types, and handshakeMutex is held exactly inside the
\* critical section of handshake().
THEOREM TypeCorrect == Spec => []TypeOK
<1>1. IInv => TypeOK
  BY DEF IInv
<1> QED BY <1>1, Invariance, PTL

\* handshake() starts the protocol at most once on a connection.
THEOREM AtMostOneRun == Spec => []RunsOnce
<1>1. IInv => RunsOnce
  BY DEF IInv, RunsInv, RunsOnce
<1> QED BY <1>1, Invariance, PTL

\* handshake() never tells one caller "ok" and another "err".
THEOREM VerdictsAgree == Spec => []OneVerdict
<1>1. IInv => OneVerdict
  BY DEF IInv, VerdictInv, OneVerdict
<1> QED BY <1>1, Invariance, PTL

\* Read, Write and Close find both ciphers and the peer's evidence installed.
THEOREM UsedAfterInstalled == Spec => []CiphersInstalled
<1>1. IInv => CiphersInstalled
  BY DEF IInv, PublishInv, CiphersInstalled
<1> QED BY <1>1, Invariance, PTL

\* No application Read or Write runs under the handshake's own deadline.
THEOREM NoHandshakeDeadlineLeft == Spec => []HandshakeDeadlineCleared
<1>1. IInv => HandshakeDeadlineCleared
  <2> SUFFICES ASSUME IInv, NEW g \in Goroutine, pc[g] = "use", deadline = "handshake"
               PROVE  FALSE
    BY DEF HandshakeDeadlineCleared
  <2>1. handshakeDone
    BY DEF IInv, PublishInv
  <2>2. InProgress
    BY DEF IInv, DeadlineInv, InProgress, Busy
  <2> QED BY <2>1, <2>2 DEF IInv, RunsInv
<1> QED BY <1>1, Invariance, PTL

-----------------------------------------------------------------------------
(***************************************************************************)
(* DialContext, which runs its handshake before anyone else has the Conn.  *)
(***************************************************************************)

\* The raw connection is open from the raw dial until a failure closes it.
OpenInv ==
  /\ dialPc \in {"validate", "dial"} => ~open
  /\ dialPc \in {"arm", "spawn", "handshake", "certMu", "evidence", "flight", "stop",
                 "wait", "close", "clear"} => open
  /\ Returned => (open <=> ret = "conn")

\* The watcher lives from Spawn until DialContext has waited for it, so that nobody
\* touches the deadline once it is being cleared.
WatcherInv ==
  /\ dialPc \in {"validate", "dial", "arm", "spawn"} => watcher = "none"
  /\ dialPc \in {"close", "clear"} => watcher = "done"
  /\ Returned => watcher \in {"none", "done"}

\* Without an error the handshake ran to its end; only then is the deadline cleared.
ResultInv ==
  /\ dialPc \in {"validate", "dial", "arm", "spawn", "handshake", "certMu", "evidence",
                 "flight"} => ~err
  /\ dialPc \in {"stop", "wait"} /\ ~err => left = 0
  /\ dialPc = "clear" => left = 0
  /\ ~Returned => ret = "none"
  /\ Returned /\ ret = "conn" => rawDeadline = "none" /\ left = 0

DialInv == DialTypeOK /\ OpenInv /\ WatcherInv /\ ResultInv

\* Dial begins in the invariant.
LEMMA DialInitInv == DialInit => DialInv
<1> SUFFICES ASSUME DialInit PROVE DialInv
  OBVIOUS
<1>1. left \in 0 .. IO
  BY DialAssumption DEF DialInit
<1>2. DialTypeOK
  BY <1>1, Zenon DEF DialInit, DialTypeOK
<1>3. OpenInv /\ WatcherInv /\ ResultInv
  BY DEF DialInit, OpenInv, WatcherInv, ResultInv, Returned
<1> QED BY <1>2, <1>3 DEF DialInv

\* The types, in two parts: those of the Boolean variables, and the others.
BooleanTypes == open \in BOOLEAN /\ ctxDone \in BOOLEAN /\ err \in BOOLEAN
OtherTypes ==
  /\ cfg \in Configs /\ ctx \in {"live", "done"}
  /\ dialPc \in {"validate", "dial", "arm", "spawn", "handshake", "certMu", "evidence",
                 "flight", "stop", "wait", "close", "clear", "returned"}
  /\ rawDeadline \in {"none", "armed", "past"}
  /\ watcher \in {"none", "select", "fire", "done"}
  /\ left \in 0 .. IO
  /\ ret \in {"none", "config error", "dial error", "context error", "handshake error",
              "conn"}

\* The flags stay Boolean.
LEMMA DialBooleanStep == BooleanTypes /\ [DialNext]_dialVars => BooleanTypes'
<1> SUFFICES ASSUME BooleanTypes, [DialNext]_dialVars PROVE BooleanTypes'
  OBVIOUS
<1> USE DEF BooleanTypes
<1>1. CASE Cancel
  BY <1>1, Zenon DEF Cancel
<1>2. CASE Expire
  BY <1>2, Zenon DEF Expire
<1>3. CASE Validate
  BY <1>3, Zenon DEF Validate
<1>4. CASE RawDial
  BY <1>4, Zenon DEF RawDial
<1>5. CASE RawDialFails
  BY <1>5, Zenon DEF RawDialFails
<1>6. CASE Arm
  BY <1>6, Zenon DEF Arm
<1>7. CASE Spawn
  BY <1>7, Zenon DEF Spawn
<1>8. CASE HandshakeIO
  BY <1>8, Zenon DEF HandshakeIO
<1>9. CASE HandshakeRefused
  BY <1>9, Zenon DEF HandshakeRefused, HandshakeError
<1>10. CASE HandshakeTimeout
  BY <1>10, Zenon DEF HandshakeTimeout, HandshakeError
<1>11. CASE HandshakeDone
  BY <1>11, Zenon DEF HandshakeDone
<1>12. CASE StopWatcher
  BY <1>12, Zenon DEF StopWatcher
<1>13. CASE AwaitWatcher
  BY <1>13, Zenon DEF AwaitWatcher
<1>14. CASE Fail
  BY <1>14, Zenon DEF Fail
<1>15. CASE ClearRawDeadline
  BY <1>15, Zenon DEF ClearRawDeadline
<1>16. CASE WatcherCancelled
  BY <1>16, Zenon DEF WatcherCancelled
<1>17. CASE WatcherStopped
  BY <1>17, Zenon DEF WatcherStopped
<1>18. CASE WatcherFires
  BY <1>18, Zenon DEF WatcherFires
<1>19. CASE UNCHANGED dialVars
  BY <1>19, ZenonT(30) DEF dialVars
<1>20. CASE ServerFinishedRead
  BY <1>20, Zenon DEF ServerFinishedRead
<1>21. CASE TakeCertMu
  BY <1>21, Zenon DEF TakeCertMu, CertificateAtHand, HandshakeError
<1>22. CASE ProviderReturns
  BY <1>22, Zenon DEF ProviderReturns, CertificateAtHand, HandshakeError
<1>23. CASE Abandon
  BY <1>23, Zenon DEF Abandon, HandshakeError
<1> QED
  BY <1>1, <1>2, <1>3, <1>4, <1>5, <1>6, <1>7, <1>8, <1>9, <1>10, <1>11, <1>12,
     <1>13, <1>14, <1>15, <1>16, <1>17, <1>18, <1>19, <1>20, <1>21, <1>22, <1>23, Zenon
  DEF DialNext, Dialer, Watcher

\* One operation of the handshake less.
LEMMA OneLess ==
  ASSUME NEW n \in 0 .. IO, n > 0 \/ n > Flight
  PROVE  n - 1 \in 0 .. IO
BY DialAssumption

\* The rest of the types.
LEMMA DialOtherStep == OtherTypes /\ [DialNext]_dialVars => OtherTypes'
<1> SUFFICES ASSUME OtherTypes, [DialNext]_dialVars PROVE OtherTypes'
  OBVIOUS
<1> USE DEF OtherTypes, ReturnFromDial
<1>1. CASE Cancel
  BY <1>1 DEF Cancel
<1>2. CASE Expire
  BY <1>2 DEF Expire
<1>3. CASE Validate
  BY <1>3 DEF Validate
<1>4. CASE RawDial
  BY <1>4 DEF RawDial
<1>5. CASE RawDialFails
  BY <1>5 DEF RawDialFails
<1>6. CASE Arm
  BY <1>6 DEF Arm
<1>7. CASE Spawn
  BY <1>7 DEF Spawn
<1>8. CASE HandshakeIO
  <2>1. left' \in 0 .. IO
    BY <1>8, OneLess, Zenon DEF HandshakeIO, InIO
  <2> QED BY <1>8, <2>1, Zenon DEF HandshakeIO
<1>9. CASE HandshakeRefused
  BY <1>9 DEF HandshakeRefused, HandshakeError
<1>10. CASE HandshakeTimeout
  BY <1>10 DEF HandshakeTimeout, HandshakeError
<1>11. CASE HandshakeDone
  BY <1>11 DEF HandshakeDone
<1>12. CASE StopWatcher
  BY <1>12 DEF StopWatcher
<1>13. CASE AwaitWatcher
  BY <1>13 DEF AwaitWatcher
<1>14. CASE Fail
  BY <1>14 DEF Fail
<1>15. CASE ClearRawDeadline
  BY <1>15 DEF ClearRawDeadline
<1>16. CASE WatcherCancelled
  BY <1>16 DEF WatcherCancelled
<1>17. CASE WatcherStopped
  BY <1>17 DEF WatcherStopped
<1>18. CASE WatcherFires
  BY <1>18 DEF WatcherFires
<1>19. CASE UNCHANGED dialVars
  BY <1>19, ZenonT(30) DEF dialVars
<1>20. CASE ServerFinishedRead
  BY <1>20 DEF ServerFinishedRead
<1>21. CASE TakeCertMu
  BY <1>21 DEF TakeCertMu, CertificateAtHand, HandshakeError
<1>22. CASE ProviderReturns
  BY <1>22 DEF ProviderReturns, CertificateAtHand, HandshakeError
<1>23. CASE Abandon
  BY <1>23 DEF Abandon, HandshakeError
<1> QED
  BY <1>1, <1>2, <1>3, <1>4, <1>5, <1>6, <1>7, <1>8, <1>9, <1>10, <1>11, <1>12,
     <1>13, <1>14, <1>15, <1>16, <1>17, <1>18, <1>19, <1>20, <1>21, <1>22, <1>23, Zenon
  DEF DialNext, Dialer, Watcher

\* Every step keeps the types.
LEMMA DialTypeStep == DialTypeOK /\ [DialNext]_dialVars => DialTypeOK'
<1>1. DialTypeOK <=> BooleanTypes /\ OtherTypes
  BY DEF DialTypeOK, BooleanTypes, OtherTypes
<1>2. DialTypeOK' <=> BooleanTypes' /\ OtherTypes'
  BY DEF DialTypeOK, BooleanTypes, OtherTypes
<1> QED BY <1>1, <1>2, DialBooleanStep, DialOtherStep

\* Every step of Dial, of its watcher and of the context keeps the invariant.
LEMMA DialStep == DialInv /\ [DialNext]_dialVars => DialInv'
<1> SUFFICES ASSUME DialInv, [DialNext]_dialVars PROVE DialInv'
  OBVIOUS
<1>1. DialTypeOK'
  BY DialTypeStep DEF DialInv
<1> SUFFICES (OpenInv /\ WatcherInv /\ ResultInv)'
  BY <1>1 DEF DialInv
<1> USE DEF DialInv, DialTypeOK, OpenInv, WatcherInv, ResultInv, Returned,
           ReturnFromDial
<1>2. CASE Cancel
  BY <1>2 DEF Cancel
<1>3. CASE Expire
  BY <1>3 DEF Expire
<1>4. CASE Validate
  BY <1>4 DEF Validate
<1>5. CASE RawDial
  BY <1>5 DEF RawDial
<1>6. CASE RawDialFails
  BY <1>6 DEF RawDialFails
<1>7. CASE Arm
  BY <1>7 DEF Arm
<1>8. CASE Spawn
  <2>1. OpenInv'
    BY <1>8 DEF Spawn
  <2>2. WatcherInv'
    BY <1>8 DEF Spawn
  <2>3. ResultInv'
    BY <1>8 DEF Spawn
  <2> QED BY <2>1, <2>2, <2>3
<1>9. CASE HandshakeIO
  BY <1>9 DEF HandshakeIO, InIO
<1>10. CASE HandshakeRefused
  BY <1>10 DEF HandshakeRefused, HandshakeError, InIO
<1>11. CASE HandshakeTimeout
  BY <1>11 DEF HandshakeTimeout, HandshakeError, InIO
<1>12. CASE HandshakeDone
  BY <1>12 DEF HandshakeDone
<1>13. CASE StopWatcher
  BY <1>13 DEF StopWatcher
<1>14. CASE AwaitWatcher
  BY <1>14 DEF AwaitWatcher
<1>15. CASE Fail
  BY <1>15 DEF Fail
<1>16. CASE ClearRawDeadline
  BY <1>16 DEF ClearRawDeadline
<1>17. CASE WatcherCancelled
  BY <1>17 DEF WatcherCancelled
<1>18. CASE WatcherStopped
  BY <1>18 DEF WatcherStopped
<1>19. CASE WatcherFires
  BY <1>19 DEF WatcherFires
<1>20. CASE UNCHANGED dialVars
  BY <1>20 DEF dialVars
<1>21. CASE ServerFinishedRead
  BY <1>21 DEF ServerFinishedRead
<1>22. CASE dialPc \in {"certMu", "evidence"} /\ CertificateAtHand
  BY <1>22 DEF CertificateAtHand
<1>23. CASE dialPc \in {"certMu", "evidence"} /\ HandshakeError
  BY <1>23 DEF HandshakeError
<1>24. CASE TakeCertMu
  <2>1. CASE dialPc' = "evidence"
    BY <1>24, <2>1 DEF TakeCertMu, CertificateAtHand, HandshakeError
  <2> QED BY <1>22, <1>23, <1>24, <2>1, Zenon DEF TakeCertMu
<1>25. CASE ProviderReturns
  BY <1>22, <1>23, <1>25, Zenon DEF ProviderReturns
<1>26. CASE Abandon
  BY <1>23, <1>26, Zenon DEF Abandon
<1> QED
  BY <1>2, <1>3, <1>4, <1>5, <1>6, <1>7, <1>8, <1>9, <1>10, <1>11, <1>12, <1>13,
       <1>14, <1>15, <1>16, <1>17, <1>18, <1>19, <1>20, <1>21, <1>24, <1>25, <1>26, Zenon
  DEF DialNext, Dialer, Watcher

\* The invariant holds of every dial.
LEMMA DialInvariant == DialSpec => []DialInv
BY DialInitInv, DialStep, PTL DEF DialSpec

\* The variables of DialContext keep their types.
THEOREM DialTypeCorrect == DialSpec => []DialTypeOK
<1>1. DialInv => DialTypeOK
  BY DEF DialInv
<1> QED BY <1>1, DialInvariant, PTL

\* A connection DialContext hands back is open and has no deadline, then and later.
THEOREM ConnHandedBackClean == DialSpec => []HandedBackClean
<1>1. DialInv => HandedBackClean
  BY DEF DialInv, DialTypeOK, OpenInv, ResultInv, Returned,
         HandedBackClean
<1> QED BY <1>1, DialInvariant, PTL

\* A DialContext that fails has closed the raw connection it opened and outlives its
\* watcher.
THEOREM FailedDialReleases == DialSpec => []FailureReleases
<1>1. DialInv => FailureReleases
  BY DEF DialInv, DialTypeOK, OpenInv, WatcherInv, FailureReleases
<1> QED BY <1>1, DialInvariant, PTL
=============================================================================
