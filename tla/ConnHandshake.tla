--------------------------- MODULE ConnHandshake ---------------------------
(***************************************************************************)
(* conn.go: the lazy handshake of one Conn.  Any number of goroutines call *)
(* Handshake, Read or Write (which begin with it) and Close; the           *)
(* application sets read deadlines.  The protocol itself is Handshake's:   *)
(* here it runs, takes time, and succeeds or fails.                        *)
(***************************************************************************)
EXTENDS Naturals

CONSTANTS
  Goroutine,    \* the callers
  None,         \* no goroutine: the mutex is free
  IsServer      \* Conn.isServer

ASSUME CallerAssumption == None \notin Goroutine /\ IsServer \in BOOLEAN

VARIABLES
  handshakeDone, handshakeErr, mutex,   \* mutex is handshakeMutex
  inCipher, outCipher,                  \* the field has been assigned
  peerInfo,                             \* peerCertPEM, peerEvidence, peerCertificate
  closeOnce,     \* some Close has begun
  deadline,      \* whose deadline the raw connection's reads are under
  pc,
  verdicts,      \* history: what handshake() has returned to its callers
  runs           \* history: how often the protocol was started

vars == <<handshakeDone, handshakeErr, mutex, inCipher, outCipher, peerInfo, closeOnce,
          deadline, pc, verdicts, runs>>
connVars == <<handshakeDone, handshakeErr, inCipher, outCipher, peerInfo>>

Init ==
  /\ handshakeDone = FALSE /\ handshakeErr = FALSE /\ mutex = None
  /\ inCipher = FALSE /\ outCipher = FALSE /\ peerInfo = FALSE
  /\ closeOnce = FALSE
  /\ deadline = "none"
  /\ pc = [g \in Goroutine |-> "idle"]
  /\ verdicts = {}
  /\ runs = 0

Goto(g, l) == pc' = [pc EXCEPT ![g] = l]

\* handshake() returns v to g and releases the mutex if g holds it; on success the
\* caller goes on to use the ciphers.
Return(g, v) ==
  /\ verdicts' = verdicts \cup {v}
  /\ Goto(g, IF v = "ok" THEN "use" ELSE "idle")
  /\ mutex' = IF mutex = g THEN None ELSE mutex

\* The call: the fast path if the handshake is done, else wait for the mutex.
Call(g) ==
  /\ pc[g] = "idle"
  /\ IF handshakeDone
     THEN Return(g, "ok")
     ELSE Goto(g, "lock") /\ UNCHANGED <<mutex, verdicts>>
  /\ UNCHANGED <<connVars, closeOnce, deadline, runs>>

LockUnlessFailed(g) ==
  /\ pc[g] = "lock" /\ mutex = None /\ ~handshakeErr
  /\ mutex' = g
  /\ Goto(g, "locked")
  /\ UNCHANGED <<connVars, closeOnce, deadline, verdicts, runs>>

Lock(g) ==
  /\ pc[g] = "lock" /\ mutex = None
  /\ mutex' = g
  /\ Goto(g, "locked")
  /\ UNCHANGED <<connVars, closeOnce, deadline, verdicts, runs>>

\* Somebody else was faster, or failed before: the error is sticky.
RecheckSkipped == "run"
RecheckErrLost == IF handshakeDone \/ handshakeErr THEN "ok" ELSE "run"
Recheck == IF handshakeDone THEN "ok" ELSE IF handshakeErr THEN "err" ELSE "run"

ReturnEarly(g) ==
  /\ pc[g] = "locked" /\ Recheck # "run"
  /\ Return(g, Recheck)
  /\ UNCHANGED <<connVars, closeOnce, deadline, runs>>

\* The configuration is not valid, or the deadline cannot be set: the run is over
\* before it has touched the raw connection's deadline.
StartFails(g) ==
  /\ pc[g] = "locked" /\ Recheck = "run"
  /\ runs' = runs + 1
  /\ handshakeErr' = TRUE
  /\ Return(g, "err")
  /\ UNCHANGED <<handshakeDone, inCipher, outCipher, peerInfo, closeOnce, deadline>>

\* The protocol starts; the server bounds it with a deadline of its own.
Start(g) ==
  /\ pc[g] = "locked" /\ Recheck = "run"
  /\ runs' = runs + 1
  /\ deadline' = IF IsServer THEN "handshake" ELSE deadline
  /\ Goto(g, "running")
  /\ UNCHANGED <<connVars, mutex, closeOnce, verdicts>>

\* ... and clears it when it returns, whatever was there before.
ClearDeadlineNot == deadline
ClearDeadline == IF IsServer THEN "none" ELSE deadline

RunFails(g) ==
  /\ pc[g] = "running"
  /\ deadline' = ClearDeadline
  /\ handshakeErr' = TRUE
  /\ Return(g, "err")
  /\ UNCHANGED <<handshakeDone, inCipher, outCipher, peerInfo, closeOnce, runs>>

RunSucceeds(g) ==
  /\ pc[g] = "running"
  /\ deadline' = ClearDeadline
  /\ Goto(g, "ciphers")
  /\ UNCHANGED <<connVars, mutex, closeOnce, verdicts, runs>>

\* The result is installed field by field, and published last.
InstallDoneFirst(g) ==
  /\ pc[g] = "ciphers"
  /\ \/ ~handshakeDone /\ handshakeDone' = TRUE /\ UNCHANGED <<inCipher, outCipher, pc>>
     \/ handshakeDone /\ inCipher' = TRUE /\ outCipher' = TRUE /\ Goto(g, "peer")
                      /\ UNCHANGED handshakeDone
  /\ UNCHANGED <<handshakeErr, mutex, peerInfo, closeOnce, deadline, verdicts, runs>>

Install(g) ==
  /\ pc[g] = "ciphers"
  /\ \/ ~inCipher /\ inCipher' = TRUE /\ UNCHANGED <<outCipher, pc>>
     \/ inCipher /\ outCipher' = TRUE /\ Goto(g, "peer") /\ UNCHANGED inCipher
  /\ UNCHANGED <<handshakeDone, handshakeErr, mutex, peerInfo, closeOnce, deadline,
                 verdicts, runs>>

InstallPeer(g) ==
  /\ pc[g] = "peer"
  /\ peerInfo' = TRUE
  /\ Goto(g, "publish")
  /\ UNCHANGED <<handshakeDone, handshakeErr, mutex, inCipher, outCipher, closeOnce, deadline,
                 verdicts, runs>>

Publish(g) ==
  /\ pc[g] = "publish"
  /\ handshakeDone' = TRUE
  /\ Return(g, "ok")
  /\ UNCHANGED <<handshakeErr, inCipher, outCipher, peerInfo, closeOnce, deadline, runs>>

\* The body of Read or Write, or nothing after Handshake.
Use(g) ==
  /\ pc[g] = "use"
  /\ Goto(g, "idle")
  /\ UNCHANGED <<connVars, mutex, closeOnce, deadline, verdicts, runs>>

\* Close does not take handshakeMutex: it may run at any point of a handshake.
\* Later calls of Close wait for the first (see Conn).  "alert" is the point where
\* outCipher seals close_notify.
CloseCall(g) ==
  /\ pc[g] = "idle" /\ ~closeOnce
  /\ closeOnce' = TRUE
  /\ Goto(g, IF handshakeDone /\ outCipher THEN "alert" ELSE "close raw")
  /\ UNCHANGED <<connVars, mutex, deadline, verdicts, runs>>

CloseAlert(g) ==
  /\ pc[g] = "alert"
  /\ Goto(g, "close raw")
  /\ UNCHANGED <<connVars, mutex, closeOnce, deadline, verdicts, runs>>

CloseRaw(g) ==
  /\ pc[g] = "close raw"
  /\ Goto(g, "idle")
  /\ UNCHANGED <<connVars, mutex, closeOnce, deadline, verdicts, runs>>

\* SetReadDeadline goes straight to the raw connection.
SetReadDeadline(on) ==
  /\ deadline' = IF on THEN "application" ELSE "none"
  /\ UNCHANGED <<connVars, mutex, closeOnce, pc, verdicts, runs>>

-----------------------------------------------------------------------------
Step(g) ==
  \/ ReturnEarly(g) \/ StartFails(g) \/ Start(g) \/ RunFails(g) \/ RunSucceeds(g)
  \/ Install(g) \/ InstallPeer(g) \/ Publish(g) \/ Use(g) \/ CloseAlert(g) \/ CloseRaw(g)

Next ==
  \/ \E g \in Goroutine : Call(g) \/ Lock(g) \/ Step(g) \/ CloseCall(g)
  \/ \E on \in BOOLEAN : SetReadDeadline(on)

Spec == Init /\ [][Next]_vars

\* The protocol returns (Handshake!ServerReturns, Dial!DialReturns, both given that
\* prepareCertificate does), a goroutine inside a call runs on, and sync.Mutex starves nobody.
FairSpec ==
  Spec /\ \A g \in Goroutine : WF_vars(Step(g)) /\ SF_vars(Lock(g))

-----------------------------------------------------------------------------
(* Properties *)

\* The types of Conn's fields and the callers' positions; handshakeMutex is held
\* exactly by the caller between Lock and return.
TypeOK ==
  /\ handshakeDone \in BOOLEAN /\ handshakeErr \in BOOLEAN
  /\ inCipher \in BOOLEAN /\ outCipher \in BOOLEAN /\ peerInfo \in BOOLEAN
  /\ mutex \in Goroutine \cup {None}
  /\ \A g \in Goroutine :
       mutex = g <=> pc[g] \in {"locked", "running", "ciphers", "peer", "publish"}
  /\ closeOnce \in BOOLEAN
  /\ deadline \in {"none", "handshake", "application"}
  /\ pc \in [Goroutine -> {"idle", "lock", "locked", "running", "ciphers", "peer",
                           "publish", "use", "alert", "close raw"}]
  /\ verdicts \subseteq {"ok", "err"}
  /\ runs \in Nat

\* The protocol is run at most once on a connection, however many goroutines arrive
\* together and whatever its outcome.
RunsOnce == runs <= 1

\* Nobody is ever told that the handshake succeeded if anybody is told it failed.
OneVerdict == verdicts # {"ok", "err"}

\* Read, Write and Close reach a cipher, and PeerEvidence the peer's evidence, only
\* when the handshake has installed all of them.
CiphersInstalled ==
  \A g \in Goroutine : pc[g] \in {"use", "alert"} => inCipher /\ outCipher /\ peerInfo

\* README.md:251: a handshake deadline is always cleared before application data
\* flows.
HandshakeDeadlineCleared ==
  \A g \in Goroutine : pc[g] = "use" => deadline # "handshake"

\* Every caller gets an answer.
CallsReturn == \A g \in Goroutine : pc[g] # "idle" ~> pc[g] = "idle"
=============================================================================
