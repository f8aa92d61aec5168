------------------------------ MODULE Provider ------------------------------
(***************************************************************************)
(* The two EvidenceProviders of provider.go, shared by any number of       *)
(* goroutines: the mock with the authority it may have to create first,    *)
(* and the Hygon one over pkg/csvattest, whose calls map a page, open the  *)
(* device, have the driver fill the page, and check the answer.            *)
(*                                                                         *)
(* A report is the call it answers, its user data, and the sealing key the *)
(* driver puts into Reserved2.  A nonce names the call that drew it; the   *)
(* mock's reports carry a fixed one, None here.                            *)
(***************************************************************************)
EXTENDS Naturals

CONSTANTS
  Goroutine,
  Digest,         \* public key digests
  None,
  MaxCalls        \* bound: calls per goroutine

ASSUME ProviderAssumption ==
  /\ None \notin Goroutine
  /\ Digest \cap {"unset", "short", "error"} = {}
  /\ MaxCalls \in Nat

VARIABLES
  kind,           \* "mock" or "hygon"
  env,            \* ATTESTATION_USERDATA: "unset", "invalid" or "set"
  hrkPath,        \* HRKCertPath is set
  initErr,        \* mock: construction failed
  authority,      \* mock: the number of the authority, 0 for nil
  HRKCert,        \* mock: the authority whose HRK certificate is published, 0 for none
  made,           \* mock: authorities created so far
  mu,             \* mock: holder of m.mu
  answers,        \* hygon: reports the driver has produced
  pc, op, calls,
  handle,         \* mock: the authority attestationAuthority returned
  clientUserData, \* the Client's UserData: a digest, "short" or "unset"
  page,           \* the mapped page: the user data and nonce in it, or a report
  device,         \* the device is open
  report,         \* the heap copy of the report, None when there is none or it is cleared
  result          \* what the last call returned

mockVars == <<initErr, authority, HRKCert, made, mu>>
callVars == <<pc, op, calls, handle, clientUserData, page, device, report, result>>
vars == <<kind, env, hrkPath, mockVars, answers, callVars>>

\* A provider is constructed, constructed in vain, or used as its zero value.
Init ==
  /\ kind \in {"mock", "hygon"}
  /\ env \in IF kind = "hygon" THEN {"unset", "invalid", "set"} ELSE {"unset"}
  /\ hrkPath \in IF kind = "hygon" THEN BOOLEAN ELSE {FALSE}
  /\ \/ kind = "mock" /\ initErr = FALSE /\ authority = 1 /\ HRKCert = 1 /\ made = 1
     \/ kind = "mock" /\ initErr = TRUE /\ authority = 0 /\ HRKCert = 0 /\ made = 0
     \/ initErr = FALSE /\ authority = 0 /\ HRKCert = 0 /\ made = 0
  /\ mu = None /\ answers = {}
  /\ pc = [g \in Goroutine |-> "idle"] /\ op = [g \in Goroutine |-> "none"]
  /\ calls = [g \in Goroutine |-> 0] /\ handle = [g \in Goroutine |-> 0]
  /\ clientUserData = [g \in Goroutine |-> "unset"]
  /\ page = [g \in Goroutine |-> None] /\ device = [g \in Goroutine |-> FALSE]
  /\ report = [g \in Goroutine |-> None] /\ result = [g \in Goroutine |-> None]

Set(f, x, v) == [f EXCEPT ![x] = v]
Goto(g, l) == pc' = Set(pc, g, l)
Nonce(g) == <<g, calls[g]>>
Fields(u, n, k, h) == [userData |-> u, nonce |-> n, reserved2 |-> k, hrk |-> h]

\* The call returns r; the deferred calls close the device and unmap the page.
Return(g, r) ==
  /\ Goto(g, "idle")
  /\ result' = Set(result, g, r)
  /\ page' = Set(page, g, None)
  /\ device' = Set(device, g, FALSE)

Error == [err |-> "error"]
OK(f) == [err |-> "nil", val |-> f]

-----------------------------------------------------------------------------
(* MockEvidenceProvider *)

MockUnchanged == UNCHANGED <<kind, env, hrkPath, answers, op, calls, clientUserData, report>>

\* attestationAuthority locks m.mu and returns the construction error, or the
\* authority there is; if there is none it goes on to create one.
MockAuthorityUnlocked(g) ==
  /\ kind = "mock" /\ pc[g] = "authority"
  /\ \/ initErr /\ Return(g, Error) /\ UNCHANGED handle
     \/ /\ ~initErr
        /\ handle' = Set(handle, g, authority)
        /\ Goto(g, IF authority # 0 THEN "generate" ELSE "create")
        /\ UNCHANGED <<page, device, result>>
  /\ UNCHANGED mockVars /\ MockUnchanged

MockAuthority(g) ==
  /\ kind = "mock" /\ pc[g] = "authority" /\ mu = None
  /\ \/ initErr /\ Return(g, Error) /\ UNCHANGED <<mu, handle>>
     \/ /\ ~initErr /\ authority # 0
        /\ handle' = Set(handle, g, authority)
        /\ Goto(g, "generate") /\ UNCHANGED <<mu, page, device, result>>
     \/ /\ ~initErr /\ authority = 0
        /\ mu' = g
        /\ Goto(g, "create") /\ UNCHANGED <<handle, page, device, result>>
  /\ UNCHANGED <<initErr, authority, HRKCert, made>> /\ MockUnchanged

\* NewMockAttestationAuthority, which may fail.
MockCreate(g) ==
  /\ kind = "mock" /\ pc[g] = "create"
  /\ \/ Return(g, Error) /\ mu' = None /\ UNCHANGED <<authority, made, handle>>
     \/ /\ authority' = made + 1 /\ made' = made + 1
        /\ handle' = Set(handle, g, made + 1)
        /\ Goto(g, "publish") /\ UNCHANGED <<mu, page, device, result>>
  /\ UNCHANGED <<initErr, HRKCert>> /\ MockUnchanged

\* m.HRKCert and m.HSKCekCert are set, and m.mu is unlocked.
MockPublish(g) ==
  /\ kind = "mock" /\ pc[g] = "publish"
  /\ HRKCert' = authority
  /\ mu' = None
  /\ Goto(g, "generate")
  /\ UNCHANGED <<initErr, authority, made, handle, page, device, result>> /\ MockUnchanged

\* Generate signs a report over the caller's digest, or its signature fails.
MockGenerate(g) ==
  /\ kind = "mock" /\ pc[g] = "generate"
  /\ \/ Return(g, Error)
     \/ Return(g, OK(Fields(clientUserData[g], None, "zero", handle[g])))
  /\ UNCHANGED <<mockVars, handle>> /\ MockUnchanged

\* TrustedHRKCert takes no lock.  Its read races with MockPublish's write of a slice:
\* it sees the old value, the new one, or parts of both, and then the copy panics.
MockTrustedHRKCert(g) ==
  /\ kind = "mock" /\ pc[g] = "anchor"
  /\ \/ Return(g, OK(Fields(None, None, "zero", HRKCert)))
     \/ /\ \E h \in Goroutine : pc[h] = "publish"
        /\ \/ Return(g, OK(Fields(None, None, "zero", authority)))
           \/ Return(g, Error)
  /\ UNCHANGED <<mockVars, handle>> /\ MockUnchanged

-----------------------------------------------------------------------------
(* HygonHardwareProvider and csvattest.Client *)

HygonUnchanged == UNCHANGED <<kind, env, hrkPath, mockVars, handle, op, calls, clientUserData>>

\* ATTESTATION_USERDATA, or the default text.
EnvUserData ==
  CASE env = "set" -> "env" [] env = "invalid" -> "error" [] env = "unset" -> "default"

\* Client.userData: the client's own, which must be whole, or else the environment's.
userData(d) ==
  IF d = "unset" THEN EnvUserData ELSE IF d = "short" THEN "error" ELSE d

\* fetchReportIOCTL maps the page and fills in user data, nonce and their hash.
MapPage(g) ==
  LET u == userData(clientUserData[g])
  IN  /\ kind = "hygon" /\ pc[g] = "fetch"
      /\ \/ Return(g, Error)
         \/ /\ u # "error"
            /\ page' = Set(page, g, Fields(u, None, "zero", 0))
            /\ Goto(g, "open") /\ UNCHANGED <<device, result>>
      /\ UNCHANGED <<answers, report>> /\ HygonUnchanged

OpenDeviceKeepsPage(g) ==
  /\ kind = "hygon" /\ pc[g] = "open"
  /\ \/ Goto(g, "idle") /\ result' = Set(result, g, Error) /\ UNCHANGED <<page, device>>
     \/ device' = Set(device, g, TRUE) /\ Goto(g, "ioctl") /\ UNCHANGED <<page, result>>
  /\ UNCHANGED <<answers, report>> /\ HygonUnchanged

OpenDevice(g) ==
  /\ kind = "hygon" /\ pc[g] = "open"
  /\ \/ Return(g, Error)
     \/ device' = Set(device, g, TRUE) /\ Goto(g, "ioctl") /\ UNCHANGED <<page, result>>
  /\ UNCHANGED <<answers, report>> /\ HygonUnchanged

\* The driver fails, answers, leaves the page as it is, or delivers an answer late, to
\* a call that did not ask for it.
Ioctl(g) ==
  LET r == Fields(page[g].userData, Nonce(g), "key", 0)
  IN  /\ kind = "hygon" /\ pc[g] = "ioctl"
      /\ \/ Return(g, Error) /\ UNCHANGED answers
         \/ /\ \E a \in answers \cup {r, page[g]} : page' = Set(page, g, a)
            /\ answers' = answers \cup {r}
            /\ Goto(g, "check") /\ UNCHANGED <<device, result>>
      /\ UNCHANGED report /\ HygonUnchanged

\* VerifySessionMAC and VerifyMNonce: the answer is made with this call's nonce.
AnswersAny(r, g) == r.nonce # None
Answers(r, g) == r.nonce = Nonce(g)

\* The page is copied and checked; device and page are given back either way.  A
\* report that fails its checks is dropped as it is.
CheckReport(g) ==
  /\ kind = "hygon" /\ pc[g] = "check"
  /\ report' = Set(report, g, page[g])
  /\ \/ ~Answers(page[g], g) /\ Return(g, Error)
     \/ /\ Answers(page[g], g)
        /\ page' = Set(page, g, None) /\ device' = Set(device, g, FALSE)
        /\ Goto(g, IF op[g] = "sealing" THEN "extract" ELSE "zero")
        /\ UNCHANGED result
  /\ UNCHANGED answers /\ HygonUnchanged

\* GetSealingKeyIOCTL: the key goes to keyBuf, report and key are cleared.
ExtractSealingKey(g) ==
  /\ kind = "hygon" /\ pc[g] = "extract"
  /\ Return(g, OK(Fields(report[g].userData, report[g].nonce, "key", 0)))
  /\ report' = Set(report, g, None)
  /\ UNCHANGED answers /\ HygonUnchanged

ZeroNothing(r) == r
\* zeroReserved2
ZeroReserved2(r) == Fields(r.userData, r.nonce, "zero", r.hrk)

\* GetAttestationReportIOCTL zeroes Reserved2 before the report is copied out.
ZeroReport(g) ==
  /\ kind = "hygon" /\ pc[g] = "zero"
  /\ report' = Set(report, g, ZeroReserved2(report[g]))
  /\ Goto(g, "files")
  /\ UNCHANGED <<answers, page, device, result>> /\ HygonUnchanged

\* GetEvidence reads the certificate files it was given, each of which may be missing
\* or short, the HSK/CEK file also where no HRKCertPath is set.  GetMeasurementHex goes
\* on to parse the report; its errors become "".
ReadCertFiles(g) ==
  /\ kind = "hygon" /\ pc[g] = "files"
  /\ \/ Return(g, Error)
     \/ Return(g, OK(Fields(report[g].userData, report[g].nonce, report[g].reserved2,
                            IF hrkPath THEN 1 ELSE 0)))
  /\ UNCHANGED <<answers, report>> /\ HygonUnchanged

\* TrustedHRKCert: the file's certificate, or nil whatever goes wrong.
TrustedHRKCert(g) ==
  /\ kind = "hygon" /\ pc[g] = "anchor"
  /\ \E h \in {0} \cup (IF hrkPath THEN {1} ELSE {}) :
       Return(g, OK(Fields(None, None, "zero", h)))
  /\ UNCHANGED <<answers, report>> /\ HygonUnchanged

-----------------------------------------------------------------------------
Ops == IF kind = "mock" THEN {"evidence", "anchor"}
                        ELSE {"evidence", "measurement", "sealing", "anchor"}

\* GetEvidence and GetMeasurementHex make a client with 64 bytes of user data; the
\* client of GetSealingKeyIOCTL is the caller's.
UserDataFor(o) ==
  CASE o = "evidence" -> Digest
    [] o = "measurement" -> {"dummy"}
    [] o = "sealing" -> {"unset", "short"}
    [] OTHER -> {"unset"}

FirstStep(o) ==
  IF o = "anchor" THEN "anchor" ELSE IF kind = "mock" THEN "authority" ELSE "fetch"

\* A call begins with a nonce of its own.  It ends at once if its context is done, a
\* buffer is short or rand.Reader fails.
Call(g) ==
  /\ pc[g] = "idle" /\ calls[g] < MaxCalls
  /\ calls' = Set(calls, g, calls[g] + 1)
  /\ report' = Set(report, g, None)
  /\ \E o \in Ops : \E u \in UserDataFor(o) :
       /\ op' = Set(op, g, o)
       /\ clientUserData' = Set(clientUserData, g, u)
       /\ \/ Goto(g, FirstStep(o)) /\ result' = Set(result, g, None)
          \/ o # "anchor" /\ result' = Set(result, g, Error) /\ UNCHANGED pc
  /\ UNCHANGED <<kind, env, hrkPath, mockVars, handle, answers, page, device>>

Step(g) ==
  \/ MockAuthority(g) \/ MockCreate(g) \/ MockPublish(g) \/ MockGenerate(g)
  \/ MockTrustedHRKCert(g)
  \/ MapPage(g) \/ OpenDevice(g) \/ Ioctl(g) \/ CheckReport(g)
  \/ ExtractSealingKey(g) \/ ZeroReport(g) \/ ReadCertFiles(g) \/ TrustedHRKCert(g)

Next == \E g \in Goroutine : Call(g) \/ Step(g)

Spec == Init /\ [][Next]_vars

\* A call runs on, and sync.Mutex starves nobody; the driver answers or fails.
FairSpec ==
  Spec /\ \A g \in Goroutine : WF_vars(Step(g)) /\ SF_vars(MockAuthority(g))

-----------------------------------------------------------------------------
(* Properties *)

Succeeded(g, o) == pc[g] = "idle" /\ op[g] = o /\ result[g] # None /\ result[g].err = "nil"

\* Evidence is about the call that returns it: it carries the digest the caller asked
\* for, whatever the environment holds, and on hardware the driver made it for this very
\* call, so an answer to another call or an earlier one is never taken for it.
EvidenceBindsCall ==
  \A g \in Goroutine : Succeeded(g, "evidence") =>
    /\ result[g].val.userData = clientUserData[g]
    /\ kind = "hygon" => result[g].val.nonce = Nonce(g)

\* All evidence of a provider, and every anchor TrustedHRKCert returns, belong to one
\* root: callers that create the mock's authority together share a single one.
AnchorMatches ==
  \A g, h \in Goroutine :
    /\ Succeeded(g, "evidence") \/ Succeeded(g, "anchor")
    /\ Succeeded(h, "evidence") \/ Succeeded(h, "anchor")
    => result[g].val.hrk = result[h].val.hrk \/ 0 \in {result[g].val.hrk, result[h].val.hrk}

\* A call that succeeds leaves the sealing key nowhere but in the keyBuf of
\* GetSealingKeyIOCTL: not in evidence, not in a page, not in a buffer on the heap.
KeyCleared ==
  \A g \in Goroutine : pc[g] = "idle" /\ result[g] # None /\ result[g].err = "nil" =>
    /\ result[g].val.reserved2 = "key" => op[g] = "sealing"
    /\ page[g] # None => page[g].reserved2 = "zero"
    /\ report[g] # None => report[g].reserved2 = "zero"

\* Every call returns, and with it the page and the device are given back, whichever
\* of its steps fails.
CallsReturn ==
  \A g \in Goroutine : pc[g] # "idle" ~> pc[g] = "idle" /\ page[g] = None /\ ~device[g]
=============================================================================
