--------------------------- MODULE ProviderProofs ---------------------------
(***************************************************************************)
(* The safety of the evidence providers, for any number of goroutines and  *)
(* any digests: an inductive invariant, first the parts of it that do not  *)
(* depend on what a page or a report holds, then the others.               *)
(***************************************************************************)
EXTENDS Provider, TLAPS

\* The variables that are kept for each goroutine.
FunInv ==
  /\ DOMAIN pc = Goroutine /\ DOMAIN op = Goroutine /\ calls \in [Goroutine -> Nat]
  /\ DOMAIN handle = Goroutine /\ DOMAIN clientUserData = Goroutine
  /\ DOMAIN page = Goroutine /\ DOMAIN device = Goroutine
  /\ DOMAIN report = Goroutine /\ DOMAIN result = Goroutine

\* The mock has at most one authority, which only the holder of m.mu creates.
MockInv ==
  /\ made \in {0, 1} /\ authority = made /\ HRKCert \in {0, made}
  /\ \A g \in Goroutine :
       /\ pc[g] \in {"create", "publish"} => mu = g
       /\ pc[g] = "create" => made = 0
       /\ pc[g] = "publish" => made = 1 /\ handle[g] = 1
       /\ pc[g] = "generate" => handle[g] = 1

\* So no certificate of another one is ever returned.
AnchorInv ==
  \A g \in Goroutine :
    pc[g] = "idle" /\ result[g] # None /\ result[g].err = "nil" => result[g].val.hrk \in {0, 1}

\* The user data of a call for evidence is the caller's digest.
ClientInv ==
  \A g \in Goroutine : op[g] = "evidence" => clientUserData[g] \in Digest

\* Some steps are those of one operation only.
OpInv ==
  \A g \in Goroutine :
    /\ pc[g] = "anchor" => op[g] = "anchor"
    /\ pc[g] = "extract" => op[g] = "sealing"

\* Every answer has the nonce of a call that was made.
NonceInv ==
  \A r \in answers : \E h \in Goroutine : \E n \in 0 .. calls[h] : r.nonce = <<h, n>>

\* A nonce is in no answer before its call reaches the driver, and then in the one
\* about that call's user data.
Answered(g) ==
  \A r \in answers : r.nonce = Nonce(g) =>
    /\ pc[g] \notin {"fetch", "open", "ioctl"}
    /\ op[g] = "evidence" => r.userData = clientUserData[g]

\* A page is the caller's until the driver has filled it; then, and in the copy, a
\* report with the call's nonce has the call's user data.
Bound(g) ==
  op[g] = "evidence" =>
    /\ pc[g] \in {"open", "ioctl"} => page[g].userData = clientUserData[g]
    /\ pc[g] = "check" /\ page[g].nonce = Nonce(g) => page[g].userData = clientUserData[g]
    /\ pc[g] \in {"zero", "files"} =>
         report[g].nonce = Nonce(g) /\ report[g].userData = clientUserData[g]
    /\ pc[g] = "idle" /\ result[g] # None /\ result[g].err = "nil" =>
         /\ kind = "hygon" => result[g].val.nonce = Nonce(g)
         /\ result[g].val.userData = clientUserData[g]

\* Where a sealing key may be while a call runs.
Contained(g) ==
  /\ pc[g] \in {"authority", "create", "publish", "generate", "anchor", "fetch", "open",
                "ioctl", "check"} => report[g] = None
  /\ pc[g] = "files" => report[g].reserved2 = "zero"
  /\ pc[g] \in {"authority", "create", "publish", "generate", "anchor", "idle"}
       => page[g] = None
  /\ pc[g] = "idle" /\ result[g] # None /\ result[g].err = "nil" =>
       /\ result[g].val.reserved2 = "key" => op[g] = "sealing"
       /\ report[g] # None => report[g].reserved2 = "zero"

IInv ==
  /\ FunInv /\ MockInv /\ AnchorInv /\ ClientInv /\ OpInv /\ NonceInv
  /\ \A g \in Goroutine : Answered(g) /\ Bound(g) /\ Contained(g)

\* Where a call begins.
LEMMA FirstSteps ==
  ASSUME NEW o
  PROVE  /\ FirstStep(o) \in {"anchor", "authority", "fetch"}
         /\ FirstStep(o) = "anchor" => o = "anchor"
BY Zenon DEF FirstStep

\* A digest is used as it is, whatever the environment says.
LEMMA OwnUserData ==
  ASSUME NEW d \in Digest
  PROVE  userData(d) = d
<1>1. d # "unset" /\ d # "short"
  BY ProviderAssumption, Zenon
<1> QED BY <1>1, Zenon DEF userData

LEMMA InitInv == Init => IInv
<1> SUFFICES ASSUME Init PROVE IInv
  BY Zenon
<1> USE DEF Init
<1>1. FunInv
  BY Zenon DEF FunInv
<1>2. MockInv
  BY Zenon DEF MockInv
<1>3. AnchorInv /\ ClientInv /\ OpInv /\ NonceInv
  BY Zenon DEF AnchorInv, ClientInv, OpInv, NonceInv
<1>4. ASSUME NEW g \in Goroutine
      PROVE  Answered(g) /\ Bound(g) /\ Contained(g)
  BY <1>4, Zenon DEF Answered, Bound, Contained
<1> QED BY <1>1, <1>2, <1>3, <1>4, Zenon DEF IInv

\* Every step keeps the variables' domains.
LEMMA FunStep == FunInv /\ [Next]_vars => FunInv'
<1> SUFFICES ASSUME FunInv, [Next]_vars PROVE FunInv'
  BY Zenon
<1> USE ProviderAssumption DEF Set, Goto, Return, FunInv
<1>1. ASSUME NEW g \in Goroutine, Call(g)
     PROVE  FunInv'
  BY <1>1 DEF Call, mockVars
<1>2. ASSUME NEW g \in Goroutine, MockAuthority(g)
     PROVE  FunInv'
  BY <1>2, Zenon DEF MockAuthority, MockUnchanged, mockVars
<1>3. ASSUME NEW g \in Goroutine, MockCreate(g)
     PROVE  FunInv'
  BY <1>3, Zenon DEF MockCreate, MockUnchanged, mockVars
<1>4. ASSUME NEW g \in Goroutine, MockPublish(g)
     PROVE  FunInv'
  BY <1>4, Zenon DEF MockPublish, MockUnchanged, mockVars
<1>5. ASSUME NEW g \in Goroutine, MockGenerate(g)
     PROVE  FunInv'
  BY <1>5, Zenon DEF MockGenerate, MockUnchanged, mockVars
<1>6. ASSUME NEW g \in Goroutine, MockTrustedHRKCert(g)
     PROVE  FunInv'
  BY <1>6, Zenon DEF MockTrustedHRKCert, MockUnchanged, mockVars
<1>7. ASSUME NEW g \in Goroutine, MapPage(g)
     PROVE  FunInv'
  BY <1>7, Zenon DEF MapPage, HygonUnchanged, mockVars
<1>8. ASSUME NEW g \in Goroutine, OpenDevice(g)
     PROVE  FunInv'
  BY <1>8, Zenon DEF OpenDevice, HygonUnchanged, mockVars
<1>9. ASSUME NEW g \in Goroutine, Ioctl(g)
     PROVE  FunInv'
  BY <1>9, Zenon DEF Ioctl, HygonUnchanged, mockVars
<1>10. ASSUME NEW g \in Goroutine, CheckReport(g)
      PROVE  FunInv'
  BY <1>10, Zenon DEF CheckReport, HygonUnchanged, mockVars
<1>11. ASSUME NEW g \in Goroutine, ExtractSealingKey(g)
      PROVE  FunInv'
  BY <1>11, Zenon DEF ExtractSealingKey, HygonUnchanged, mockVars
<1>12. ASSUME NEW g \in Goroutine, ZeroReport(g)
      PROVE  FunInv'
  BY <1>12, Zenon DEF ZeroReport, HygonUnchanged, mockVars
<1>13. ASSUME NEW g \in Goroutine, ReadCertFiles(g)
      PROVE  FunInv'
  BY <1>13, Zenon DEF ReadCertFiles, HygonUnchanged, mockVars
<1>14. ASSUME NEW g \in Goroutine, TrustedHRKCert(g)
      PROVE  FunInv'
  BY <1>14, Zenon DEF TrustedHRKCert, HygonUnchanged, mockVars
<1>15. CASE UNCHANGED vars
  BY <1>15, Zenon DEF vars, mockVars, callVars
<1> QED
  BY <1>1, <1>2, <1>3, <1>4, <1>5, <1>6, <1>7, <1>8, <1>9, <1>10, <1>11, <1>12,
     <1>13, <1>14, <1>15
 , Zenon DEF Next, Step

\* Nobody else creates an authority while one is being created.
LEMMA MockStep == FunInv /\ MockInv /\ [Next]_vars => MockInv'
<1> SUFFICES ASSUME FunInv, MockInv, [Next]_vars PROVE MockInv'
  BY Zenon
<1> USE ProviderAssumption DEF Set, Goto, Return, FunInv, MockInv
<1>1. ASSUME NEW g \in Goroutine, Call(g)
     PROVE  MockInv'
  BY <1>1, FirstSteps DEF Call, mockVars
<1>2. ASSUME NEW g \in Goroutine, MockAuthority(g)
     PROVE  MockInv'
  BY <1>2 DEF MockAuthority, MockUnchanged, mockVars
<1>3. ASSUME NEW g \in Goroutine, MockCreate(g)
     PROVE  MockInv'
  BY <1>3 DEF MockCreate, MockUnchanged, mockVars
<1>4. ASSUME NEW g \in Goroutine, MockPublish(g)
     PROVE  MockInv'
  BY <1>4, Zenon DEF MockPublish, MockUnchanged, mockVars
<1>5. ASSUME NEW g \in Goroutine, MockGenerate(g)
     PROVE  MockInv'
  BY <1>5, Zenon DEF MockGenerate, MockUnchanged, mockVars
<1>6. ASSUME NEW g \in Goroutine, MockTrustedHRKCert(g)
     PROVE  MockInv'
  BY <1>6, Zenon DEF MockTrustedHRKCert, MockUnchanged, mockVars
<1>7. ASSUME NEW g \in Goroutine, MapPage(g)
     PROVE  MockInv'
  BY <1>7, Zenon DEF MapPage, HygonUnchanged, mockVars
<1>8. ASSUME NEW g \in Goroutine, OpenDevice(g)
     PROVE  MockInv'
  BY <1>8, Zenon DEF OpenDevice, HygonUnchanged, mockVars
<1>9. ASSUME NEW g \in Goroutine, Ioctl(g)
     PROVE  MockInv'
  BY <1>9, Zenon DEF Ioctl, HygonUnchanged, mockVars
<1>10. ASSUME NEW g \in Goroutine, CheckReport(g)
      PROVE  MockInv'
  BY <1>10, Zenon DEF CheckReport, HygonUnchanged, mockVars
<1>11. ASSUME NEW g \in Goroutine, ExtractSealingKey(g)
      PROVE  MockInv'
  BY <1>11, Zenon DEF ExtractSealingKey, HygonUnchanged, mockVars
<1>12. ASSUME NEW g \in Goroutine, ZeroReport(g)
      PROVE  MockInv'
  BY <1>12, Zenon DEF ZeroReport, HygonUnchanged, mockVars
<1>13. ASSUME NEW g \in Goroutine, ReadCertFiles(g)
      PROVE  MockInv'
  BY <1>13, Zenon DEF ReadCertFiles, HygonUnchanged, mockVars
<1>14. ASSUME NEW g \in Goroutine, TrustedHRKCert(g)
      PROVE  MockInv'
  BY <1>14, Zenon DEF TrustedHRKCert, HygonUnchanged, mockVars
<1>15. CASE UNCHANGED vars
  BY <1>15, Zenon DEF vars, mockVars, callVars
<1> QED
  BY <1>1, <1>2, <1>3, <1>4, <1>5, <1>6, <1>7, <1>8, <1>9, <1>10, <1>11, <1>12,
     <1>13, <1>14, <1>15
 , Zenon DEF Next, Step

\* Every certificate returned is the authority's.
LEMMA AnchorStep == FunInv /\ MockInv /\ AnchorInv /\ [Next]_vars => AnchorInv'
<1> SUFFICES ASSUME FunInv, MockInv, AnchorInv, [Next]_vars PROVE AnchorInv'
  BY Zenon
<1> USE ProviderAssumption DEF Set, Goto, Return, FunInv, MockInv, AnchorInv, OK, Error, Fields
<1>1. ASSUME NEW g \in Goroutine, Call(g)
     PROVE  AnchorInv'
  BY <1>1 DEF Call, mockVars
<1>2. ASSUME NEW g \in Goroutine, MockAuthority(g)
     PROVE  AnchorInv'
  BY <1>2 DEF MockAuthority, MockUnchanged, mockVars
<1>3. ASSUME NEW g \in Goroutine, MockCreate(g)
     PROVE  AnchorInv'
  BY <1>3 DEF MockCreate, MockUnchanged, mockVars
<1>4. ASSUME NEW g \in Goroutine, MockPublish(g)
     PROVE  AnchorInv'
  BY <1>4, Zenon DEF MockPublish, MockUnchanged, mockVars
<1>5. ASSUME NEW g \in Goroutine, MockGenerate(g)
     PROVE  AnchorInv'
  BY <1>5 DEF MockGenerate, MockUnchanged, mockVars
<1>6. ASSUME NEW g \in Goroutine, MockTrustedHRKCert(g)
     PROVE  AnchorInv'
  BY <1>6 DEF MockTrustedHRKCert, MockUnchanged, mockVars
<1>7. ASSUME NEW g \in Goroutine, MapPage(g)
     PROVE  AnchorInv'
  BY <1>7 DEF MapPage, HygonUnchanged, mockVars
<1>8. ASSUME NEW g \in Goroutine, OpenDevice(g)
     PROVE  AnchorInv'
  BY <1>8 DEF OpenDevice, HygonUnchanged, mockVars
<1>9. ASSUME NEW g \in Goroutine, Ioctl(g)
     PROVE  AnchorInv'
  BY <1>9 DEF Ioctl, HygonUnchanged, mockVars
<1>10. ASSUME NEW g \in Goroutine, CheckReport(g)
      PROVE  AnchorInv'
  BY <1>10 DEF CheckReport, HygonUnchanged, mockVars
<1>11. ASSUME NEW g \in Goroutine, ExtractSealingKey(g)
      PROVE  AnchorInv'
  BY <1>11, Zenon DEF ExtractSealingKey, HygonUnchanged, mockVars
<1>12. ASSUME NEW g \in Goroutine, ZeroReport(g)
      PROVE  AnchorInv'
  BY <1>12, Zenon DEF ZeroReport, HygonUnchanged, mockVars
<1>13. ASSUME NEW g \in Goroutine, ReadCertFiles(g)
      PROVE  AnchorInv'
  BY <1>13 DEF ReadCertFiles, HygonUnchanged, mockVars
<1>14. ASSUME NEW g \in Goroutine, TrustedHRKCert(g)
      PROVE  AnchorInv'
  BY <1>14 DEF TrustedHRKCert, HygonUnchanged, mockVars
<1>15. CASE UNCHANGED vars
  BY <1>15, Zenon DEF vars, mockVars, callVars
<1> QED
  BY <1>1, <1>2, <1>3, <1>4, <1>5, <1>6, <1>7, <1>8, <1>9, <1>10, <1>11, <1>12,
     <1>13, <1>14, <1>15
 , Zenon DEF Next, Step

\* A call keeps its user data.
LEMMA ClientStep == FunInv /\ ClientInv /\ [Next]_vars => ClientInv'
<1> SUFFICES ASSUME FunInv, ClientInv, [Next]_vars PROVE ClientInv'
  BY Zenon
<1> USE ProviderAssumption DEF Set, Goto, Return, FunInv, ClientInv, UserDataFor
<1>1. ASSUME NEW g \in Goroutine, Call(g)
     PROVE  ClientInv'
  BY <1>1, Zenon DEF Call, mockVars
<1>2. ASSUME NEW g \in Goroutine, MockAuthority(g)
     PROVE  ClientInv'
  BY <1>2, Zenon DEF MockAuthority, MockUnchanged, mockVars
<1>3. ASSUME NEW g \in Goroutine, MockCreate(g)
     PROVE  ClientInv'
  BY <1>3, Zenon DEF MockCreate, MockUnchanged, mockVars
<1>4. ASSUME NEW g \in Goroutine, MockPublish(g)
     PROVE  ClientInv'
  BY <1>4, Zenon DEF MockPublish, MockUnchanged, mockVars
<1>5. ASSUME NEW g \in Goroutine, MockGenerate(g)
     PROVE  ClientInv'
  BY <1>5, Zenon DEF MockGenerate, MockUnchanged, mockVars
<1>6. ASSUME NEW g \in Goroutine, MockTrustedHRKCert(g)
     PROVE  ClientInv'
  BY <1>6, Zenon DEF MockTrustedHRKCert, MockUnchanged, mockVars
<1>7. ASSUME NEW g \in Goroutine, MapPage(g)
     PROVE  ClientInv'
  BY <1>7, Zenon DEF MapPage, HygonUnchanged, mockVars
<1>8. ASSUME NEW g \in Goroutine, OpenDevice(g)
     PROVE  ClientInv'
  BY <1>8, Zenon DEF OpenDevice, HygonUnchanged, mockVars
<1>9. ASSUME NEW g \in Goroutine, Ioctl(g)
     PROVE  ClientInv'
  BY <1>9, Zenon DEF Ioctl, HygonUnchanged, mockVars
<1>10. ASSUME NEW g \in Goroutine, CheckReport(g)
      PROVE  ClientInv'
  BY <1>10, Zenon DEF CheckReport, HygonUnchanged, mockVars
<1>11. ASSUME NEW g \in Goroutine, ExtractSealingKey(g)
      PROVE  ClientInv'
  BY <1>11, Zenon DEF ExtractSealingKey, HygonUnchanged, mockVars
<1>12. ASSUME NEW g \in Goroutine, ZeroReport(g)
      PROVE  ClientInv'
  BY <1>12, Zenon DEF ZeroReport, HygonUnchanged, mockVars
<1>13. ASSUME NEW g \in Goroutine, ReadCertFiles(g)
      PROVE  ClientInv'
  BY <1>13, Zenon DEF ReadCertFiles, HygonUnchanged, mockVars
<1>14. ASSUME NEW g \in Goroutine, TrustedHRKCert(g)
      PROVE  ClientInv'
  BY <1>14, Zenon DEF TrustedHRKCert, HygonUnchanged, mockVars
<1>15. CASE UNCHANGED vars
  BY <1>15, Zenon DEF vars, mockVars, callVars
<1> QED
  BY <1>1, <1>2, <1>3, <1>4, <1>5, <1>6, <1>7, <1>8, <1>9, <1>10, <1>11, <1>12,
     <1>13, <1>14, <1>15
 , Zenon DEF Next, Step

\* The last steps belong to their operation.
LEMMA OpStep == FunInv /\ OpInv /\ [Next]_vars => OpInv'
<1> SUFFICES ASSUME FunInv, OpInv, [Next]_vars PROVE OpInv'
  BY Zenon
<1> USE ProviderAssumption DEF Set, Goto, Return, FunInv, OpInv
<1>1. ASSUME NEW g \in Goroutine, Call(g)
     PROVE  OpInv'
  BY <1>1, FirstSteps DEF Call, mockVars
<1>2. ASSUME NEW g \in Goroutine, MockAuthority(g)
     PROVE  OpInv'
  BY <1>2, Zenon DEF MockAuthority, MockUnchanged, mockVars
<1>3. ASSUME NEW g \in Goroutine, MockCreate(g)
     PROVE  OpInv'
  BY <1>3, Zenon DEF MockCreate, MockUnchanged, mockVars
<1>4. ASSUME NEW g \in Goroutine, MockPublish(g)
     PROVE  OpInv'
  BY <1>4, Zenon DEF MockPublish, MockUnchanged, mockVars
<1>5. ASSUME NEW g \in Goroutine, MockGenerate(g)
     PROVE  OpInv'
  BY <1>5, Zenon DEF MockGenerate, MockUnchanged, mockVars
<1>6. ASSUME NEW g \in Goroutine, MockTrustedHRKCert(g)
     PROVE  OpInv'
  BY <1>6, Zenon DEF MockTrustedHRKCert, MockUnchanged, mockVars
<1>7. ASSUME NEW g \in Goroutine, MapPage(g)
     PROVE  OpInv'
  BY <1>7, Zenon DEF MapPage, HygonUnchanged, mockVars
<1>8. ASSUME NEW g \in Goroutine, OpenDevice(g)
     PROVE  OpInv'
  BY <1>8, Zenon DEF OpenDevice, HygonUnchanged, mockVars
<1>9. ASSUME NEW g \in Goroutine, Ioctl(g)
     PROVE  OpInv'
  BY <1>9, Zenon DEF Ioctl, HygonUnchanged, mockVars
<1>10. ASSUME NEW g \in Goroutine, CheckReport(g)
      PROVE  OpInv'
  BY <1>10, Zenon DEF CheckReport, HygonUnchanged, mockVars
<1>11. ASSUME NEW g \in Goroutine, ExtractSealingKey(g)
      PROVE  OpInv'
  BY <1>11, Zenon DEF ExtractSealingKey, HygonUnchanged, mockVars
<1>12. ASSUME NEW g \in Goroutine, ZeroReport(g)
      PROVE  OpInv'
  BY <1>12, Zenon DEF ZeroReport, HygonUnchanged, mockVars
<1>13. ASSUME NEW g \in Goroutine, ReadCertFiles(g)
      PROVE  OpInv'
  BY <1>13, Zenon DEF ReadCertFiles, HygonUnchanged, mockVars
<1>14. ASSUME NEW g \in Goroutine, TrustedHRKCert(g)
      PROVE  OpInv'
  BY <1>14, Zenon DEF TrustedHRKCert, HygonUnchanged, mockVars
<1>15. CASE UNCHANGED vars
  BY <1>15, Zenon DEF vars, mockVars, callVars
<1> QED
  BY <1>1, <1>2, <1>3, <1>4, <1>5, <1>6, <1>7, <1>8, <1>9, <1>10, <1>11, <1>12,
     <1>13, <1>14, <1>15
 , Zenon DEF Next, Step

\* A goroutine's step changes nothing that is kept for another.
LEMMA OthersKept ==
  ASSUME FunInv, NEW g \in Goroutine, Call(g) \/ Step(g), NEW h \in Goroutine, h # g
  PROVE  /\ kind' = kind /\ pc'[h] = pc[h] /\ op'[h] = op[h] /\ calls'[h] = calls[h]
         /\ clientUserData'[h] = clientUserData[h] /\ page'[h] = page[h]
         /\ report'[h] = report[h] /\ result'[h] = result[h]
<1> USE DEF FunInv, Set, Goto, Return
<1>1. CASE Call(g)
  BY <1>1, Zenon DEF Call
<1>2. CASE MockAuthority(g)
  BY <1>2, Zenon DEF MockAuthority, MockUnchanged
<1>3. CASE MockCreate(g)
  BY <1>3, Zenon DEF MockCreate, MockUnchanged
<1>4. CASE MockPublish(g)
  BY <1>4, Zenon DEF MockPublish, MockUnchanged
<1>5. CASE MockGenerate(g)
  BY <1>5, Zenon DEF MockGenerate, MockUnchanged
<1>6. CASE MockTrustedHRKCert(g)
  BY <1>6, Zenon DEF MockTrustedHRKCert, MockUnchanged
<1>7. CASE MapPage(g)
  BY <1>7, Zenon DEF MapPage, HygonUnchanged
<1>8. CASE OpenDevice(g)
  BY <1>8, Zenon DEF OpenDevice, HygonUnchanged
<1>9. CASE Ioctl(g)
  BY <1>9, Zenon DEF Ioctl, HygonUnchanged
<1>10. CASE CheckReport(g)
  BY <1>10, Zenon DEF CheckReport, HygonUnchanged
<1>11. CASE ExtractSealingKey(g)
  BY <1>11, Zenon DEF ExtractSealingKey, HygonUnchanged
<1>12. CASE ZeroReport(g)
  BY <1>12, Zenon DEF ZeroReport, HygonUnchanged
<1>13. CASE ReadCertFiles(g)
  BY <1>13, Zenon DEF ReadCertFiles, HygonUnchanged
<1>14. CASE TrustedHRKCert(g)
  BY <1>14, Zenon DEF TrustedHRKCert, HygonUnchanged
<1> QED
  BY <1>1, <1>2, <1>3, <1>4, <1>5, <1>6, <1>7, <1>8, <1>9, <1>10, <1>11, <1>12,
     <1>13, <1>14
 , Zenon DEF Step

\* Only the driver adds an answer, to the call it is working on.
LEMMA AnswersGrow ==
  ASSUME FunInv, NEW g \in Goroutine, Call(g) \/ Step(g)
  PROVE  /\ \A r \in answers' : r \in answers \/ r.nonce = Nonce(g)
         /\ calls'[g] \in {calls[g], calls[g] + 1}
<1> USE DEF FunInv, Set, Fields
<1>1. CASE Call(g)
  BY <1>1, Zenon DEF Call
<1>2. CASE MockAuthority(g)
  BY <1>2, Zenon DEF MockAuthority, MockUnchanged
<1>3. CASE MockCreate(g)
  BY <1>3, Zenon DEF MockCreate, MockUnchanged
<1>4. CASE MockPublish(g)
  BY <1>4, Zenon DEF MockPublish, MockUnchanged
<1>5. CASE MockGenerate(g)
  BY <1>5, Zenon DEF MockGenerate, MockUnchanged
<1>6. CASE MockTrustedHRKCert(g)
  BY <1>6, Zenon DEF MockTrustedHRKCert, MockUnchanged
<1>7. CASE MapPage(g)
  BY <1>7, Zenon DEF MapPage, HygonUnchanged
<1>8. CASE OpenDevice(g)
  BY <1>8, Zenon DEF OpenDevice, HygonUnchanged
<1>9. CASE Ioctl(g)
  BY <1>9 DEF Ioctl, HygonUnchanged
<1>10. CASE CheckReport(g)
  BY <1>10, Zenon DEF CheckReport, HygonUnchanged
<1>11. CASE ExtractSealingKey(g)
  BY <1>11, Zenon DEF ExtractSealingKey, HygonUnchanged
<1>12. CASE ZeroReport(g)
  BY <1>12, Zenon DEF ZeroReport, HygonUnchanged
<1>13. CASE ReadCertFiles(g)
  BY <1>13, Zenon DEF ReadCertFiles, HygonUnchanged
<1>14. CASE TrustedHRKCert(g)
  BY <1>14, Zenon DEF TrustedHRKCert, HygonUnchanged
<1> QED
  BY <1>1, <1>2, <1>3, <1>4, <1>5, <1>6, <1>7, <1>8, <1>9, <1>10, <1>11, <1>12,
     <1>13, <1>14
 , Zenon DEF Step

\* Calls are only ever counted up.
LEMMA NonceStep ==
  ASSUME IInv, NEW g \in Goroutine, Call(g) \/ Step(g)
  PROVE  NonceInv'
<1> SUFFICES ASSUME NEW r \in answers'
             PROVE  \E h \in Goroutine : \E n \in 0 .. calls'[h] : r.nonce = <<h, n>>
  BY Zenon DEF NonceInv
<1>1. calls \in [Goroutine -> Nat] /\ calls'[g] \in {calls[g], calls[g] + 1}
  BY AnswersGrow, Zenon DEF IInv, FunInv
<1>2. CASE r.nonce = Nonce(g)
  BY <1>1, <1>2 DEF Nonce
<1>3. CASE r \in answers
  <2>1. PICK h \in Goroutine : \E n \in 0 .. calls[h] : r.nonce = <<h, n>>
    BY <1>3, Zenon DEF IInv, NonceInv
  <2>2. 0 .. calls[h] \subseteq 0 .. calls'[h]
    BY <1>1, <2>1, OthersKept DEF IInv
  <2> QED BY <2>1, <2>2, Zenon
<1> QED BY <1>2, <1>3, AnswersGrow, Zenon DEF IInv

\* The next call's nonce is in no answer.
LEMMA FreshNonce ==
  ASSUME FunInv, NonceInv, NEW g \in Goroutine, NEW r \in answers
  PROVE  r.nonce # <<g, calls[g] + 1>>
<1>1. PICK h \in Goroutine : \E n \in 0 .. calls[h] : r.nonce = <<h, n>>
  BY Zenon DEF NonceInv
<1>2. PICK n \in 0 .. calls[h] : r.nonce = <<h, n>>
  BY <1>1, Zenon
<1>3. g = h => n # calls[g] + 1
  BY <1>2 DEF FunInv
<1> QED BY <1>2, <1>3

\* A call's nonce is new, and its answer is about its user data.
LEMMA AnsweredStep ==
  ASSUME FunInv, NonceInv, NEW g \in Goroutine, Answered(g), Bound(g), Call(g) \/ Step(g)
  PROVE  Answered(g)'
<1> USE DEF FunInv, Set, Goto, Return, Answered, Nonce
<1>1. CASE Call(g)
  <2>1. answers' = answers /\ calls'[g] = calls[g] + 1
    BY <1>1, Zenon DEF Call
  <2>2. \A r \in answers : r.nonce # Nonce(g)'
    BY <2>1, FreshNonce, Zenon
  <2> QED BY <2>1, <2>2, Zenon
<1>2. CASE MockAuthority(g)
  BY <1>2, ZenonT(30) DEF MockAuthority, MockUnchanged
<1>3. CASE MockCreate(g)
  BY <1>3, ZenonT(30) DEF MockCreate, MockUnchanged
<1>4. CASE MockPublish(g)
  BY <1>4, Zenon DEF MockPublish, MockUnchanged
<1>5. CASE MockGenerate(g)
  BY <1>5, ZenonT(30) DEF MockGenerate, MockUnchanged
<1>6. CASE MockTrustedHRKCert(g)
  BY <1>6, ZenonT(30) DEF MockTrustedHRKCert, MockUnchanged
<1>7. CASE MapPage(g)
  BY <1>7, Zenon DEF MapPage, HygonUnchanged
<1>8. CASE OpenDevice(g)
  BY <1>8, Zenon DEF OpenDevice, HygonUnchanged
<1>9. CASE Ioctl(g)
  <2>1. /\ pc'[g] \in {"idle", "check"} /\ pc[g] = "ioctl"
        /\ UNCHANGED <<op, calls, clientUserData>>
    BY <1>9, Zenon DEF Ioctl, HygonUnchanged
  <2>2. answers' \subseteq answers \cup {Fields(page[g].userData, Nonce(g), "key", 0)}
    BY <1>9, Zenon DEF Ioctl
  <2>3. op[g] = "evidence" => page[g].userData = clientUserData[g]
    BY <2>1, Zenon DEF Bound
  <2>4. \A r \in answers' : r \in answers \/ r.userData = page[g].userData
    BY <2>2 DEF Fields
  <2>5. \A r \in answers : r.nonce # Nonce(g)
    BY <2>1, Zenon
  <2> QED BY <2>1, <2>3, <2>4, <2>5, Zenon
<1>10. CASE CheckReport(g)
  BY <1>10, ZenonT(30) DEF CheckReport, HygonUnchanged
<1>11. CASE ExtractSealingKey(g)
  BY <1>11, Zenon DEF ExtractSealingKey, HygonUnchanged
<1>12. CASE ZeroReport(g)
  BY <1>12, Zenon DEF ZeroReport, HygonUnchanged
<1>13. CASE ReadCertFiles(g)
  BY <1>13, ZenonT(30) DEF ReadCertFiles, HygonUnchanged
<1>14. CASE TrustedHRKCert(g)
  BY <1>14, ZenonT(30) DEF TrustedHRKCert, HygonUnchanged
<1> QED
  BY <1>1, <1>2, <1>3, <1>4, <1>5, <1>6, <1>7, <1>8, <1>9, <1>10, <1>11, <1>12,
     <1>13, <1>14
 , Zenon DEF Step

\* What a Return leaves for its goroutine.
Returned(g, r) == pc'[g] = "idle" /\ page'[g] = None /\ result'[g] = r

\* A call that fails returns nothing that could be wrong.
LEMMA Failed ==
  ASSUME NEW g \in Goroutine, pc'[g] = "idle", page'[g] = None, result'[g] = Error
  PROVE  Bound(g)' /\ Contained(g)'
<1>1. result'[g].err # "nil"
  BY DEF Error
<1> QED BY <1>1, Zenon DEF Bound, Contained

\* Page, copy and result carry the call's user data, and the sealing key is cleared or
\* handed over.
LEMMA OwnStep ==
  ASSUME FunInv, ClientInv, OpInv, NEW g \in Goroutine, Answered(g), Bound(g), Contained(g),
         Call(g) \/ Step(g)
  PROVE  Bound(g)' /\ Contained(g)'
<1>0. /\ g \in DOMAIN pc /\ g \in DOMAIN op /\ g \in DOMAIN calls
      /\ g \in DOMAIN clientUserData /\ g \in DOMAIN page /\ g \in DOMAIN report
      /\ g \in DOMAIN result
  BY Zenon DEF FunInv
<1>1. CASE Call(g)
  <2>1. /\ pc[g] = "idle"
        /\ page'[g] = page[g]
        /\ report'[g] = None
    BY <1>1, <1>0, FirstSteps, Zenon DEF Call, Set, Goto, Return, Returned
  <2>2. \/ pc'[g] \in {"anchor", "authority", "fetch"}
        \/ result'[g] = Error /\ pc'[g] = "idle"
    BY <1>1, <1>0, FirstSteps, Zenon DEF Call, Set, Goto, Return, Returned
  <2>3. CASE pc'[g] \in {"anchor", "authority", "fetch"}
    <3>3. Bound(g)'
      BY <2>1, <2>3, Zenon DEF Returned, Bound, Nonce
    <3>4. Contained(g)'
      BY <2>1, <2>3, Zenon DEF Returned, Contained
    <3> QED BY <3>3, <3>4, Zenon
  <2>4. CASE result'[g] = Error /\ pc'[g] = "idle"
    BY <2>1, <2>4, Failed, Zenon DEF Contained
  <2> QED BY <2>2, <2>3, <2>4, Zenon
<1>2. CASE MockAuthority(g)
  <2>1. /\ pc[g] = "authority"
        /\ report'[g] = report[g]
        /\ kind' = kind
        /\ op'[g] = op[g]
        /\ calls'[g] = calls[g]
        /\ clientUserData'[g] = clientUserData[g]
    BY <1>2, <1>0, Zenon DEF MockAuthority, Set, Goto, Return, Returned, MockUnchanged
  <2>2. \/ Returned(g, Error)
        \/ pc'[g] \in {"generate", "create"} /\ page'[g] = page[g]
    BY <1>2, <1>0, Zenon DEF MockAuthority, Set, Goto, Return, Returned, MockUnchanged
  <2>3. CASE Returned(g, Error)
    BY <2>3, Failed, Zenon DEF Returned
  <2>4. CASE pc'[g] \in {"generate", "create"} /\ page'[g] = page[g]
    <3>3. Bound(g)'
      BY <2>1, <2>4, Zenon DEF Returned, Bound, Nonce
    <3>4. Contained(g)'
      BY <2>1, <2>4, Zenon DEF Returned, Contained
    <3> QED BY <3>3, <3>4, Zenon
  <2> QED BY <2>2, <2>3, <2>4, Zenon
<1>3. CASE MockCreate(g)
  <2>1. /\ pc[g] = "create"
        /\ report'[g] = report[g]
        /\ kind' = kind
        /\ op'[g] = op[g]
        /\ calls'[g] = calls[g]
        /\ clientUserData'[g] = clientUserData[g]
    BY <1>3, <1>0, Zenon DEF MockCreate, Set, Goto, Return, Returned, MockUnchanged
  <2>2. \/ Returned(g, Error)
        \/ pc'[g] = "publish" /\ page'[g] = page[g]
    BY <1>3, <1>0, Zenon DEF MockCreate, Set, Goto, Return, Returned, MockUnchanged
  <2>3. CASE Returned(g, Error)
    BY <2>3, Failed, Zenon DEF Returned
  <2>4. CASE pc'[g] = "publish" /\ page'[g] = page[g]
    <3>3. Bound(g)'
      BY <2>1, <2>4, Zenon DEF Returned, Bound, Nonce
    <3>4. Contained(g)'
      BY <2>1, <2>4, Zenon DEF Returned, Contained
    <3> QED BY <3>3, <3>4, Zenon
  <2> QED BY <2>2, <2>3, <2>4, Zenon
<1>4. CASE MockPublish(g)
  <2>1. /\ pc[g] = "publish"
        /\ report'[g] = report[g]
        /\ kind' = kind
        /\ op'[g] = op[g]
        /\ calls'[g] = calls[g]
        /\ clientUserData'[g] = clientUserData[g]
    BY <1>4, <1>0, Zenon DEF MockPublish, Set, Goto, Return, Returned, MockUnchanged
  <2>2. pc'[g] = "generate" /\ page'[g] = page[g]
    BY <1>4, <1>0, Zenon DEF MockPublish, Set, Goto, Return, Returned, MockUnchanged
  <2>3. CASE pc'[g] = "generate" /\ page'[g] = page[g]
    <3>3. Bound(g)'
      BY <2>1, <2>3, Zenon DEF Returned, Bound, Nonce
    <3>4. Contained(g)'
      BY <2>1, <2>3, Zenon DEF Returned, Contained
    <3> QED BY <3>3, <3>4, Zenon
  <2> QED BY <2>2, <2>3, Zenon
<1>5. CASE MockGenerate(g)
  <2>1. /\ kind = "mock"
        /\ pc[g] = "generate"
        /\ report'[g] = report[g]
        /\ kind' = kind
        /\ op'[g] = op[g]
        /\ calls'[g] = calls[g]
        /\ clientUserData'[g] = clientUserData[g]
    BY <1>5, <1>0, Zenon DEF MockGenerate, Set, Goto, Return, Returned, MockUnchanged
  <2>2. \/ Returned(g, Error)
        \/ Returned(g, OK(Fields(clientUserData[g], None, "zero", handle[g])))
    BY <1>5, <1>0, Zenon DEF MockGenerate, Set, Goto, Return, Returned, MockUnchanged
  <2>3. CASE Returned(g, Error)
    BY <2>3, Failed, Zenon DEF Returned
  <2>4. CASE Returned(g, OK(Fields(clientUserData[g], None, "zero", handle[g])))
    <3>1. /\ result'[g].val.userData = clientUserData[g] /\ result'[g].val.nonce = None
          /\ result'[g].val.reserved2 = "zero"
      BY <2>4 DEF Returned, OK, Fields
    <3>3. Bound(g)'
      BY <2>1, <2>4, <3>1, Zenon DEF Returned, Bound, Nonce
    <3>4. Contained(g)'
      BY <2>1, <2>4, <3>1, Zenon DEF Returned, Contained
    <3> QED BY <3>3, <3>4, Zenon
  <2> QED BY <2>2, <2>3, <2>4, Zenon
<1>6. CASE MockTrustedHRKCert(g)
  <2>1. /\ pc[g] = "anchor"
        /\ report'[g] = report[g]
        /\ kind' = kind
        /\ op'[g] = op[g]
        /\ calls'[g] = calls[g]
        /\ clientUserData'[g] = clientUserData[g]
    BY <1>6, <1>0, Zenon DEF MockTrustedHRKCert, Set, Goto, Return, Returned, MockUnchanged
  <2>2. \/ Returned(g, Error)
        \/ \E x : Returned(g, OK(Fields(None, None, "zero", x)))
    BY <1>6, <1>0, Zenon DEF MockTrustedHRKCert, Set, Goto, Return, Returned, MockUnchanged
  <2>3. CASE Returned(g, Error)
    BY <2>3, Failed, Zenon DEF Returned
  <2>4. ASSUME NEW x, Returned(g, OK(Fields(None, None, "zero", x)))
        PROVE  Bound(g)' /\ Contained(g)'
    <3>1. /\ result'[g].val.userData = None /\ result'[g].val.nonce = None
          /\ result'[g].val.reserved2 = "zero"
      BY <2>4 DEF Returned, OK, Fields
    <3>3. Bound(g)'
      BY <2>1, <2>4, <3>1, Zenon DEF Returned, Bound, Nonce, OpInv
    <3>4. Contained(g)'
      BY <2>1, <2>4, <3>1, Zenon DEF Returned, Contained, OpInv
    <3> QED BY <3>3, <3>4, Zenon
  <2> QED BY <2>2, <2>3, <2>4, Zenon
<1>7. CASE MapPage(g)
  <2>1. /\ pc[g] = "fetch"
        /\ report'[g] = report[g]
        /\ kind' = kind
        /\ op'[g] = op[g]
        /\ calls'[g] = calls[g]
        /\ clientUserData'[g] = clientUserData[g]
    BY <1>7, <1>0, Zenon DEF MapPage, Set, Goto, Return, Returned, HygonUnchanged
  <2>2. \/ Returned(g, Error)
        \/ pc'[g] = "open" /\ page'[g] = Fields(userData(clientUserData[g]), None, "zero", 0)
    BY <1>7, <1>0, Zenon DEF MapPage, Set, Goto, Return, Returned, HygonUnchanged
  <2>3. CASE Returned(g, Error)
    BY <2>3, Failed, Zenon DEF Returned
  <2>4. CASE pc'[g] = "open" /\ page'[g] = Fields(userData(clientUserData[g]), None, "zero", 0)
    <3>1. page'[g].userData = userData(clientUserData[g])
      BY <2>4 DEF Fields
    <3>2. op[g] = "evidence" => userData(clientUserData[g]) = clientUserData[g]
      BY OwnUserData, Zenon DEF ClientInv
    <3>3. Bound(g)'
      BY <2>1, <2>4, <3>1, <3>2, Zenon DEF Returned, Bound, Nonce
    <3>4. Contained(g)'
      BY <2>1, <2>4, <3>1, <3>2, Zenon DEF Returned, Contained
    <3> QED BY <3>3, <3>4, Zenon
  <2> QED BY <2>2, <2>3, <2>4, Zenon
<1>8. CASE OpenDevice(g)
  <2>1. /\ pc[g] = "open"
        /\ report'[g] = report[g]
        /\ kind' = kind
        /\ op'[g] = op[g]
        /\ calls'[g] = calls[g]
        /\ clientUserData'[g] = clientUserData[g]
    BY <1>8, <1>0, Zenon DEF OpenDevice, Set, Goto, Return, Returned, HygonUnchanged
  <2>2. \/ Returned(g, Error)
        \/ pc'[g] = "ioctl" /\ page'[g] = page[g]
    BY <1>8, <1>0, Zenon DEF OpenDevice, Set, Goto, Return, Returned, HygonUnchanged
  <2>3. CASE Returned(g, Error)
    BY <2>3, Failed, Zenon DEF Returned
  <2>4. CASE pc'[g] = "ioctl" /\ page'[g] = page[g]
    <3>3. Bound(g)'
      BY <2>1, <2>4, Zenon DEF Returned, Bound, Nonce
    <3>4. Contained(g)'
      BY <2>1, <2>4, Zenon DEF Returned, Contained
    <3> QED BY <3>3, <3>4, Zenon
  <2> QED BY <2>2, <2>3, <2>4, Zenon
<1>9. CASE Ioctl(g)
  <2>1. /\ pc[g] = "ioctl"
        /\ report'[g] = report[g]
        /\ kind' = kind
        /\ op'[g] = op[g]
        /\ calls'[g] = calls[g]
        /\ clientUserData'[g] = clientUserData[g]
    BY <1>9, <1>0, Zenon DEF Ioctl, Set, Goto, Return, Returned, HygonUnchanged
  <2>2. \/ Returned(g, Error)
        \/ pc'[g] = "check" /\ page'[g] \in answers
             \cup {Fields(page[g].userData, Nonce(g), "key", 0), page[g]}
    BY <1>9, <1>0, Zenon DEF Ioctl, Set, Goto, Return, Returned, HygonUnchanged
  <2>3. CASE Returned(g, Error)
    BY <2>3, Failed, Zenon DEF Returned
  <2>4. CASE /\ pc'[g] = "check"
             /\ page'[g] \in answers
                  \cup {Fields(page[g].userData, Nonce(g), "key", 0), page[g]}
    <3>1. op[g] = "evidence" /\ page'[g].nonce = Nonce(g)
            => page'[g].userData = clientUserData[g]
      BY <2>1, <2>4 DEF Answered, Bound, Fields
    <3>3. Bound(g)'
      BY <2>1, <2>4, <3>1, Zenon DEF Returned, Bound, Nonce
    <3>4. Contained(g)'
      BY <2>1, <2>4, <3>1, Zenon DEF Returned, Contained
    <3> QED BY <3>3, <3>4, Zenon
  <2> QED BY <2>2, <2>3, <2>4, Zenon
<1>10. CASE CheckReport(g)
  <2>1. /\ pc[g] = "check"
        /\ report'[g] = page[g]
        /\ kind' = kind
        /\ op'[g] = op[g]
        /\ calls'[g] = calls[g]
        /\ clientUserData'[g] = clientUserData[g]
    BY <1>10, <1>0, Zenon DEF CheckReport, Set, Goto, Return, Returned, HygonUnchanged, Answers
  <2>2. \/ Returned(g, Error)
        \/ pc'[g] \in {"extract", "zero"} /\ page[g].nonce = Nonce(g)
    BY <1>10, <1>0, Zenon DEF CheckReport, Set, Goto, Return, Returned, HygonUnchanged, Answers
  <2>3. CASE Returned(g, Error)
    BY <2>3, Failed, Zenon DEF Returned
  <2>4. CASE pc'[g] \in {"extract", "zero"} /\ page[g].nonce = Nonce(g)
    <3>3. Bound(g)'
      BY <2>1, <2>4, Zenon DEF Returned, Bound, Nonce
    <3>4. Contained(g)'
      BY <2>1, <2>4, Zenon DEF Returned, Contained
    <3> QED BY <3>3, <3>4, Zenon
  <2> QED BY <2>2, <2>3, <2>4, Zenon
<1>11. CASE ExtractSealingKey(g)
  <2>1. /\ pc[g] = "extract"
        /\ report'[g] = None
        /\ kind' = kind
        /\ op'[g] = op[g]
        /\ calls'[g] = calls[g]
        /\ clientUserData'[g] = clientUserData[g]
    BY <1>11, <1>0, Zenon DEF ExtractSealingKey, Set, Goto, Return, Returned, HygonUnchanged
  <2>2. Returned(g, OK(Fields(report[g].userData, report[g].nonce, "key", 0)))
    BY <1>11, <1>0, Zenon DEF ExtractSealingKey, Set, Goto, Return, Returned, HygonUnchanged
  <2>3. CASE Returned(g, OK(Fields(report[g].userData, report[g].nonce, "key", 0)))
    <3>1. /\ result'[g].val.userData = report[g].userData /\ result'[g].val.nonce = report[g].nonce
          /\ result'[g].val.reserved2 = "key"
      BY <2>3 DEF Returned, OK, Fields
    <3>3. Bound(g)'
      BY <2>1, <2>3, <3>1, Zenon DEF Returned, Bound, Nonce, OpInv
    <3>4. Contained(g)'
      BY <2>1, <2>3, <3>1, Zenon DEF Returned, Contained, OpInv
    <3> QED BY <3>3, <3>4, Zenon
  <2> QED BY <2>2, <2>3, Zenon
<1>12. CASE ZeroReport(g)
  <2>1. /\ pc[g] = "zero"
        /\ report'[g] = Fields(report[g].userData, report[g].nonce, "zero", report[g].hrk)
        /\ kind' = kind
        /\ op'[g] = op[g]
        /\ calls'[g] = calls[g]
        /\ clientUserData'[g] = clientUserData[g]
    BY <1>12, <1>0, Zenon DEF ZeroReport, Set, Goto, Return, Returned, HygonUnchanged,
         ZeroReserved2
  <2>2. pc'[g] = "files"
    BY <1>12, <1>0, Zenon DEF ZeroReport, Set, Goto, Return, Returned, HygonUnchanged,
         ZeroReserved2
  <2>3. CASE pc'[g] = "files"
    <3>1. /\ report'[g].userData = report[g].userData /\ report'[g].nonce = report[g].nonce
          /\ report'[g].reserved2 = "zero"
      BY <2>1 DEF Fields
    <3>3. Bound(g)'
      BY <2>1, <2>3, <3>1, Zenon DEF Returned, Bound, Nonce
    <3>4. Contained(g)'
      BY <2>1, <2>3, <3>1, Zenon DEF Returned, Contained
    <3> QED BY <3>3, <3>4, Zenon
  <2> QED BY <2>2, <2>3, Zenon
<1>13. CASE ReadCertFiles(g)
  <2>1. /\ pc[g] = "files"
        /\ report'[g] = report[g]
        /\ kind' = kind
        /\ op'[g] = op[g]
        /\ calls'[g] = calls[g]
        /\ clientUserData'[g] = clientUserData[g]
    BY <1>13, <1>0, Zenon DEF ReadCertFiles, Set, Goto, Return, Returned, HygonUnchanged
  <2>2. \/ Returned(g, Error)
        \/ \E x : Returned(g, OK(Fields(report[g].userData, report[g].nonce,
                                        report[g].reserved2, x)))
    BY <1>13, <1>0, Zenon DEF ReadCertFiles, Set, Goto, Return, Returned, HygonUnchanged
  <2>3. CASE Returned(g, Error)
    BY <2>3, Failed, Zenon DEF Returned
  <2>4. ASSUME NEW x, Returned(g, OK(Fields(report[g].userData, report[g].nonce,
                                              report[g].reserved2, x)))
        PROVE  Bound(g)' /\ Contained(g)'
    <3>1. /\ result'[g].val.userData = report[g].userData /\ result'[g].val.nonce = report[g].nonce
          /\ result'[g].val.reserved2 = report[g].reserved2
      BY <2>4 DEF Returned, OK, Fields
    <3>3. Bound(g)'
      BY <2>1, <2>4, <3>1, Zenon DEF Returned, Bound, Nonce
    <3>4. Contained(g)'
      BY <2>1, <2>4, <3>1, Zenon DEF Returned, Contained
    <3> QED BY <3>3, <3>4, Zenon
  <2> QED BY <2>2, <2>3, <2>4, Zenon
<1>14. CASE TrustedHRKCert(g)
  <2>1. /\ pc[g] = "anchor"
        /\ report'[g] = report[g]
        /\ kind' = kind
        /\ op'[g] = op[g]
        /\ calls'[g] = calls[g]
        /\ clientUserData'[g] = clientUserData[g]
    BY <1>14, <1>0, Zenon DEF TrustedHRKCert, Set, Goto, Return, Returned, HygonUnchanged
  <2>2. \E x : Returned(g, OK(Fields(None, None, "zero", x)))
    BY <1>14, <1>0, Zenon DEF TrustedHRKCert, Set, Goto, Return, Returned, HygonUnchanged
  <2>3. ASSUME NEW x, Returned(g, OK(Fields(None, None, "zero", x)))
        PROVE  Bound(g)' /\ Contained(g)'
    <3>1. /\ result'[g].val.userData = None /\ result'[g].val.nonce = None
          /\ result'[g].val.reserved2 = "zero"
      BY <2>3 DEF Returned, OK, Fields
    <3>3. Bound(g)'
      BY <2>1, <2>3, <3>1, Zenon DEF Returned, Bound, Nonce, OpInv
    <3>4. Contained(g)'
      BY <2>1, <2>3, <3>1, Zenon DEF Returned, Contained, OpInv
    <3> QED BY <3>3, <3>4, Zenon
  <2> QED BY <2>2, <2>3, Zenon
<1> QED
  BY <1>1, <1>2, <1>3, <1>4, <1>5, <1>6, <1>7, <1>8, <1>9, <1>10, <1>11, <1>12,
     <1>13, <1>14
 , Zenon DEF Step

\* None of this concerns another goroutine.
LEMMA OthersStep ==
  ASSUME IInv, NEW g \in Goroutine, Call(g) \/ Step(g), NEW h \in Goroutine, h # g
  PROVE  Answered(h)' /\ Bound(h)' /\ Contained(h)'
<1>1. /\ kind' = kind /\ pc'[h] = pc[h] /\ op'[h] = op[h] /\ calls'[h] = calls[h]
      /\ clientUserData'[h] = clientUserData[h] /\ page'[h] = page[h]
      /\ report'[h] = report[h] /\ result'[h] = result[h]
  BY OthersKept, Zenon DEF IInv
<1>2. Nonce(h)' = Nonce(h) /\ Nonce(h) # Nonce(g)
  BY <1>1, Zenon DEF Nonce
<1>3. \A r \in answers' : r.nonce = Nonce(h) => r \in answers
  BY <1>2, AnswersGrow, Zenon DEF IInv
<1>4. Answered(h)'
  BY <1>1, <1>2, <1>3, Zenon DEF IInv, Answered
<1>5. Bound(h)'
  BY <1>1, <1>2, Zenon DEF IInv, Bound
<1>6. Contained(h)'
  BY <1>1, Zenon DEF IInv, Contained
<1> QED BY <1>4, <1>5, <1>6, Zenon

LEMMA Invariant == Spec => []IInv
<1>1. ASSUME IInv, NEW g \in Goroutine, Call(g) \/ Step(g)
      PROVE  NonceInv' /\ \A h \in Goroutine : Answered(h)' /\ Bound(h)' /\ Contained(h)'
  BY <1>1, NonceStep, AnsweredStep, OwnStep, OthersStep, Zenon DEF IInv
<1>2. ASSUME IInv, UNCHANGED vars
      PROVE  NonceInv' /\ \A h \in Goroutine : Answered(h)' /\ Bound(h)' /\ Contained(h)'
  BY <1>2, ZenonT(30) DEF IInv, vars, callVars, NonceInv, Answered, Bound, Contained, Nonce
<1>3. IInv /\ [Next]_vars
        => NonceInv' /\ \A h \in Goroutine : Answered(h)' /\ Bound(h)' /\ Contained(h)'
  BY <1>1, <1>2, Zenon DEF Next
<1>4. IInv /\ [Next]_vars => IInv'
  BY <1>3, FunStep, MockStep, AnchorStep, ClientStep, OpStep, Zenon DEF IInv
<1> QED BY <1>4, InitInv, PTL DEF Spec

\* Evidence carries the digest and the nonce of the very call that returns it.
THEOREM EvidenceBound == Spec => []EvidenceBindsCall
<1>1. IInv => EvidenceBindsCall
  BY Zenon DEF IInv, Bound, EvidenceBindsCall, Succeeded
<1> QED BY <1>1, Invariant, PTL

\* Evidence and anchors a provider returns belong to one root.
THEOREM OneRoot == Spec => []AnchorMatches
<1>1. IInv => AnchorMatches
  BY Zenon DEF IInv, AnchorInv, AnchorMatches, Succeeded
<1> QED BY <1>1, Invariant, PTL

\* After a call that succeeds the sealing key is nowhere but in the caller's keyBuf.
THEOREM SealingKeyCleared == Spec => []KeyCleared
<1>1. IInv => KeyCleared
  BY Zenon DEF IInv, Contained, KeyCleared
<1> QED BY <1>1, Invariant, PTL
=============================================================================
