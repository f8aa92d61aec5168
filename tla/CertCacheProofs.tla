-------------------------- MODULE CertCacheProofs --------------------------
(***************************************************************************)
(* The certificate cache's safety, for any callers, lifetimes and margins. *)
(***************************************************************************)
EXTENDS CertCache, TLAPS

\* Who holds certMu at which label.
LockInv ==
  \A g \in Caller :
    /\ pc[g] \in {"idle", "rlock", "lock"} => g \notin readers /\ writer # g
    /\ pc[g] = "rcheck" => g \in readers
    /\ pc[g] \in {"copyCert", "copyKey"} => g \in readers \/ writer = g
    /\ pc[g] \in {"recheck", "generate", "evidence", "storeCert", "storeKey"} => writer = g

\* The cache holds one generation, except between the two stores of a writer, whose
\* certificate it then holds.
CacheInv ==
  /\ (\A g \in Caller : pc[g] # "storeKey") => cert = key
  /\ \A g \in Caller : pc[g] = "storeKey" => cert = got[g].cert

\* What a caller holds: nothing, half of a cached pair, or a pair.
HeldInv ==
  \A g \in Caller :
    /\ pc[g] \in {"rlock", "rcheck", "lock", "recheck", "copyCert", "generate"}
         => got[g] = Nothing
    /\ pc[g] = "copyKey" => got[g].cert = cert
    /\ pc[g] \in {"idle", "storeCert", "storeKey"} => got[g].cert = got[g].key

\* The cached certificate is inside its TTL and its lifetime.
Fresh == now - cachedAt < TTL /\ notAfter # 0 /\ now + Margin < notAfter

\* Whoever generates found nothing usable, and time does not make it usable again.
StaleInv ==
  \A g \in Caller :
    pc[g] \in {"generate", "evidence", "storeCert", "storeKey"} => key = 0 \/ ~Fresh

IInv == TypeOK /\ LockInv /\ CacheInv /\ HeldInv /\ StaleInv

LEMMA InitInv == Init => IInv
BY CacheAssumption DEF Init, IInv, TypeOK, LockInv, CacheInv, HeldInv, StaleInv, Nothing, Pair

\* Every step keeps the types and certMu's rule.
LEMMA TypeStep == IInv /\ [Next]_vars => TypeOK'
<1> SUFFICES ASSUME IInv, [Next]_vars PROVE TypeOK'
  OBVIOUS
<1> USE CacheAssumption DEF IInv, Goto, TypeOK, LockInv, Nothing, Pair
<1>1. CASE Tick
  BY <1>1 DEF Tick, lock, cache
<1>2. ASSUME NEW g \in Caller, Call(g)
     PROVE  TypeOK'
  BY <1>2 DEF Call, lock, cache
<1>3. ASSUME NEW g \in Caller, Cancel(g)
     PROVE  TypeOK'
  BY <1>3 DEF Cancel, lock, cache
<1>4. ASSUME NEW g \in Caller, RLock(g)
     PROVE  TypeOK'
  BY <1>4 DEF RLock, lock, cache
<1>5. ASSUME NEW g \in Caller, RCheck(g)
     PROVE  TypeOK'
  BY <1>5 DEF RCheck, CachedCertificateValid, lock, cache
<1>6. ASSUME NEW g \in Caller, Lock(g)
     PROVE  TypeOK'
  BY <1>6 DEF Lock, lock, cache
<1>7. ASSUME NEW g \in Caller, Recheck(g)
     PROVE  TypeOK'
  BY <1>7 DEF Recheck, CachedCertificateValid, lock, cache
<1>8. ASSUME NEW g \in Caller, CopyCert(g)
     PROVE  TypeOK'
  BY <1>8 DEF CopyCert, lock, cache
<1>9. ASSUME NEW g \in Caller, CopyKey(g)
     PROVE  TypeOK'
  BY <1>9 DEF CopyKey, Unlock, lock, cache
<1>10. ASSUME NEW g \in Caller, Generate(g)
      PROVE  TypeOK'
  <2>1. gens' \in Nat /\ got' \in [Caller -> [cert : Nat, key : Nat, notAfter : Nat]]
    BY <1>10 DEF Generate
  <2>2. readers' \subseteq Caller /\ writer' \in Caller \cup {NoOne}
        /\ (writer' = NoOne \/ readers' = {})
    BY <1>10 DEF Generate, Unlock, lock
  <2> QED BY <1>10, <2>1, <2>2 DEF Generate, cache
<1>11. ASSUME NEW g \in Caller, Abandon(g)
      PROVE  TypeOK'
  BY <1>11 DEF Abandon, ErrorReturn, Unlock, lock, cache
<1>12. ASSUME NEW g \in Caller, StoreCert(g)
      PROVE  TypeOK'
  BY <1>12 DEF StoreCert, lock, cache
<1>13. ASSUME NEW g \in Caller, StoreKey(g)
      PROVE  TypeOK'
  BY <1>13 DEF StoreKey, Unlock, lock, cache
<1>14. ASSUME NEW g \in Caller, ProviderReturns(g)
      PROVE  TypeOK'
  BY <1>14 DEF ProviderReturns, lock, cache
<1>15. ASSUME NEW g \in Caller, ProviderFails(g)
      PROVE  TypeOK'
  BY <1>15 DEF ProviderFails, ErrorReturn, Unlock, lock, cache
<1>16. CASE UNCHANGED vars
  BY <1>16 DEF vars, lock, cache
<1> QED
  BY <1>1, <1>2, <1>3, <1>4, <1>5, <1>6, <1>7, <1>8, <1>9, <1>10, <1>11, <1>12,
     <1>13, <1>14, <1>15, <1>16
  DEF Next, Step, Provider

\* certMu is taken and given back where the labels say.
LEMMA LockStep == IInv /\ [Next]_vars => LockInv'
<1> SUFFICES ASSUME IInv, [Next]_vars PROVE LockInv'
  OBVIOUS
<1> USE CacheAssumption DEF IInv, Goto, TypeOK, LockInv
<1>1. CASE Tick
  BY <1>1 DEF Tick, lock, cache
<1>2. ASSUME NEW g \in Caller, Call(g)
     PROVE  LockInv'
  BY <1>2 DEF Call, lock, cache
<1>3. ASSUME NEW g \in Caller, Cancel(g)
     PROVE  LockInv'
  BY <1>3 DEF Cancel, lock, cache
<1>4. ASSUME NEW g \in Caller, RLock(g)
     PROVE  LockInv'
  BY <1>4 DEF RLock, lock, cache
<1>5. ASSUME NEW g \in Caller, RCheck(g)
     PROVE  LockInv'
  BY <1>5 DEF RCheck, CachedCertificateValid, lock, cache
<1>6. ASSUME NEW g \in Caller, Lock(g)
     PROVE  LockInv'
  BY <1>6 DEF Lock, lock, cache
<1>7. ASSUME NEW g \in Caller, Recheck(g)
     PROVE  LockInv'
  BY <1>7 DEF Recheck, CachedCertificateValid, lock, cache
<1>8. ASSUME NEW g \in Caller, CopyCert(g)
     PROVE  LockInv'
  BY <1>8 DEF CopyCert, lock, cache
<1>9. ASSUME NEW g \in Caller, CopyKey(g)
     PROVE  LockInv'
  BY <1>9 DEF CopyKey, Unlock, lock, cache
<1>10. ASSUME NEW g \in Caller, Generate(g)
      PROVE  LockInv'
  BY <1>10 DEF Generate, Unlock, lock, cache
<1>11. ASSUME NEW g \in Caller, Abandon(g)
      PROVE  LockInv'
  BY <1>11 DEF Abandon, ErrorReturn, Unlock, lock, cache
<1>12. ASSUME NEW g \in Caller, StoreCert(g)
      PROVE  LockInv'
  BY <1>12 DEF StoreCert, lock, cache
<1>13. ASSUME NEW g \in Caller, StoreKey(g)
      PROVE  LockInv'
  BY <1>13 DEF StoreKey, Unlock, lock, cache
<1>14. ASSUME NEW g \in Caller, ProviderReturns(g)
      PROVE  LockInv'
  BY <1>14 DEF ProviderReturns, lock, cache
<1>15. ASSUME NEW g \in Caller, ProviderFails(g)
      PROVE  LockInv'
  BY <1>15 DEF ProviderFails, ErrorReturn, Unlock, lock, cache
<1>16. CASE UNCHANGED vars
  BY <1>16 DEF vars, lock, cache
<1> QED
  BY <1>1, <1>2, <1>3, <1>4, <1>5, <1>6, <1>7, <1>8, <1>9, <1>10, <1>11, <1>12,
     <1>13, <1>14, <1>15, <1>16
  DEF Next, Step, Provider

\* Only the holder of the write lock stores.
LEMMA CacheStep == IInv /\ [Next]_vars => CacheInv'
<1> SUFFICES ASSUME IInv, [Next]_vars PROVE CacheInv'
  OBVIOUS
<1> USE CacheAssumption DEF IInv, Goto, TypeOK, LockInv, CacheInv, HeldInv, Nothing, Pair
<1>1. CASE Tick
  BY <1>1 DEF Tick, lock, cache
<1>2. ASSUME NEW g \in Caller, Call(g)
     PROVE  CacheInv'
  BY <1>2 DEF Call, lock, cache
<1>3. ASSUME NEW g \in Caller, Cancel(g)
     PROVE  CacheInv'
  BY <1>3 DEF Cancel, lock, cache
<1>4. ASSUME NEW g \in Caller, RLock(g)
     PROVE  CacheInv'
  BY <1>4 DEF RLock, lock, cache
<1>5. ASSUME NEW g \in Caller, RCheck(g)
     PROVE  CacheInv'
  BY <1>5 DEF RCheck, CachedCertificateValid, lock, cache
<1>6. ASSUME NEW g \in Caller, Lock(g)
     PROVE  CacheInv'
  BY <1>6 DEF Lock, lock, cache
<1>7. ASSUME NEW g \in Caller, Recheck(g)
     PROVE  CacheInv'
  BY <1>7 DEF Recheck, CachedCertificateValid, lock, cache
<1>8. ASSUME NEW g \in Caller, CopyCert(g)
     PROVE  CacheInv'
  BY <1>8 DEF CopyCert, lock, cache
<1>9. ASSUME NEW g \in Caller, CopyKey(g)
     PROVE  CacheInv'
  BY <1>9 DEF CopyKey, Unlock, lock, cache
<1>10. ASSUME NEW g \in Caller, Generate(g)
      PROVE  CacheInv'
  BY <1>10 DEF Generate, Unlock, lock, cache
<1>11. ASSUME NEW g \in Caller, Abandon(g)
      PROVE  CacheInv'
  BY <1>11 DEF Abandon, ErrorReturn, Unlock, lock, cache
<1>12. ASSUME NEW g \in Caller, StoreCert(g)
      PROVE  CacheInv'
  BY <1>12 DEF StoreCert, lock, cache
<1>13. ASSUME NEW g \in Caller, StoreKey(g)
      PROVE  CacheInv'
  BY <1>13 DEF StoreKey, Unlock, lock, cache
<1>14. ASSUME NEW g \in Caller, ProviderReturns(g)
      PROVE  CacheInv'
  BY <1>14 DEF ProviderReturns, lock, cache
<1>15. ASSUME NEW g \in Caller, ProviderFails(g)
      PROVE  CacheInv'
  BY <1>15 DEF ProviderFails, ErrorReturn, Unlock, lock, cache
<1>16. CASE UNCHANGED vars
  BY <1>16 DEF vars, lock, cache
<1> QED
  BY <1>1, <1>2, <1>3, <1>4, <1>5, <1>6, <1>7, <1>8, <1>9, <1>10, <1>11, <1>12,
     <1>13, <1>14, <1>15, <1>16
  DEF Next, Step, Provider

\* Nobody stores while a caller copies.
LEMMA HeldStep == IInv /\ [Next]_vars => HeldInv'
<1> SUFFICES ASSUME IInv, [Next]_vars PROVE HeldInv'
  OBVIOUS
<1> USE CacheAssumption DEF IInv, Goto, TypeOK, LockInv, CacheInv, HeldInv, Nothing, Pair
<1>1. CASE Tick
  BY <1>1 DEF Tick, lock, cache
<1>2. ASSUME NEW g \in Caller, Call(g)
     PROVE  HeldInv'
  BY <1>2 DEF Call, lock, cache
<1>3. ASSUME NEW g \in Caller, Cancel(g)
     PROVE  HeldInv'
  BY <1>3 DEF Cancel, lock, cache
<1>4. ASSUME NEW g \in Caller, RLock(g)
     PROVE  HeldInv'
  BY <1>4 DEF RLock, lock, cache
<1>5. ASSUME NEW g \in Caller, RCheck(g)
     PROVE  HeldInv'
  BY <1>5 DEF RCheck, CachedCertificateValid, lock, cache
<1>6. ASSUME NEW g \in Caller, Lock(g)
     PROVE  HeldInv'
  BY <1>6 DEF Lock, lock, cache
<1>7. ASSUME NEW g \in Caller, Recheck(g)
     PROVE  HeldInv'
  BY <1>7 DEF Recheck, CachedCertificateValid, lock, cache
<1>8. ASSUME NEW g \in Caller, CopyCert(g)
     PROVE  HeldInv'
  BY <1>8 DEF CopyCert, lock, cache
<1>9. ASSUME NEW g \in Caller, CopyKey(g)
     PROVE  HeldInv'
  BY <1>9 DEF CopyKey, Unlock, lock, cache
<1>10. ASSUME NEW g \in Caller, Generate(g)
      PROVE  HeldInv'
  BY <1>10 DEF Generate, Unlock, lock, cache
<1>11. ASSUME NEW g \in Caller, Abandon(g)
      PROVE  HeldInv'
  BY <1>11 DEF Abandon, ErrorReturn, Unlock, lock, cache
<1>12. ASSUME NEW g \in Caller, StoreCert(g)
      PROVE  HeldInv'
  BY <1>12 DEF StoreCert, lock, cache
<1>13. ASSUME NEW g \in Caller, StoreKey(g)
      PROVE  HeldInv'
  BY <1>13 DEF StoreKey, Unlock, lock, cache
<1>14. ASSUME NEW g \in Caller, ProviderReturns(g)
      PROVE  HeldInv'
  BY <1>14 DEF ProviderReturns, lock, cache
<1>15. ASSUME NEW g \in Caller, ProviderFails(g)
      PROVE  HeldInv'
  BY <1>15 DEF ProviderFails, ErrorReturn, Unlock, lock, cache
<1>16. CASE UNCHANGED vars
  BY <1>16 DEF vars, lock, cache
<1> QED
  BY <1>1, <1>2, <1>3, <1>4, <1>5, <1>6, <1>7, <1>8, <1>9, <1>10, <1>11, <1>12,
     <1>13, <1>14, <1>15, <1>16
  DEF Next, Step, Provider

\* What was stale when it was checked again is stale when it is replaced.
LEMMA StaleStep == IInv /\ [Next]_vars => StaleInv'
<1> SUFFICES ASSUME IInv, [Next]_vars PROVE StaleInv'
  OBVIOUS
<1> USE CacheAssumption DEF IInv, Goto, TypeOK, LockInv, CacheInv, StaleInv, Fresh
<1>1. CASE Tick
  BY <1>1 DEF Tick, lock, cache
<1>2. ASSUME NEW g \in Caller, Call(g)
     PROVE  StaleInv'
  BY <1>2 DEF Call, lock, cache
<1>3. ASSUME NEW g \in Caller, Cancel(g)
     PROVE  StaleInv'
  BY <1>3 DEF Cancel, lock, cache
<1>4. ASSUME NEW g \in Caller, RLock(g)
     PROVE  StaleInv'
  BY <1>4 DEF RLock, lock, cache
<1>5. ASSUME NEW g \in Caller, RCheck(g)
     PROVE  StaleInv'
  BY <1>5 DEF RCheck, CachedCertificateValid, lock, cache
<1>6. ASSUME NEW g \in Caller, Lock(g)
     PROVE  StaleInv'
  BY <1>6 DEF Lock, lock, cache
<1>7. ASSUME NEW g \in Caller, Recheck(g)
     PROVE  StaleInv'
  BY <1>7 DEF Recheck, CachedCertificateValid, lock, cache
<1>8. ASSUME NEW g \in Caller, CopyCert(g)
     PROVE  StaleInv'
  BY <1>8 DEF CopyCert, lock, cache
<1>9. ASSUME NEW g \in Caller, CopyKey(g)
     PROVE  StaleInv'
  BY <1>9 DEF CopyKey, Unlock, lock, cache
<1>10. ASSUME NEW g \in Caller, Generate(g)
      PROVE  StaleInv'
  BY <1>10 DEF Generate, Unlock, lock, cache
<1>11. ASSUME NEW g \in Caller, Abandon(g)
      PROVE  StaleInv'
  BY <1>11 DEF Abandon, ErrorReturn, Unlock, lock, cache
<1>12. ASSUME NEW g \in Caller, StoreCert(g)
      PROVE  StaleInv'
  BY <1>12 DEF StoreCert, lock, cache
<1>13. ASSUME NEW g \in Caller, StoreKey(g)
      PROVE  StaleInv'
  BY <1>13 DEF StoreKey, Unlock, lock, cache
<1>14. ASSUME NEW g \in Caller, ProviderReturns(g)
      PROVE  StaleInv'
  BY <1>14 DEF ProviderReturns, lock, cache
<1>15. ASSUME NEW g \in Caller, ProviderFails(g)
      PROVE  StaleInv'
  BY <1>15 DEF ProviderFails, ErrorReturn, Unlock, lock, cache
<1>16. CASE UNCHANGED vars
  BY <1>16 DEF vars, lock, cache
<1> QED
  BY <1>1, <1>2, <1>3, <1>4, <1>5, <1>6, <1>7, <1>8, <1>9, <1>10, <1>11, <1>12,
     <1>13, <1>14, <1>15, <1>16
  DEF Next, Step, Provider

LEMMA Invariant == Spec => []IInv
<1>1. IInv /\ [Next]_vars => IInv'
  BY TypeStep, LockStep, CacheStep, HeldStep, StaleStep DEF IInv
<1> QED BY <1>1, InitInv, PTL DEF Spec

\* The cache's variables keep their types, and a writer has certMu to itself.
THEOREM TypeCorrect == Spec => []TypeOK
<1>1. IInv => TypeOK
  BY DEF IInv
<1> QED BY <1>1, Invariant, PTL

\* GetOrGenerateCertificateContext returns certificate and key of one generation.
THEOREM ReturnedPairMatches == Spec => []PairMatches
<1>1. IInv => PairMatches
  BY DEF IInv, HeldInv, PairMatches
<1> QED BY <1>1, Invariant, PTL

\* A cached pair that is still usable is never replaced, however many callers missed.
THEOREM UsablePairKept == Spec => ValidNotReplaced
<1>1. IInv /\ [Next]_vars => [key' # key /\ key # 0 => ~CachedCertificateValid]_vars
  <2> SUFFICES ASSUME IInv, [Next]_vars, key' # key, key # 0
               PROVE  ~CachedCertificateValid
    OBVIOUS
  <2>1. PICK g \in Caller : StoreKey(g)
    BY DEF Next, vars, lock, cache, Tick, Call, Cancel, Step, RLock, RCheck, Lock, Recheck,
           CopyCert, CopyKey, Generate, Abandon, StoreCert, Provider, ProviderReturns,
           ProviderFails, ErrorReturn
  <2>2. ~Fresh
    BY <2>1 DEF IInv, StaleInv, StoreKey
  <2> QED BY <2>2 DEF Fresh, CachedCertificateValid
<1> QED BY <1>1, Invariant, PTL DEF Spec, ValidNotReplaced
=============================================================================
