------------------------------ MODULE CertCache ------------------------------
(***************************************************************************)
(* config.go, GetOrGenerateCertificateContext, with cert.go's generation:  *)
(* one Config is shared by every connection of a listener, so many callers *)
(* check and fill its certificate cache under certMu.  A Config with       *)
(* CertPEM and KeyPEM returns copies of them, and one with no provider an  *)
(* error, before any of this; the module is the case that remains.         *)
(*                                                                         *)
(* A generated certificate and its key carry the number of their           *)
(* generation.  Time is a count of ticks.  The sync.RWMutex is its lock    *)
(* holders; which waiter it favours is left open.                          *)
(***************************************************************************)
EXTENDS Naturals

CONSTANTS
  Caller,          \* goroutines
  TTL,             \* CertCacheTTL, or its default
  Life,            \* from generation to the certificate's NotAfter
  Margin,          \* the minute a cached certificate must have left
  MaxTime,         \* bound: ticks
  MaxCalls         \* bound: calls of each caller

NoOne == "no one"

ASSUME CacheAssumption ==
  /\ NoOne \notin Caller
  /\ TTL \in Nat /\ Life \in Nat /\ Margin \in Nat
  /\ MaxTime \in Nat /\ MaxCalls \in Nat

VARIABLES
  contextAware,                    \* the provider is a ContextEvidenceProvider
  now,
  readers, writer,                 \* certMu: holders of RLock, holder of Lock
  cert, key, cachedAt, notAfter,   \* cachedCertPEM, cachedKeyPEM (0: empty), ...
  gens,                            \* keys generated so far
  pc, ctx, calls, got              \* of each caller; got is what it holds or returned

lock == <<readers, writer>>
cache == <<cert, key, cachedAt, notAfter>>
vars == <<contextAware, now, lock, cache, gens, pc, ctx, calls, got>>

Pair(c, k, n) == [cert |-> c, key |-> k, notAfter |-> n]
Nothing == Pair(0, 0, 0)

Init ==
  /\ contextAware \in BOOLEAN
  /\ now = 0
  /\ readers = {} /\ writer = NoOne
  /\ cert = 0 /\ key = 0 /\ cachedAt = 0 /\ notAfter = 0
  /\ gens = 0
  /\ pc = [g \in Caller |-> "idle"] /\ ctx = [g \in Caller |-> "live"]
  /\ calls = [g \in Caller |-> 0] /\ got = [g \in Caller |-> Nothing]

Goto(g, l) == pc' = [pc EXCEPT ![g] = l]

\* cachedCertificateValidLocked: a zero notAfter is an IsZero time.
CachedCertificateValid ==
  /\ cert # 0 /\ key # 0
  /\ now - cachedAt < TTL
  /\ notAfter # 0 /\ now + Margin < notAfter

-----------------------------------------------------------------------------
(* The clock and the callers' contexts *)

Tick ==
  /\ now < MaxTime
  /\ now' = now + 1
  /\ UNCHANGED <<contextAware, lock, cache, gens, pc, ctx, calls, got>>

Cancel(g) ==
  /\ pc[g] # "idle" /\ ctx[g] = "live"
  /\ ctx' = [ctx EXCEPT ![g] = "done"]
  /\ UNCHANGED <<contextAware, now, lock, cache, gens, pc, calls, got>>

-----------------------------------------------------------------------------
(* GetOrGenerateCertificateContext, called with a live or a cancelled context *)

Call(g) ==
  /\ pc[g] = "idle" /\ calls[g] < MaxCalls
  /\ calls' = [calls EXCEPT ![g] = @ + 1]
  /\ \E c \in {"live", "done"} : ctx' = [ctx EXCEPT ![g] = c]
  /\ got' = [got EXCEPT ![g] = Nothing]
  /\ Goto(g, "rlock")
  /\ UNCHANGED <<contextAware, now, lock, cache, gens>>

RLockUnlocked(g) ==
  /\ pc[g] = "rlock"
  /\ Goto(g, "rcheck")
  /\ UNCHANGED <<contextAware, now, lock, cache, gens, ctx, calls, got>>

RLock(g) ==
  /\ pc[g] = "rlock" /\ writer = NoOne
  /\ readers' = readers \cup {g}
  /\ Goto(g, "rcheck")
  /\ UNCHANGED <<contextAware, now, writer, cache, gens, ctx, calls, got>>

RCheckUpgrade(g) ==
  /\ pc[g] = "rcheck"
  /\ Goto(g, IF CachedCertificateValid THEN "copyCert" ELSE "lock")
  /\ UNCHANGED <<contextAware, now, lock, cache, gens, ctx, calls, got>>

RCheck(g) ==
  /\ pc[g] = "rcheck"
  /\ IF CachedCertificateValid
     THEN Goto(g, "copyCert") /\ UNCHANGED readers
     ELSE Goto(g, "lock") /\ readers' = readers \ {g}
  /\ UNCHANGED <<contextAware, now, writer, cache, gens, ctx, calls, got>>

Lock(g) ==
  /\ pc[g] = "lock" /\ writer = NoOne /\ readers = {}
  /\ writer' = g
  /\ Goto(g, "recheck")
  /\ UNCHANGED <<contextAware, now, readers, cache, gens, ctx, calls, got>>

RecheckSkipped(g) ==
  /\ pc[g] = "recheck"
  /\ Goto(g, "generate")
  /\ UNCHANGED <<contextAware, now, lock, cache, gens, ctx, calls, got>>

Recheck(g) ==
  /\ pc[g] = "recheck"
  /\ Goto(g, IF CachedCertificateValid THEN "copyCert" ELSE "generate")
  /\ UNCHANGED <<contextAware, now, lock, cache, gens, ctx, calls, got>>

\* Both return paths of a hit: copy the certificate, copy the key, unlock.
CopyCert(g) ==
  /\ pc[g] = "copyCert"
  /\ got' = [got EXCEPT ![g] = Pair(cert, got[g].key, notAfter)]
  /\ Goto(g, "copyKey")
  /\ UNCHANGED <<contextAware, now, lock, cache, gens, ctx, calls>>

Unlock(g) ==
  /\ readers' = readers \ {g}
  /\ writer' = IF writer = g THEN NoOne ELSE writer

CopyKey(g) ==
  /\ pc[g] = "copyKey"
  /\ got' = [got EXCEPT ![g] = Pair(got[g].cert, key, got[g].notAfter)]
  /\ Unlock(g)
  /\ Goto(g, "idle")
  /\ UNCHANGED <<contextAware, now, cache, gens, ctx, calls>>

\* GenerateSM2CertificateWithEvidenceContext up to the provider call.  The repository's
\* context-aware providers look at the context before they start, not later.
Generate(g) ==
  /\ pc[g] = "generate"
  /\ gens' = gens + 1
  /\ IF contextAware /\ ctx[g] = "done"
     THEN Unlock(g) /\ Goto(g, "idle") /\ UNCHANGED got
     ELSE /\ got' = [got EXCEPT ![g] = Pair(0, gens + 1, 0)]
          /\ Goto(g, "evidence")
          /\ UNCHANGED lock
  /\ UNCHANGED <<contextAware, now, cache, ctx, calls>>

\* The provider answers: the certificate is made for this key, from the time it is now.
ProviderReturns(g) ==
  /\ pc[g] = "evidence"
  /\ got' = [got EXCEPT ![g] = Pair(got[g].key, got[g].key, now + Life)]
  /\ Goto(g, "storeCert")
  /\ UNCHANGED <<contextAware, now, lock, cache, gens, ctx, calls>>

\* Errors return through the deferred Unlock and cache nothing.
ErrorReturn(g) ==
  /\ got' = [got EXCEPT ![g] = Nothing]
  /\ Unlock(g)
  /\ Goto(g, "idle")
  /\ UNCHANGED <<contextAware, now, cache, gens, ctx, calls>>

ProviderFails(g) == pc[g] = "evidence" /\ ErrorReturn(g)

\* getEvidenceWithContext: a plain provider is called in a goroutine of its own, which
\* is abandoned when the context is done.
AbandonNot(g) == FALSE /\ UNCHANGED vars
Abandon(g) ==
  pc[g] = "evidence" /\ ~contextAware /\ ctx[g] = "done" /\ ErrorReturn(g)

StoreCert(g) ==
  /\ pc[g] = "storeCert"
  /\ cert' = got[g].cert
  /\ Goto(g, "storeKey")
  /\ UNCHANGED <<contextAware, now, lock, key, cachedAt, notAfter, gens, ctx, calls, got>>

StoreKey(g) ==
  /\ pc[g] = "storeKey"
  /\ key' = got[g].key /\ cachedAt' = now /\ notAfter' = got[g].notAfter
  /\ Unlock(g)
  /\ Goto(g, "idle")
  /\ UNCHANGED <<contextAware, now, cert, gens, ctx, calls, got>>

Step(g) ==
  \/ RLock(g) \/ RCheck(g) \/ Lock(g) \/ Recheck(g) \/ CopyCert(g) \/ CopyKey(g)
  \/ Generate(g) \/ Abandon(g) \/ StoreCert(g) \/ StoreKey(g)
Provider(g) == ProviderReturns(g) \/ ProviderFails(g)

Next == Tick \/ \E g \in Caller : Call(g) \/ Cancel(g) \/ Step(g) \/ Provider(g)

Spec == Init /\ [][Next]_vars

\* Goroutines run, and a mutex passed on again and again reaches every waiter.
FairSpec == Spec /\ \A g \in Caller : SF_vars(Step(g))

\* The provider answers every call made to it.
ProviderAnswers == \A g \in Caller : WF_vars(Provider(g))

-----------------------------------------------------------------------------
(* Properties *)

\* The types, and certMu's own rule: a writer excludes everyone else.
TypeOK ==
  /\ contextAware \in BOOLEAN
  /\ now \in Nat /\ gens \in Nat
  /\ cert \in Nat /\ key \in Nat /\ cachedAt \in Nat /\ notAfter \in Nat
  /\ readers \subseteq Caller /\ writer \in Caller \cup {NoOne}
  /\ writer = NoOne \/ readers = {}
  /\ pc \in [Caller -> {"idle", "rlock", "rcheck", "lock", "recheck", "copyCert",
                        "copyKey", "generate", "evidence", "storeCert", "storeKey"}]
  /\ ctx \in [Caller -> {"live", "done"}] /\ calls \in [Caller -> Nat]
  /\ got \in [Caller -> [cert : Nat, key : Nat, notAfter : Nat]]

\* A caller never returns a certificate of one generation with the key of another, even
\* when the cache is refilled while it reads; nor one half of a pair.
PairMatches ==
  \A g \in Caller : pc[g] = "idle" /\ got[g].cert # 0 => got[g].cert = got[g].key

\* The cached pair is replaced only when it was no longer usable: callers that all miss
\* at once do not each ask the provider.
ValidNotReplaced == [][key' # key /\ key # 0 => ~CachedCertificateValid]_vars

\* With a provider that answers, every call returns: no path keeps certMu.
CallsReturn ==
  ProviderAnswers => \A g \in Caller : pc[g] # "idle" ~> pc[g] = "idle"

\* config.go:81, evidence retrieval is cancellable: a caller cancelled while it waits
\* for a plain provider returns, and frees certMu for the others, though the provider
\* never answers.
RetrievalCancellable ==
  \A g \in Caller :
    ~contextAware /\ pc[g] = "evidence" /\ ctx[g] = "done" ~> pc[g] = "idle"
=============================================================================
