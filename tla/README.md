# teetls: TLA+ models, checks and proofs

teetls is a Go library that gives applications a `net.Conn` over a TLS-1.3-shaped
protocol (SM2, SM3, SM4-GCM) in which certificates carry Hygon CSV attestation
evidence. This directory models its stateful parts in TLA+, checks them with TLC on
small instances, and proves the most important invariants with TLAPS for every value
of the constants. `PROJECT.json` maps each definition to the lines it models and lists
the runs, the mutants, the hazards and the theorems.

## 1. The system

| Part | Source | State | Operations | Module |
|---|---|---|---|---|
| Record layer | `record.go` | key, base IV, 64-bit `seq`, mutex | `Seal`, `SealWithPadding`, `Unseal`, `Reset` | `RecordLayer`, abstractly `OrderedChannel` |
| Connection | `conn.go` | `readMu`, `writeMu`, `closeOnce`, `readBuf`, `closeNotifyReceived`, raw deadlines | `Read`, `Write`, `Close`, `Set*Deadline` | `Conn`, abstractly `ByteStream` |
| Lazy handshake | `conn.go` 64-112 | `handshakeDone`, `handshakeErr`, `handshakeMutex`, ciphers, peer evidence | `Handshake`, first `Read`/`Write`, `Close` | `ConnHandshake` |
| Handshake protocol | `handshake.go` | transcript, shares, mutual flag, traffic keys | nine client and ten server steps | `Handshake` |
| Handshake records | `handshake.go` 94-178, 828-930 | `hr.buf`, records on the wire | `writePlaintextHandshakeMsg`, `writeEncryptedHandshakeMsg` and their readers | `HandshakeReader`, abstractly `OrderedChannel` |
| Dialing | `transport.go` | raw connection and its deadline, context, watcher goroutine | `DialContext` | `Dial` |
| Certificate cache | `config.go`, `cert.go` | `certMu`, cached pair, its age and expiry | `GetOrGenerateCertificateContext` | `CertCache` |
| Peer verification, configuration checks, listener | `verifier.go`, `config.go`, `transport.go`, `pkg/csvattest/verify.go` | none | `VerifyPeerCertificateAndEvidence`, `Validate`, what `Listen` and `DialContext` admit | `Verifier` over `Report` |
| Evidence providers, report client | `provider.go`, `pkg/csvattest/{client,ioctl_linux,report}.go` | mock: authority, published HRK, `m.mu`; hardware: mapped page, device, report copy | `GetEvidence`, `TrustedHRKCert`, `GetMeasurementHex`, `GetSealingKeyIOCTL` | `Provider` |
| Reports and their certificates | `pkg/csvattest/{mock,report,verify}.go` | none | generation, masking, parsing, signature, chain | `Report` |

How they fit together: `DialContext` and a listener's `Accept` make a `Conn`; the first
call on it runs the handshake once; the handshake takes its certificate from the cache,
which asks the evidence provider, and has the peer's certificate judged by the verifier;
its result is two pairs of record ciphers, and from then on `Read`, `Write` and `Close`
go through the record layer to the raw connection.

What is hard here, and hard to test:

- goroutines that share a `Conn`, a `RecordCipher` or a `Config` and interleave inside
  `Seal`, `handshake`, `Write`, `Close` and the cache;
- raw writes that stop, and deadlines that pass, in the middle of a record, after the
  sequence number has moved, followed by more calls;
- peers that stall, connections that break, plaintext hellos altered on the way;
- a cancellation that races with the end of a dial;
- two users, the handshake and the application, of one raw deadline;
- sequence numbers, and the handshake's buffer, at their limit;
- handshake messages cut and packed into records by another implementation, with
  application data right behind them;
- a mock provider that creates its root at the first call, whoever makes it, and a driver
  that fails half-way or answers the wrong call;
- report fields the signature does not cover;
- five sources of certificate-chain material in any combination.

The properties that would make the system correct follow from these and are listed run
by run below; `PROJECT.json` pairs each hazard with its source line and its properties.

## 2. The modules

Every module keeps all of the control flow of the code it models and abstracts data.
Operators whose names extend the name of the definition that follows them
(`SealNonceWraps`, `RLockUnlocked`, ...) are plausible bugs in that definition; they are
used only to show that a property would catch them.

**RecordLayer** has a sealing and an opening cipher with one key. `pc` says where each
goroutine is in `Seal` or `Unseal`; taking the mutex, deriving the nonce and incrementing
`seq` are separate steps. Plaintexts are sequences of bytes and the framing (type byte,
zero padding, backward scan) is modelled exactly; the nonce is the bitwise XOR of base IV
and sequence number. The AEAD is symbolic: `Open` succeeds exactly on an undamaged record
sealed under the nonce it is opened with. The transport may present any record sealed so
far, damaged or not, in any order, any number of times. `Channel` instantiates
**OrderedChannel**, which has only `Send` and `Receive`.

**Conn** has both ends of an established connection. A record crosses the raw connection
as two units, header and body, so a write can stop and a read can time out between
them. A byte is named by writer, call and position. The raw connection (`net.Conn`) is
external: a bounded buffer per direction, refusal after a deadline or a close, EOF after a
peer's close, and `Break`, which cuts what is in flight. Sealing uses what `RecordLayer`
establishes: the k-th record opens exactly at a receiver that has opened k - 1. Each
direction is an instance of **ByteStream**: bytes are written, the stream ends once, what
is read is a prefix, and `io.EOF` comes only when all bytes before the end were read. A
`Write` that waits for `writeMu` while `Close` sends its alert is sealed behind
close_notify; a receiver that goes on reading after `io.EOF` can be handed its bytes, and
`ByteStream` says so.

**ConnHandshake** has one `Conn` and the goroutines that reach its handshake, with the
fast path, the mutex, the recheck, the protocol run as one interval, the installation of
the result field by field, and the server's deadline on the raw connection. A handshake
whose configuration is refused, or whose deadline cannot be set, returns before it has
touched the deadline (`StartFails`).

**Handshake** has one action per message sent or read. A share stands for random and
ephemeral key; a secret is the pair of shares it was made from; signatures and Finished
tags carry the transcript they cover, so a tag verifies exactly when transcripts and
secrets agree. `Alter` changes plaintext hellos and damages sealed records. What
`VerifyPeerCertificateAndEvidence` and `prepareCertificate` answer is part of the
configuration. `DialContext` closes the connection of a client that failed (`DialCloses`);
that of a server that failed stays open until its application closes it
(`ApplicationCloses`).

**HandshakeReader** has one direction of a handshake at the level of bytes and records:
the hello in plaintext records, K encrypted messages, then application data under other
keys. The writer is this code, which fills each record and starts every message in a new
one, or another implementation, which cuts and packs as it likes, may begin its next message
in plaintext behind the hello, send a message too many, an alert, or stop. The reader is
`readPlaintextHandshakeMsg`, then `ReadMsg` with `hr.buf`, then the `HasRemaining` check
after Finished. Length fields are encoded and decoded in base `Base`, the code's 256.

**Dial** has `DialContext`, its watcher goroutine (whose `select` may take either ready
case) and the raw deadline. The handshake is a number of I/O steps, which the deadline ends,
and, under mutual attestation, the wait for the client's own certificate before the last of
them: for `certMu`, and for the evidence provider. That wait is no I/O. Only a plain
provider's retrieval is abandoned when the context is done (`Abandon`).

**CertCache** has the callers of one `Config`, `certMu` as reader set and writer, a clock,
and a provider that answers, fails or hangs. Certificate and key are copied and stored in
separate steps, each tagged with its generation.

**Report** has what pkg/csvattest computes without state. A field is a sequence of words,
masked word by word with the A nonce. Certificates and signatures are symbolic: a
certificate names the key it certifies and the key that signed it, and a signature carries
the masked fields it was made over. It also records what was attested, so that properties
can compare it with what a verifier reads after unmasking with the nonce in the report,
which is not signed. The user data attested is the guest's choice: any field, and not only
the digest of a key.

**Verifier** has the decision as operators, source by source in the code's order. One
action is `Listen` or `DialContext` admitting the configuration, the other verifies a
peer.

**Provider** has goroutines that share one provider. For the mock: `m.mu`, the lazily
created authority, its publication, and `TrustedHRKCert`, which reads without the lock.
That read races with the publication; the model lets it see the old value, the new one,
or a torn one, which makes the call fail. For the hardware: every step of
`fetchReportIOCTL`, each of which may fail, the deferred unmap and close, the checks, and
the clearing of the sealing key. The driver is external: it fails, answers, leaves the
page alone, or delivers an answer to another call. A nonce names the call that drew it.
A provider whose construction failed returns that error for ever; the comment at
`provider.go:82-83`, "creating it on first use when construction failed", describes what
only the zero value of the type does.

`MCRecordLayer`, `MCConn`, `MCHandshake`, `MCHandshakeReader` and `MCVerifier` supply
constants and symmetry. `Dial`, `ConnHandshake`, `CertCache` and `Provider` are checked
directly.

## 3. The runs

| Run | Specification | Checks | Distinct states |
|---|---|---|---|
| `record_layer` | `FairSpec` | `NonceUnique`, `ImplementsChannel`, `CallsReturn` | 81,887 |
| `conn` | `Spec` | `TypeOK`, `WritesContiguous`, `CloseBetweenWrites`, `ImplementsStream` | 578,079 (with symmetry) |
| `conn_live` | `FairSpec` | `AckedIsDelivered`, `WriteAndCloseReturn`, `CallsReturnAfterClose` | 10,069 |
| `conn_handshake` | `FairSpec` | `RunsOnce`, `OneVerdict`, `CiphersInstalled`, `HandshakeDeadlineCleared`, `CallsReturn` | 1,032 |
| `handshake` | `FairSpec` | `ServerDoneMeansAgreement`, `ClientDoneMeansAgreement`, `MutualHonoured`, `HandshakeTerminates`, `ServerReturns`, `CompatibleEndsComplete` | 93,779 |
| `handshake_reader` | `FairSpec` | `TypeOK`, `HandoffClean`, `ImplementsMessages`, `FittingDelivered` | 86,784 |
| `dial` | `DialFairSpec` | `HandedBackClean`, `FailureReleases`, `CancelReturns`, `DialReturns` | 5,520 |
| `cert_cache` | `FairSpec` | `PairMatches`, `ValidNotReplaced`, `CallsReturn`, `RetrievalCancellable` | 143,554 |
| `verifier` | `Spec` | `AcceptsOnlyAttested`, `LocalNeverShadowed`, `FailsFastExactly` | 1,044,015 |
| `provider` | `FairSpec` | `EvidenceBindsCall`, `AnchorMatches`, `KeyCleared`, `CallsReturn` | 256,898 |

What the less obvious ones say:

- `ImplementsStream`: through partial writes, broken connections and deadlines in the
  middle of a record, with calls retried afterwards, each direction stays a byte stream,
  and truncation never looks like `io.EOF`.
- `CloseBetweenWrites`: the close_notify alert never falls inside a `Write`.
- `HandoffClean`: when the handshake completes, every handshake byte the peer sent after
  Finished, and every application record, is still on the connection for `Conn` to open
  or refuse.
- `FittingDelivered`: no message that fits is refused for how it was cut. A message
  fits if the buffer can hold it together with what another implementation may pack
  behind it: a peer that packs records tightly near the limit may be refused for bytes of
  the next message.
- `AcceptsOnlyAttested`: a machine under a locally configured root signed the key of
  this certificate and the measurement the verifier reads, both up to one and the same
  word, that of the A nonce, which the signature does not cover; in strict mode the
  measurement read is whitelisted. If the user data attested is the digest of a key, as it
  is with this library's providers, key and measurement are exactly those attested.
- `FailsFastExactly`: what is refused before any peer is met could never work: half of a
  certificate and key pair, a configuration the verifier answers with an error for every
  peer, or a listener without a certificate. What is admitted accepts the peers it is meant
  for, unless its chain material cannot be used (`ChainUsable`): no anchor, an anchor that
  is too short or stands beside explicit paths, an unreadable directory, or intermediates
  of another root. With such material nobody is accepted, but the first handshake tells,
  and not `Listen` or `DialContext`.
- `HandshakeTerminates`: one deadline releases both ends. If it is the client's,
  `DialContext` closes and the server's read fails. If it is the server's, somebody has to
  close the server's end.
- `AnchorMatches`: goroutines that create the mock's authority together share one root.
- `KeyCleared` is about calls that succeed. A report that fails its MAC or nonce check
  is dropped on the heap as it is.

Two runs end in a violation, each a disagreement between the code and what it says of
itself:

- `conn_close_stall` (`CloseReturns`): `Close` takes `writeMu` before it closes the raw
  connection, and a `Write` blocked by a peer that no longer reads holds it without a
  deadline. `conn.go:232` says Close closes the raw connection. An application that
  wants to abort such a connection must set a write deadline first.
- `verifier_paths` (`ExplicitPathsUsed`): with `TrustedHRKCert` set, or supplied by the
  provider, next to `HRKCertPath` and `HSKCekCertPath`, `loadChainFromOptions` takes its
  in-memory branch, misses the bundle and fails. The repository's `README.md:247` names
  these paths as the first source of chain material.

Four more are visible in the models and have no run of their own; the last three are
premises of the properties named:

- On an accepted connection, a read deadline set before the first `Read` is replaced by the
  handshake's and then cleared (`handshake.go:609-612`, in `ConnHandshake`), while
  `conn.go:271` says it applies to future `Read` calls.
- The repository's `README.md:251` has `Timeout` bound the handshake. It is a deadline of
  the raw connection, and does not end a client's wait for `certMu` or for its own evidence
  provider under mutual attestation; neither does a cancellation, except that a plain
  provider is abandoned. `CancelReturns` and `DialReturns` have `CertMuReached` and
  `ProviderAnswers` as premises.
- The same line says that a peer which stalls is disconnected when the server's timeout
  expires. `ServerHandshakeContext` returns an error and `Conn` keeps it; the raw connection
  stays open until the application calls `Close`. `HandshakeTerminates` has
  `ServerApplicationCloses` as a premise for the server's deadline.
- `README.md:444` and `verify.go:224-228` say of the unsigned A nonce that every value it
  unmasks that matters is checked independently, user data against the peer's key and the
  PEK certificate against the chain. The measurement is unmasked with it too and has no
  such check of its own: it is exact because user data and measurement share the nonce and
  the user data is a key's digest. `AcceptsOnlyAttested` says what holds with that premise
  and what holds without.

Bounds, and why they are enough to be interesting:

- `record_layer`: a 2-bit sequence number gives three records and then overflow, so the
  last legal `Seal`, the refusal after it and the receiver's own limit all happen. Two
  sealers contend for the mutex. The plaintexts are one that ends in the padding byte and
  one that is too long; padding is negative, legal or excessive; one content type is
  refused by `Unseal`.
- `conn`: two writers at the server whose calls need two records, a closer beside them,
  two readers at the client with slices shorter than a record, a buffer smaller than the
  traffic, a server that may break at any point, a read deadline at the client and a write
  deadline at the server, set, cleared and passing at any time: a record cut by a timeout
  is followed by another `Write`, and by more `Read`s. `SeqMax` is reached.
- `conn_live`: one writer of two records, a reader at each end, two closers, a buffer of
  one record.
- `handshake`: all pairs of configurations (mutual attestation, certificate preparation,
  presence of a provider, acceptance of the peer), a connection that buffers one message,
  two altered messages, deadlines at both ends.
- `conn_handshake`: three goroutines: one that runs the protocol, one that waits, and one
  that closes or arrives late. `dial`: four I/O steps, the last two of them the client's own
  flight, so that cancellation and expiry fall before, between and after them, and before,
  in and after the wait for the certificate; all four kinds of own certificate.
- `cert_cache`: two callers with two calls each over four ticks, with a TTL of two and a
  lifetime of three, so entries expire by age and by certificate.
- `handshake_reader`: two encrypted messages, bodies that are empty, fill the buffer of
  seven bytes exactly and exceed it, records of up to four bytes, so a header is cut in
  every place and a record can hold the end of one message and the start of the next.
- `verifier`: two roots tell "the same" from "another" everywhere, bundles are of one
  root, of both, or shifted by one place; fields are two words of one bit, and masking
  turns one measurement into the other; attested user data is a key's digest or not.
  Configurations and certificates are all those in
  which the fields that can matter together vary together.
- `provider`: two goroutines with two calls each, of any operation: a second call follows
  one that failed, and two first calls meet in the mock.

Deadlock checking is off where the modelled calls end (`handshake`, `handshake_reader`,
`dial`, `cert_cache`, `verifier`, `verifier_paths`, `provider`), and in `conn_close_stall`, where
being stuck is the point.

### Fairness

Weak fairness is assumed of goroutines inside a call (Go's scheduler runs runnable
goroutines) and strong fairness of taking a mutex (`sync.Mutex` hands over to waiters
after a millisecond of starvation, `sync.RWMutex` blocks new readers for a waiting
writer). Nobody has to make a call. What is not the code's to guarantee is a premise of
the property that needs it, so each liveness property says what it depends on:

- `KeepReading` (the peer's application goes on reading) for `AckedIsDelivered` and
  `WriteAndCloseReturn`; `CallsReturnAfterClose` does without.
- `DeadlinePasses("server")` for `ServerReturns`, which assumes nothing of the client.
  `HandshakeTerminates` needs `ClientRuns` and either `DeadlinePasses("client")` or
  `DeadlinePasses("server")` with `ServerApplicationCloses`, which is no doing of the
  library. `CompatibleEndsComplete` needs `ClientRuns` only and assumes no deadline passes,
  so a deadline cannot hide two ends waiting for each other.
- `TimersFire` for `DialReturns`; `CancelReturns` holds though no timer fires and the
  peer never answers. A client that has to attest itself through a provider needs
  `CertMuReached` (whoever holds `certMu` lets go of it) and `ProviderAnswers` besides; a
  cancelled dial with a plain provider does without the second.
- `ProviderAnswers` for `CertCache`'s `CallsReturn`; `RetrievalCancellable` is about a
  provider that does not. A caller that waits for `certMu` while another caller's
  provider hangs is not cancellable in the code, and no property says it is.
- `FittingDelivered` has the ways a peer can fall out of the protocol (it stops, packs a
  message behind its hello, or sends a message too many) as alternatives, and assumes only
  that both ends run.
- `Provider`'s `CallsReturn` assumes that the driver answers or fails: an ioctl that never
  returns has no timeout in the code.

In `Conn` an armed deadline passes: `Close` gives its alert 500 ms. In `ConnHandshake` the
protocol returns, which is `ServerReturns` of `Handshake` and `DialReturns` of `Dial`, with
their premises. In `Handshake` the server's `prepareCertificate` answers, which is `CallsReturn`
of `CertCache`.

## 4. What is proved

All theorems hold for every value of the constants that satisfies the named assumptions.

**RecordLayerProofs**: any sets of goroutines, any sequence width, any plaintexts,
types, paddings and limits. `NonceUnique` is not inductive: it does not say which nonce
the next record will get. The invariant `IInv` adds that

- a goroutine past `Lock` holds the mutex (`LockInv`);
- the i-th record carries the i-th request under the nonce of i - 1, and `outSeq` is
  the number of records (`SealedInv`); so numbers are never reused, because `SealNonce`
  refuses the last one and the increment cannot wrap;
- a sealer that has derived its nonce has that of the current `outSeq` (`SealerInv`);
- an opener's record was sealed, and once opened is the one `inSeq` asks for
  (`OpenerInv`), and what was returned is a prefix of what was asked for (`OpenedInv`).

From it: `TypeCorrect`, `NonceNeverReused`, `DeliveryInOrder`, and `RecordLayerIsChannel`:
`SealReturn` is `Send`, `UnsealReturn` is `Receive`, every other step stutters.
`FrameRoundTrip` is the fact about framing these rest on: stripping padding and type
returns exactly type and plaintext, whatever zeros the plaintext ends in. That nonces of
different sequence numbers differ is `NonceInjective`, for any width and any base IV: XOR
with the IV loses nothing, and two numbers below 2^w with the same w bits are equal, by
induction on w.

**ConnSetupProofs** has the proofs of `ConnHandshake` and `Dial`, the two ways to a `Conn`
that can be used.

For `ConnHandshake`: any number of goroutines, client or server. `IInv` adds to the
type invariant (which says that `handshakeMutex` is held exactly inside `handshake`) that
`runs` is at most one and is zero until somebody starts (`RunsInv`), that verdicts agree
with `handshakeDone` and `handshakeErr`, which exclude each other (`VerdictInv`), that
`handshakeDone` implies everything is installed (`PublishInv`), and that the raw
connection is under the handshake's deadline only while the protocol runs
(`DeadlineInv`). From it: `AtMostOneRun`, `VerdictsAgree`, `UsedAfterInstalled`,
`NoHandshakeDeadlineLeft`, `TypeCorrect`.

For `Dial`: handshakes of any length. `HandedBackClean` depends on who may still touch
the deadline: `WatcherInv` says the watcher is done before it is cleared, `OpenInv` when
the connection is open, and `ResultInv` that without an error the handshake ran to its
end. The watcher is done, or was never started, wherever `DialContext` returns, which is the
other half of `FailureReleases`. From these: `ConnHandedBackClean`, `FailedDialReleases`, `DialTypeCorrect`.

**VerifierProofs**: any roots, bundles, measurements, configurations and certificates, and
fields of any width. `OnlyAttestedAccepted`, `PeerCannotShadow` and `FailFastExact`, by
cases over the sources of chain material.

The first needs to know what a signature that does not cover the nonce says
(`NonceUnsigned`): user data and measurement come out as attested up to the same word, and
exactly so when the attested user data and what it comes out as are both digests of keys.
The second half rests on one assumption in `Verifier`, that no key digest is another one
combined with a repeated word, which is SM3 taken as an ideal hash. Nothing is assumed of
what a guest has attested. `XorAssumption` has the laws of exclusive or.

`FailFastExact` has to produce a peer that is accepted: `MeantPeer`, with a report generated
under the configured anchor. `MeantChain` and `OwnChain` find its chain, whichever source
it comes from, and `MeantAccepted` follows the verifier through its checks. The converse,
that acceptance means usable chain material, is `ChainOfAnchor`.

**CertCacheProofs**: any callers, TTL, lifetime, margin and clock. `IInv` says who holds
`certMu` at which label (`LockInv`), that the cache holds one generation except between
the two stores of the writer (`CacheInv`), what a caller has copied so far (`HeldInv`), and
that whoever generates found nothing usable, which time does not make usable again
(`StaleInv`). From it: `ReturnedPairMatches`, the action property `UsablePairKept`, and
`TypeCorrect`.

**ProviderProofs**: any goroutines, digests and number of calls. `IInv` says that the mock
has at most one authority, which only the holder of `m.mu` creates (`MockInv`,
`AnchorInv`); that every answer of the driver has the nonce of a call that was made
(`NonceInv`), a nonce being in no answer before its call reaches the driver (`Answered`);
that page and report are about the caller's digest wherever they carry the call's nonce
(`Bound`); and where a sealing key may be at each label (`Contained`). From it:
`EvidenceBound`, `OneRoot`, `SealingKeyCleared`.

**HandshakeProofs**: any set of configurations, capacity of the raw connection, number of
altered messages and ends that may time out. That a client or a server is done says
nothing of the peer by itself; the link is the Finished message in flight. `IInv` says

- how many messages an end's transcript holds at each label (`ServerCount`,
  `ClientCount`), so that "the third message" is the same message at both ends;
- that a server's Finished on the wire was made over the first five messages of its
  transcript and under a secret it still has (`ServerFinished`), so a client that compares
  it with its own five has the server's (`ClientAgreed`);
- that a client whose Finished is on the wire is done, with the keys of the transcript
  that ends in it (`ClientFinished`), so a server that accepts it has the same keys;
- that what the server announced in its third message is what it does
  (`ServerAnnounced`), what the client has checked by its third and fourth message
  (`ClientChecked`), and that a server past the client's certificate has accepted it
  (`ServerMutual`, `ClientCertificate`).

From it: `ServerAgreement`, `ClientAgreement` and `MutualAttestation`. The proof looks at
`Alter` like at any other step: it damages sealed records, which no reader then opens, and
changes only hellos that are in plaintext, which the Finished messages cover.

**HandshakeReaderProofs**: any bodies, byte base, record size, buffer limit, number of
messages and of records in flight, and either kind of peer. `IInv` is a conservation law:
until the reader fails, what it holds, followed by what is on the wire and what is in no
record yet, is byte for byte the encoding of the messages it has not returned
(`BalanceInv`), and how many it has returned at each label (`CountInv`, `ReceivedInv`). The
first bytes of the buffer are then the header of the next message, its length decodes to
what was encoded, and a buffer that is long enough begins with that message, however it
was cut. From it: `TypeCorrect`, `HandoffIsClean`, and the refinement `MessagesInOrder`:
`WriteMsg` and `PackBehindHello` are `OrderedChannel`'s send, `ReturnHello` and `ReturnMsg` receive, and cutting,
packing and reading records stutter.

`FittingNeverRefused` is the safety half of `FittingDelivered`: a reader that fails has met
a peer that stopped, packed a message behind its hello, went on after Finished, or sent a
message too long for the buffer. The balance does not imply it, because it does not say in which record the bytes are or under
which key. `AcceptedInv` adds, as long as the peer keeps to the protocol, that there is a
number of handshake bytes left after each record on the wire (`Placement`) such that a
record begins inside or before the message whose key it has, the hello shares no record,
this code puts no two messages in one, and application data comes when nothing is left. The
record at the head of the wire is then one the reader takes: its key is the expected one,
and with it the buffer holds at most the next message and what may be packed behind it.

**ConnProofs**: any goroutines at either end, slices, record size, buffer, number of
records, and any choice of ends that break or have deadlines. None of the safety properties
of `Conn` is inductive; `IInv` joins one part per mechanism of `conn.go`:

- `Locks`: who holds `writeMu` and `readMu` at which label, that no decrypted bytes are
  left when a `Read` goes to the raw connection, and that `closeOnce` lets one caller
  through;
- `Records`: no unit on the wire, and none still to be written, belongs to a record that
  was not sealed;
- `Writes`: the bytes of a call are as far apart in the stream as in its slice, and
  close_notify separates no two of them (`Sealed`); and for each `Write` in progress where
  the bytes it still holds will stand (`Progress`): nowhere yet while it waits for the
  mutex, behind the last sealed byte between chunks, at the end of the stream while its
  chunk is being written. A chunk is sealed before the raw write that may fail, so this is
  where partial writes are accounted for;
- `Streams`: there are offsets that cut the sealed bytes into the sealed records, and what
  `Read` has returned followed by `readBuf` ends at the offset of the next record to be
  opened.

From it: `TypeCorrect`, `WritesStayContiguous`, `CloseFallsBetweenWrites`, and the
refinement `ConnIsStream`: sealing a chunk is `ByteStream`'s write, sealing close_notify
ends the stream, a `Read` that returns bytes takes the next ones, one that opens
close_notify reports the end, and every other step, breaks and deadlines included,
stutters. `StreamsStep` proves invariant and refinement together, because the offsets that
show that nothing was skipped are those that show what the step does to the stream.
These inductive invariants were first checked by TLC on the instances of the runs
`handshake`, `conn` and `handshake_reader`.

What flattening, the encodings and binary notation compute is proved by induction. The
induction principle of the library takes a predicate as a parameter, which the provers
cannot instantiate; `SetInduction` has a set of numbers in its place (one that contains 0
and the successors of its members contains all), from the library's well-foundedness of
the naturals.

The type invariants of `RecordLayer`, `ConnHandshake`, `Dial` and `CertCache` are proved and
not run.

Only model-checked:

- every liveness property, because fairness and ENABLED are outside the prover:
  `CallsReturn` of `RecordLayer`, `ConnHandshake`, `CertCache` and `Provider`,
  `AckedIsDelivered`, `WriteAndCloseReturn`, `CallsReturnAfterClose`, `HandshakeTerminates`,
  `ServerReturns`, `CompatibleEndsComplete`, `CancelReturns`, `DialReturns`,
  `RetrievalCancellable`, and `FittingDelivered` beyond its safety half.

Every invariant, action property and refinement of the passing runs is also a theorem.

## 5. How the modules rest on each other

No module contains all of the system: their product is out of TLC's reach. Each takes from
another one exactly what that one establishes:

- `Conn` opens records as `ImplementsChannel` of `RecordLayer` allows, and `HandshakeReader`
  opens one if it has the key it expects;
- `Handshake` exchanges whole messages in order, which is `ImplementsMessages`;
- `Conn` starts with nothing of its stream consumed, which is `HandoffClean`;
- `ConnHandshake` runs a handshake that returns, which is `ServerReturns` at a server and
  `DialReturns` at a client, and `Dial` one that fails when the raw deadline passes, as
  `TimeOut` of `Handshake` does;
- `Dial` waits for a certificate, as a caller of `CertCache` does;
- `CertCache` asks a provider that answers, fails or hangs, which `Provider` refines into
  steps; `Handshake` has the verifier's answer in its configuration, and `Verifier` decides
  it.

## 6. Not modelled

- Cryptography, ASN.1 and X.509 encoding, and byte layouts: symbolic. Their failures are
  outcomes in the models.
- `evidence.go`: an encoder and a decoder around a library codec, without state. `Verifier`
  has their outcomes.
- `NewHTTPTransport`, `NewHTTPClient`: fill in structs of `net/http`.
- `ioctl_unsupported.go`, `vmmcall_unsupported.go`, `platform.go`, `constants.go`,
  `errors.go`: functions that return an error, and constants.
- `encodeHandshakeMsg` keeps only three length bytes. `HandshakeReader` assumes bodies
  shorter than 2^24 bytes, which holds for every message the handshake sends.
- `Conn` models one connection; connections share only the `Config`, which `CertCache`
  covers.
