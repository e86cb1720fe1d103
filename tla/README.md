# Verification of gomat in TLA+

gomat is a Go library (with a demo program) that controls Matter devices: it
discovers them by mDNS, commissions them onto its own fabric (PASE, certificate
upload, CASE), and afterwards connects and sends commands over UDP. This
directory holds TLA+ models of its parts, TLC configurations that check small
instances, and proofs checked by TLAPS. Paths below are relative to the
repository; line numbers are in `PROJECT.json` ("map").

## 1. Inventory

| Component (source) | State it keeps | Operations | Interacts with |
|---|---|---|---|
| secure channel (`securechannel.go`, `ackGen` of `messages.go`) | socket on local port 55555, keys, node ids, session id, message `Counter` | `startUdpChannel`, `StartSecureChannel`, `Send`, `Receive` (with a 3 s read deadline), `Close` | UDP network; called by the flows and by applications |
| flows (`flows.go`) | local variables of one call, a `SecureChannel` value passed and returned by value | `Spake2pExchange`, `SigmaExchange`, `Commission`, `ConnectDevice` | channel, SPAKE2+/Sigma, certificate manager, the device |
| cryptography of the flows (`spake2p.go`, `sigma.go`) | transcript and derived keys of one exchange | key and confirmation computation | flows |
| message codec (`messages.go`) | none | header and payload encoders/decoders, `ParseImInvokeResponse` | channel, flows, applications |
| certificate manager (`certmanager.go`, `certmanagerfile.go`) | `pem/` directory: key and certificate files; CA key and certificate in memory | `BootstrapCa`, `Load`, `CreateUser`, `SignCertificate`, `GetPrivkey`, `GetCertificate` | several processes share the directory; flows call `SignCertificate` and the getters |
| Matter certificates (`matter-cert.go`) | none | DER to TLV conversion | flows, sigma |
| discovery (`discover/discover.go`) | per query: a channel of 4 answers, a goroutine, a map | `Discover`, `DiscoverAllComissioned`, `DiscoverComissioned`, `DiscoverAllComissionable` | hashicorp mdns (external) |
| TLV (`mattertlv/`) | write buffer; a decoder over a buffer | `Write...`, `Decode`, lookups | messages, certificates |
| onboarding payload (`onboarding_payload/`) | bit cursor | `DecodeQrText`, `DecodeManualPairingCode` | demo |
| AES-CCM (`ccm/ccm.go`) | none | `Seal`, `Open` | channel, sigma |
| fabric, helpers (`fabric.go`, `util.go`, `matter.go`) | constant fabric data | derivations | flows |
| demo commands (`demo/main.go`, `examples/basic/`) | one process per command: its channel; `subscribe` stays | on/off/color, reads, `get_logs`, `open_commissioning`, `subscribe`; `commission`, `ca-*`, `discover`, `decode-*` | the flows to connect, then `Send`/`Receive` on the channel directly |
| symbol tables (`symbols/`) | none | generated names | demo |

What is hard here:

* **Unreliable delivery on one fixed port.** The controller always binds port
  55555 and starts no receiver thread: what a call reads may be a late or
  repeated datagram of an earlier request, of the previous session, or of an
  earlier call. `Receive` compares neither exchange ids nor counters.
* **State copied by value.** Exchanges get a `SecureChannel` by value and return
  another one, or an empty one on error; who holds the live counter, key and
  socket is a matter of order.
* **Commands that trust what comes next.** The demo's commands do not compare
  exchange ids, and most do not look at opcodes; each is a new process on the
  same port, most end without closing the session, and `subscribe` answers
  whatever it reads.
* **Files as shared, persistent state.** The CA is three files written in
  several steps by processes that do not lock, and may stop in between.
* **Unsynchronised goroutines.** Discovery returns a map a goroutine may still
  be writing.
* **Numeric edges.** The 32-bit nonce counter, length fields, bit fields, and
  big integers written without their leading zeros.

What makes each component correct, in short: the channel never repeats a nonce
early, labels each datagram with the session of its key, acknowledges what it
accepts and accepts under a key only what was sealed with it; the flows return
success only for a device that is really onboarded, sign only for a device that
knows the passcode, and return unless standalone acks come in for ever; a
command shows the user only what the device said to that command, and confirms
no event it did not show; the directory never holds a certificate of another CA
and gives a node's key with the certificate of another key only when the node
is being created anew, that was cut short, or it happened between a reader's
two reads; discovery reports what it heard in time and leaves nothing running;
the decoders invert the encoders.

## 2. Modules

| Module | Models | Shape |
|---|---|---|
| `SecureChannel` | one channel, its socket and the network | one action per branch of `Receive`, `Send`, `Close`, `StartSecureChannel`, and the three places of `flows.go` that change keys |
| `SecureChannelProofs` | theorems about it | inductive invariant `ChannelInv` |
| `Flows` | library calls, application, and a conforming device | EXTENDS `SecureChannel`; one action per Send/Receive/check step; a call is a program counter `pc` |
| `AckStream` | `Flows` and a device that sends standalone acks without end | EXTENDS `Flows` with one action; fairness and liveness of the calls |
| `FlowsProofs` | theorems about it | inductive invariant `FlowInv`; refinement of `SecureChannel` |
| `Interaction` | the demo's commands, one process after another, and a device with subscriptions and a commissioning window | EXTENDS `SecureChannel`; a command is a program counter `pc` |
| `InteractionProofs` | theorems about it, and about its subscriptions | inductive invariant `InteractionInv`; refinement of `SecureChannel`; `EventInv` |
| `CertManager` | the pem directory and its processes | one action per file operation |
| `CertAuthority` | what a certificate manager promises | abstract specification that `CertManager` implements |
| `CertManagerProofs` | theorems about both, and about a user's key and certificate | `CertInv`, `ChainInv`; refinement of `CertAuthority`; `PairInv`, `CreatedInv` |
| `Discover` | the caller, `mdns.Query`, one goroutine per interface | one action per channel, map or query operation |
| `DiscoverProofs` | theorems about it | inductive invariant `DiscoverInv` |
| `Digits` | numbers as digits in a base, and back | functions, shared by `Tlv` and `Onboarding` |
| `Tlv` | writer as a state machine, decoder as a function | the decoder is applied to the buffer |
| `TlvProofs` | theorems about it | inductive invariant `TlvInv` |
| `Messages` | headers, acks, status reports, the five requests, the lookups in answers | EXTENDS `Tlv`; encoders and decoders as operators |
| `Credentials` | Matter certificates, Sigma3's signature, the PASE transcript | EXTENDS `Messages`; operators and a reader |
| `Ccm` | `tag`, `Seal`, `Open`, `NewCCM` | `Tag`, `Seal`, `OpenSealed` over an abstract block cipher, RFC 3610 as reference |
| `Onboarding` | decoders of QR and manual codes, manufacturer's encoders as reference | pure operators |
| `CodecProofs` | theorems about `Onboarding`, the transcripts of `Credentials` and `Ccm` | lemmas of `TlvProofs` on bytes and digits |
| `MessageProofs` | theorems about `Messages` and the certificates of `Credentials` | what bytes are read as, composed as they are written |
| `MC...` | values of the constants for TLC; `MCCodecs` puts the byte formats side by side | |

`Flows` and `Interaction` are two users of one channel: `Flows` has every message
of the key exchanges and one command, `Interaction` takes the connection as one
step (`Connected`, `ConnectFails`; the device has the key or was misled, which is
what `Flows` shows possible) and has every command.

### SecureChannel

`sc` is the caller's `SecureChannel` (`key` stands for encrypt key, decrypt key
and node ids, which are always set together), `port` the socket, `net` the
datagrams on their way from the device, `ret` what `Receive` returned. `sent`,
`got` and `used` are histories. A datagram in `net` may be read now, later,
never, or again while duplicates remain. Unopenable datagrams, standalone acks
(after which `Receive` calls itself), timeouts, status reports and payloads on
which the TLV decoder panics are separate actions. Writing to a closed socket
fails silently, as every caller ignores the error, but advances the counter.

### Flows

`Commission` and `ConnectDevice` are followed statement by statement:
which answer is awaited, which field of it is looked at, and what is returned on
every failure. The device answers, refuses, answers malformed, or stays silent;
it handles each datagram at most once and in any order. Key exchange is modelled
by transcripts: both ends have the same key exactly when each took the other's
messages of the same call and the passcode is right. The messages that still
arrive on the channel after its keys were dropped are ciphertext read as plain
text (`Garbled`). A process may end with or without `Close`; the operating
system then frees the port. A socket nobody refers to is closed at some time by
its finalizer (`Collect`). A process that panics (`Panics`: what `Decode` does
not know, a PAKE2 whose point is not on the curve, the certificate manager) runs
the deferred `Close` and ends; its last datagram is treated as lost, which the
device cannot tell apart. The device conforms to Matter: in particular it
refuses the root certificate without a cluster status, so `InvokeStatusOk` does
not meet the failure that `ParseImInvokeResponse` reads as success (section 5).

`Receive` calls itself after every standalone ack and sets a new read deadline
(`src/securechannel.go:126-128`, line 81). `Flows` counts its datagrams, so a
stream of acks without end is an action of `AckStream` of its own,
`RenewDeadline`, that changes nothing but the deadline.

### Interaction

`script` is the sequence of commands the user runs. Each is a new process
(`StartCommand`), connects, sends its request and waits at `pc` for what it takes
for the answer; `Takes`, `HasStatus`, `HasData` and `ParseImInvokeResponse` are
what the code reads out of a message, and no more: an unexpected message panics
(`Panics`), passes (`PassedOver`) or is taken for the answer, as in the code.
`shown` is what the user saw. The device answers, refuses with or without a
cluster status, which may be 0, answers what the decoder cannot read, sends an event after the last was confirmed, opens the
window only in a timed interaction and for a complete verifier (`short`: W0 lost
a leading zero byte, `demo/main.go:287`), and may close the session. `dev.said`
remembers what it said under which key. The user may interrupt a command.

### CertManager and CertAuthority

`os.WriteFile` is two steps (truncate, fill); a crash or a failed write may come
between any two steps, and processes interleave. A key is a number; a
certificate is the pair of the key it certifies and the key that signed it.
Every process reads key and certificate of every id, in two steps and without a
lock, as `SigmaExchange` does (`src/flows.go:123-127`); which users a process
creates is a parameter (`UserIds`). A write's content becomes visible in one step, so two overlapping writes leave the
last writer's content.

### Discover

The caller, `mdns.Query` and the goroutines interleave. The unsynchronised map
is modelled by its outcomes: an entry being stored may be seen or not by a
reader, and the Go runtime may stop the process when it notices. `mdns.Query` is
external; from the way it is called the model takes that it offers each answer
once without blocking and returns at its timeout (1 s by default).

### Tlv, Messages, Credentials, Ccm and Onboarding

Bytes are numbers below `Base`, so that with `Base` 4 the limits of the length
forms (255 and 65535 bytes in the code) lie at 3 and 15; flags, opcodes and tags
keep their values. The decoder keeps the code's habits: signed integers are
skipped and read as 0, missing bytes of an integer read as 0, a missing end of a
container is accepted, unknown types panic. `Decoded(b)` is what `decode` makes
of every position of `b`, for the rest of the container or buffer that begins
there; `DecodeFrom` reads one control byte and tag, `DecodeContent` the element
behind them and, by `Then`, what follows it. Lookups take the first item of each
tag, level by level, and an integer lookup reads a string as 0.

`Messages` writes whole datagrams, which a reader takes apart; the bytes before
the protocol message are what the encryption authenticates. In `Credentials` a
scalar is `Size` bytes and `BigIntBytes` drops its leading zeros as
`big.Int.Bytes` does; a date is four bytes counted from `Epoch`. `Ccm` keeps the
block size of 16 and the flag arithmetic; the cipher is any function on blocks, and
the exclusive or adds the bits of two bytes modulo 2.
QR text is a sequence of alphabet indices; manual codes are sequences of digits
and dashes.

## 3. Runs

| Run | Question | Result and bounds |
|---|---|---|
| `channel` | Does any caller, on any network, break counters, acks, headers or sessions? | holds; two session keys, counters 0..2 and four datagrams written so that the counter wraps, one datagram of the device, delivered up to twice |
| `commission` | What does a returned `Commission` guarantee after loss, repetition, refusal, and does the call return when the device may send standalone acks without end? | holds, and the call returns unless acks renew the deadline for ever; one call, one repeated datagram, one standalone ack besides the stream |
| `retry` | The same safety (`FlowSafety`) over two calls of either kind, in one process or two, with datagrams of the first call arriving in the second | holds; every datagram late at will, none twice |
| `interaction` | What do the demo's commands show, and do they end, when datagrams of an earlier command still arrive on the port? | holds; two commands, two events, one datagram delivered twice |
| `pase_unconfirmed` | Does a successful `Spake2pExchange` mean the device has the session? | **violated**: a repeated PAKE2 passes for the final status |
| `case_unconfirmed` | The same for `SigmaExchange` | **violated**: answers of an earlier attempt pass |
| `window_refused` | Does "open commissioning success" mean that the window is open? | **violated**: a refusal with cluster status 0 reads as success |
| `cert_shared` | One process founds the CA, then two create a user each, read either user and sign for one device: do certificates chain to one CA, what is retrievable, and what does a reader get? | holds; six operations, so that one process can create a user twice around the other's first read, and two crashes or failed writes anywhere |
| `bootstrap_cut_short` | Does nil from `BootstrapCa` mean there is a CA? | **violated**: the presence of `ca-private.pem` is taken for it |
| `discover` | All four functions over three interfaces, with races and failures | holds; one place in the channel so that it overflows, two answers per interface |
| `discover_wanted` | Is a device that answered found by its name? | **violated**: instances of one host replace each other |
| `codecs` | Does every byte format read back, against an independent reader or definition? | holds; TLV of four items and two nested containers, labels with every field at its limits, requests and answers with every header form, CCM around the block boundaries, certificates and transcripts with and without leading zeros |

The violated runs are recorded in `PROJECT.json` under "findings" with the line
of the repository each contradicts.

Properties worth reading, and why they are not obvious:

* `NonceReuseOnlyAfterFullCircle`: between two datagrams with one nonce under
  one key lies a full circle of the counter, although exchanges copy channels,
  one of them resets the counter and the other keeps it.
* `AcksAnswerAcceptedDatagrams`: the acks on the wire match the accepted
  datagrams one to one and in order, duplicates included, under the right keys.
  Only `Receive` writes acks: `ackGen` is not exported (`CallerAssumption`).
* `SignedOnlyForOnboardingDevice`: although PASE's last message is hardly
  checked (`pase_unconfirmed`), a certificate is signed only for a device that
  knows the passcode, because the answers that follow are sealed.
* `CommissionNilMeansOnboarded`: a sealed answer to an older request may stand
  in for AddNOC's, but CASE makes up for it.
* `PortHeldOnlyAfterFailedExchange`: exactly when the port stays bound.
* `ShownIsOwnAnswer`: no command compares an exchange id and most look at no
  opcode, yet what is shown was said by the device in that command's session.
* `WindowReportedTruly`: a repeated status response to the timed request is not
  taken for the answer to `OpenCommissioningWindow`, and a verifier that lost a
  byte is reported as a failure; success is printed without an open window only
  after a refusal with cluster status 0 (`SuccessMeansOpened`, without this
  exception, is violated in `window_refused`).
* `EventsReachTheUser`: every report the device holds for confirmed was shown
  (`ConfirmedWasShown`), events in order (`EventsShownInOrder`), and all reports
  together are shown again no more often than the network repeated a datagram.
* `ImplementsChannel`: `Flows` and `Interaction` move the channel only by actions
  of `SecureChannel`, so the theorems about that module hold in both.
* `PairMismatchNeedsRewrite`: what lets a reader get a key and a certificate
  that do not belong together. Each of its exceptions is needed: without any one
  of them `cert_shared` fails; the last one is a complete `CreateUser` of
  another process between `GetPrivkey` and `GetCertificate`.
* `CreatedUserIsRetrievable`: the promise of `certmanager.go`, through panics and
  crashes of the other processes; `ImplementsCertAuthority`.
* `EveryCallReturns`: no loss, late or repeated datagram keeps a call from
  returning; a stream of acks is the one thing that does.
* `InTimeIsReported`, `GoroutinesEnd`.
* `AnswersReadBack`: the lookups tell a status from a command's fields whatever
  the header looks like, and `ParseImInvokeResponse` returns 0 for exactly the
  successes and the failures with cluster status 0; `TranscriptsAgree` and `CertificateReadsBack` say
  exactly when leading zeros make the two ends disagree.

### Why the bounds are enough

The channel's actions look at one datagram and one key at a time, and no rule
refers to more than two sessions; two keys with wrapping counters contain every
pair of positions the properties speak of, and the theorems remove the bounds
altogether. In `Flows` a call is a straight line with a fixed number of
messages; `MaxSent`, `MaxPeer` and `MaxCounter` are above what a call can write,
so they never cut a behaviour short. Two calls are the least in which one call
sees another's datagrams, and a third would only see more of the same kind; the
theorems about `Flows` and `Interaction` hold for any number. `interaction` has
two events because the second must wait for the confirmation of the first, and
its scripts pair the commands so that each kind of answer is late in a command
that reads another kind. Two faults allow a crash of the repetition that should
repair a crash. `cert_shared` runs `OneFounderSpec`: the second process begins
when the first has seen `BootstrapCa` return nil, since two bootstraps at once
break the CA (section 5); this may be the nil of a bootstrap that was cut short,
so both also meet half a CA. Two usable interfaces show overwriting across
interfaces, the third one being skipped.

### Fairness

`AckStream!StreamSpec`: a call that can take a step takes one (the goroutine of
the caller is scheduled), and a `Receive` that waits is ended by its read
deadline (`SetReadDeadline`, 3 s), unless standalone acks come in for ever and
each sets a new one. Neither the device nor the network is fair. The exception
is an assumption on the device that the code does not enforce: without it TLC
shows a call that `RenewDeadline` keeps waiting.
`Interaction!FairSpec` says the same of the running command (`Program`, which
includes the read deadline) against a device that sends no standalone acks; the
device, the network and the user's interrupt are not fair, so `CommandsEnd` lets
`subscribe` end where it listens.
`Discover!FairSpec`: caller and goroutines are scheduled and `mdns.Query`
returns at its timeout; answers need not come. `SecureChannel` and `CertManager`
have safety properties only.

## 4. What is proved

Every safety and action property that a run checks is a theorem, except
`OpenRefusesChanges`. Eight modules hold proofs. None assumes more than the
named assumptions on the constants of its module (`ChannelAssumption` and
`CallerAssumption`, `FlowAssumption`, `InteractionAssumption`, `CertAssumption`,
`DiscoverAssumption`, `TlvAssumption`, `MessageAssumption`,
`CredentialAssumption`, `PayloadAssumption`, `PacketAssumption`), and the hypotheses
that some theorems about the directory, and the one about the cipher, name in
their statement; the bounds (`MaxSent`, `MaxCalls`, `MaxOps`, ...) are
arbitrary numbers there.

**`SecureChannelProofs`**, for every set of keys and messages and every counter
range: `ChannelInvariant` (`ChannelSpec => []ChannelInv`), and from it
`ChannelTypeCorrect`, `NonceTheorem`, `HeaderSessionTheorem` and the action
property `KeyedReceiveTheorem`. `NonceReuseOnlyAfterFullCircle` is not inductive:
it says nothing of the channel that is about to send. `ChannelInv` adds that the
header session always equals the key (`SessionMatchesKey`), that no key seals
anything before it is installed (`KeysInstalled`), that while the socket is open
the `Counter` is exactly as far ahead of each datagram of the session as
datagrams were written since (`CounterTracksSession`), and that this distance is
what separates any two datagrams of a session (`ConsecutiveInSession`). The
nonce theorem then follows from arithmetic: advancing by 1..MaxCounter never
returns to the same value. The proof splits the invariant into the part about
what was written and the part about the network (`InvParts`) and treats the
steps that write (`WriteStep`) apart from those that do not (`QuietStep`).
`AckTheorem` shows that the acks among the first datagrams written
(`AcksAmong`) and the datagrams accepted grow together: they correspond one to
one, in order; the n-th ack names the counter of the n-th accepted datagram and
leaves under its key, or in the clear for a sealed one that came after the keys
were dropped.

**`FlowsProofs`**, for any number of calls: `FlowsImplementChannel` shows that
every action of `Flows` is an action of the channel or leaves it alone, so
`FlowNonceTheorem` and `FlowAckTheorem` follow from `NonceTheorem` and
`AckTheorem`; `FlowSafetyTheorem` and its parts
(`CommissionTheorem`, `SigningTheorem`, `KeyedAnswerTheorem`,
`CommandSessionTheorem`, `PortTheorem`) and `FlowTypeCorrect` follow from
`FlowInv`. The safety properties speak of the end of a call, so `FlowInv` says
where a session shows on the way there: which key the channel has at each place
of a call (`ControlInv`), what the device holds and that it speaks only under
sessions of matching transcripts (`DeviceInv`), what the controller has written
under which key (`SentInv`), that a call under way has an open socket
(`CallHasSocket`), and that whatever is sealed on the way back, or was
just received, was said by a device that has the session (`NetInv`, `RetInv`).

**`InteractionProofs`**, for any scripts, events and repetitions:
`InteractionImplementsChannel`, from it `InteractionAckTheorem`,
`InteractionTypeCorrect`, `ShownTheorem` and `WindowTheorem` (with the refusal
that reads as success among the answers). `InteractionInv` follows a datagram from what the device said
(`dev.said`) through the network (`NetInv`) and `Receive` (`RetInv`) to the user
(`ShownInv`). That the window is reported truly needs more: an answer to an
invoke stands for an invoke the device handled (`AnswersInv`), and there is at
most one invoke in an exchange (`SentInv`, `NoInvokeYet`).

The second part of the module is about the events of a subscription, under the
same assumptions: `EventTheorem` (`Spec => []EventsReachTheUser`) from
`EventInvariant`. That no command compares
exchange ids makes this the longest argument of the project. A status response
may confirm the wrong thing, an old report may be read as the new one, and a
report may be shown twice, so the proof follows one report:

* a session carries one request that is answered with a report (`RequestInv`),
  so the device says every report once (`SaidInv`, `SubInv`);
* each is therefore in the network once (`OnceInv`), as long as it is not
  repeated;
* a confirmation is written only when the report it is for was shown, or in
  answer to something that is no report (`StatusInv`), so what the device
  takes for a confirmation of its last event is one;
* a command that is answered by a message prints it once and ends
  (`MessagesInv`);
* every copy beyond the first, whether it was shown (`Repeated`), was returned
  by `Receive` (`HeldAgain`) or is still on its way (`Stale`), was paid for by
  one repetition of the network (`CountInv`).

`CountInv` is what makes the count in `EventsReachTheUser` inductive: reading and
showing a report move a copy from one of the three places to the next, and only
a repetition (`dups`) adds one.

**`DiscoverProofs`**, for any interfaces, answers and channel capacity:
`DiscoverTypeCorrect`, `OneDeviceTheorem` and `InTimeTheorem`. `DiscoverInv` says
that whatever is stored anywhere was heard in this call (`ConsInv`), and where an
answer stored in time is to be found at each place of the caller: in the
goroutine's map, among the devices still to be copied, or in the map of all
devices, unless another answer of its host took its place (`InTimeInv`).
`WithinStore` is the step that matters: a store takes a device away only for
another answer of its host.

**`CertManagerProofs`**, for any processes, ids, operations, crashes and failed
writes: `CertTypeCorrect` without condition; `ChainTheorem` and the refinement
`CertManagerImplementsAuthority` under `Serial`: the CA was there from the
start, or a single process uses the directory. `CertsChainToCa` is not
inductive, for it says nothing of the key a process holds in memory or of a
certificate it is about to write; `ChainInv` adds both (`InStep`), and that a
process founds a CA only while no whole CA key exists and alone. Under `Serial`
every write of a file is then `Establish`, `Issue`, `Withdraw` or invisible
(`FileStep`). `Serial` is needed: see the bootstrap race in section 5.

The second part of the module is about the files of a user, under `Serial` and
`OwnUsers` (no two processes create the same user, and no id is both a user and
a device; two `CreateUser` of one id at a time may leave the key of one next to
the certificate of the other). Of the readers nothing is assumed: any process
reads any id at any time. `PairTheorem` says when a pair that was read may
disagree, and `CreatedTheorem` how long a created user stays retrievable, both
for any crashes and failed writes. The properties speak of files, while what
decides is what an operation has still to write: `PlanInv` says that for each
place, `FoundInv` ties the CA's three files to what their founder holds, and
`UserInv` says that the files of a user agree unless its owner is rewriting them
or was cut short there (`rewrite`). What a reader holds between its two reads is
in no invariant, as another process may have made it stale: if the key it has is
still the one in the file, `UserInv` of the user's owner gives the certificate;
and a key that was read is a user's (`KeysAreUsers`).

**`TlvProofs`**, for every base of at least 2 (256 in the code), all integers
and tags, all octet strings that fit the long form, any number of items and any
depth: `TlvTheorem` (`TlvSpec => []DecodesWhatWasWritten`). The argument has three
layers:

* `Induction` over the natural numbers is stated for sets, which the provers can
  instantiate, and follows from counting (an injection of a finite set into a
  smaller one). From it the recursive definitions `Power`, `Number` and `Decoded`
  get their equations; for `decode` that means that it looks only at later
  positions, so that it ends (`DecodedEquation`).
* Bytes: what `LittleEndian` cuts a number to, `Number` reads back
  (`NumberReadsBack`), and an element that was written is read as its item
  wherever it stands in a buffer, and reading goes on behind it (`UIntReadsBack`,
  `BoolReadsBack`, `OctetsReadBack`, `ContainerReads`).
* Nesting: `DecodesWhatWasWritten` speaks of a finished buffer, and an unfinished
  one decodes to something else, as `decode` accepts missing ends. `TlvInv` says
  instead that for *every* continuation of the buffer, `decode` reads what the
  open containers hold so far, each inside the one before it, followed by what it
  reads in the continuation. A call of the writer is a choice of continuation
  (`PutKeeps`, `OpenKeeps`, `EndKeeps`); with nothing open the continuation is
  empty and the property follows (`TlvInvReads`). TLC cannot enumerate the
  continuations, so `TlvInv` itself is in no run; what it implies is.

**`CodecProofs`** builds on these lemmas. `QrTheorem` and `ManualTheorem`
(`OnboardingSpec => []QrRoundTrip`, `=> []ManualCodeAgreesWithQr`) hold for every
payload whose fields fit their widths (`PayloadAssumption`, which is what a label
can say), where the run checks payloads at the limits. The QR code goes through
three numberings of the same bits: a field is some bits at its place in 88
(`PayloadFields`), 24 or 16 bits are one number that five or four characters hold
because 2^24 < 38^5 and 2^16 < 38^4 (`CharactersMakeBits`, `SliceCharacters`), and
the decoder takes that number apart into bytes and the bytes into bits
(`BitOfByte`, `TextBits`); digits of a number it has room for determine it
(`ValueOfDigits`), so each field is read as it was (`FieldRead`). For the manual
code `CodeNormalized` shows that dropping the dashes restores the digits,
`ManualGroups` where the three groups stand among them for either length, and
`GroupBounds` that no group overflows its digits and what the decoder combines
from them.

`TranscriptTheorem` (`CredentialSpec => []TranscriptsAgree`) is
for scalars of any length and any set of exchanges. Every part of a transcript
stands behind its length in eight bytes, so it is found again whatever is written
behind it (`PartReadsBack`), and ten times so (`PartsReadBack`). What is left is
W0: scalars of one length keep their bytes for themselves when leading zeros are
dropped (`BigIntBytesInjective`) and lose none exactly when the first byte is not
zero (`BigIntBytesFull`). The assumption that a part has fewer than `Power[8]`
bytes is what eight bytes of length can say.

`SealTheorem` (`CcmSpec => []SealConforms`) says that `Seal` writes what RFC 3610
defines and that `Open` returns the plaintext, for every text, header, nonce and
tag size that `NewCCM` and `PacketAssumption` admit (texts up to `MaxLength`,
headers up to the 65279 bytes whose length takes two bytes). Its one hypothesis,
`CipherOnBlocks`, says that the cipher takes 16 bytes to 16 bytes, which `NewCCM`
asks of it; that it can be inverted is not needed. The code and the RFC differ in
how they go through the data: the code runs over header and text one after the
other, each from the mac it has so far, and cuts the header at its fourteenth
byte; the RFC numbers the blocks of one padded string. `Layout` says which block
of that string is which block of the code (`AdditionalBlocks` for the cut,
`PaddedBlocks` for the zeros), `CbcFollows` that `cbcData` goes on where a table
of macs stands, and `MacIsLast` puts both together. The way back needs that the
exclusive or with the same byte twice is the byte (`XorTwice`, by the bits of both).

**`MessageProofs`** is about whole datagrams: `RequestsTheorem` and
`AnswersTheorem` (`MessageSpec => []RequestsReadBack`, `=> []AnswersReadBack`) hold
for every base, any set of requests with any number of command fields, and any
set of answers. `MessageAssumption` says only that numbers fit the fields they
are written to, that node ids have the sizes a header knows and that octet
strings fit the long form; flags, codes and octets are arbitrary. Where the
proof of `TlvTheorem` follows a writer call by call, a message is one
concatenation, so here the argument is by composition:

* `Lists(e, l)` says that the bytes `e` are read as the items `l` wherever they
  stand and whatever follows. It holds of one element (`ListsUInt`,
  `ListsOctets`, ...), of two parts one behind the other (`ListsJoin`), of any
  number of command fields (`ListsJoined`, by induction over their number), of
  what a container holds (`ListsContainer`) and of a whole buffer
  (`ListsDecode`); so what a message is read as follows its encoder line by line.
* A lookup needs of a list only whether it has an item with the tag: `Offers`
  and `Lacks` say so for a list put together from items, and a path of tags is
  walked level by level. That no lookup takes a status for a command's fields
  or the other way round is then a matter of which level lacks which tag.
  An answer says separately whether it has a cluster status and which, so the
  failure with cluster status 0 is among them, and `AnswersReadBack` says that
  `ParseImInvokeResponse` returns 0 for it as for a success.
* Headers are fixed places whose number depends on the flags. `ParseReads` shows
  that `Receive` cuts a datagram at the place where the header ended, for each
  of the forms of node ids and with or without a piggybacked ack.

`CertificateTheorem` (`CredentialSpec => []CertificateReadsBack`) says, for every
set of certificates, *exactly* when a device restores what was signed, so both
directions need an argument. A certificate is read as eleven items whose tags
count them (`CertificateItems`, `NumberedChild`), one of which holds the
extensions with or without key usages (`ExtensionReads`). Each field then has a
condition of its own: a name is a list of items that a reader can always take for
attributes (`Readable`) and that is the name if every attribute could be
converted (`NameReads`, by induction over the name; `NameRestored`); a date, cut
to four bytes before or after `Epoch` is taken off, comes back when it lies in the
136 years after it (`DateRestored`, `LateDateRestored`); two scalars without their
leading zeros are as long as two scalars only if neither had one
(`SignatureRestored`). `CredentialAssumption` says that scalars are `Size` bytes,
that two of them and the octet strings fit the long form, that attributes have 64
bits; dates, key usages and types of attributes are arbitrary.

Only model-checked:

* liveness (`EveryCallReturns`, `CommandsEnd`, `DiscoverEnds`, `GoroutinesEnd`):
  liveness under fairness and ENABLED are outside what TLAPS with its present
  backends proves;
* `OpenRefusesChanges`: whether a changed datagram is refused depends on the
  cipher (one that always returns the same block refuses little), so no theorem
  about every cipher says this; the run shows with one cipher that no byte of
  datagram, header or nonce is left out of the tag.

## 5. Known divergences and limits

* A failed key exchange inside `Commission` loses the socket (`src/flows.go:176`):
  the deferred `Close` sees an empty channel, though `src/securechannel.go:189`
  says that it closes the session and the connection. The port stays bound until the
  finalizer runs or the process ends; `PortHeldOnlyAfterFailedExchange` says that
  this is the only way.
* `Counter` wraps after 2^32 datagrams and the nonce repeats under the same key,
  although `src/ccm/ccm.go:169-170` asks for a nonce "unique for all time". The
  theorem states how far uniqueness reaches.
* `Commission` logs a refused `CommissioningComplete` and still returns nil
  (`src/flows.go:267`), so `CommissionNilMeansOnboarded` promises only that the
  device handled it.
* Two processes that bootstrap at the same time may leave a key and a
  certificate that do not match (`src/certmanagerfile.go:194`); `CreateUser` then
  ignores the signing error and returns nil without a certificate
  (`src/certmanagerfile.go:91`). With `CaPresent = FALSE` and two processes
  `CreatedUserIsRetrievable` fails.
* Leading zeros are lost where a fixed length is meant: R and S of a certificate
  (`src/matter-cert.go:100`) and of Sigma3 (`src/sigma.go:116`), W0 in the PASE
  transcript (`src/spake2p.go:101`) and in the verifier of `open_commissioning`
  (`src/demo/main.go:287`). `CertificateReadsBack`, `TranscriptsAgree` and
  `WindowReportedTruly` say exactly when.
* `subscribe` treats every error of `Receive` as a timeout
  (`src/demo/main.go:371`), so it listens on after the device closed the session.
* `ParseImInvokeResponse` returns -1 for a failing status without cluster status,
  which `src/messages.go:436` reserves for a failed parse, and 0, documented as
  success (`src/messages.go:435`), for a failing status whose cluster status is 0.
  `AnswersReadBack` states both; `window_refused` shows what the second does to
  `open_commissioning`. In `Commission` it would pass for an accepted root
  certificate (`src/flows.go:213`), which the conforming device of `Flows`
  excludes.
* A call waits as long as standalone acks keep coming: `Receive` calls itself
  after each and sets a new deadline (`src/securechannel.go:128`, line 81), and
  no call has a deadline of its own. `EveryCallReturns` says that this is the
  only way.
* `SigmaExchange` reads the controller's key and certificate one after the other
  without a lock (`src/flows.go:123-127`): a `CreateUser` of that id in another
  process between the two reads gives a pair that does not match, and the device
  refuses Sigma3. `PairMismatchNeedsRewrite` lists the ways.
* `SignCertificate` stores a device's certificate before AddNOC is confirmed
  (`src/flows.go:219`); a later failure leaves the file behind.
* `Load` and `GetPrivkey` panic on a torn file (`src/certmanagerfile.go:318-319`)
  instead of returning an error.
* `Discover2` tests `AddrV6` where it means `AddrV4` (`src/discover/discover.go:135`).
* Signed TLV integers of several bytes read as 0 (`src/mattertlv/tlvdec.go:210`).

## 6. What is not modelled, and why

* Curve arithmetic and hashes (`spake2p.go`, `sigma.go`, `fabric.go`, `util.go`):
  only what the two ends must agree on is modelled.
* In `ccm.go`, additional data of more than 65279 bytes (longer than a
  datagram), `sliceForAppend` and `MaxNonceLength` (memory and limits no caller
  meets).
* The DER form of certificates: `crypto/x509` reads and writes it.
* TXT fields of discovered devices, logging, printing and command line flags:
  no property depends on them.
* `symbols/`: generated tables and the batch program that generates them.

## 7. Plan

In place: the channel; the flows and the demo's commands on top; the directory;
discovery; the byte formats; proofs of the safety of all of these. What would
add most next:

1. The abstract service a subscription gives (each event confirmed after it was
   shown) as a specification `Interaction` implements; `EventInv` has what the
   refinement needs.
2. How far `PairTheorem` reaches when two processes create the same user:
   which files may then disagree, and that a further `CreateUser` repairs them.

Modules meant for proofs use no RECURSIVE operators; parameters are constants
with named assumptions, actions one per operation, invariants conjunctions of
named parts.

## 8. Running

    tlc -config MCFlows_commission.cfg MCFlows
    tlc -config MCInteraction.cfg MCInteraction
    tlapm SecureChannelProofs.tla
    tlapm FlowsProofs.tla
    tlapm InteractionProofs.tla
    tlapm DiscoverProofs.tla
    tlapm CertManagerProofs.tla
    tlapm TlvProofs.tla
    tlapm CodecProofs.tla
    tlapm MessageProofs.tla

`CHECK_DEADLOCK FALSE` is set where the system really stops: a bounded number of
calls, operations or datagrams has been used up.
