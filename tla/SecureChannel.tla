---------------------------- MODULE SecureChannel ----------------------------
(***************************************************************************)
(* The UDP message channel of gomat (securechannel.go, ackGen in           *)
(* messages.go) and the three places in flows.go that change its keys.     *)
(*                                                                         *)
(* One controller process owns at most one socket, on the fixed local port *)
(* 55555, and at most one live SecureChannel value `sc`.  The peer (a      *)
(* Matter device) is external.  The network may lose, delay, reorder and   *)
(* duplicate what the peer sends: a datagram in `net` may be read now,     *)
(* later, never, or (MaxDups times) again.                                 *)
(*                                                                         *)
(* Payloads are abstract.  A protocol message keeps the fields the code    *)
(* decides on: opcode, whether ProtocolId is the secure channel's (`sec`), *)
(* the initiator flag, the exchange, the counter an ack refers to, and an  *)
(* abstract body.  A datagram is a message sealed under a key, or in the   *)
(* clear when its key is NoKey.  encrypt_key and decrypt_key (and the two  *)
(* node ids that enter the nonce) are always set together from one key     *)
(* exchange, so one value `key` stands for the four of them.               *)
(***************************************************************************)
EXTENDS Integers, Sequences, FiniteSets

CONSTANTS
    Keys,        \* key material of sessions; a key exchange yields a fresh one
    NoKey,       \* empty encrypt_key/decrypt_key: plain communication
    MaxCounter,  \* largest value of the message counter (2^32 - 1 in the code)
    ClientMsgs,  \* protocol messages callers hand to Send
    PeerMsgs,    \* protocol messages the peer may send
    Garbled,     \* what a ciphertext may look like when it is read as plain text
    MaxSent,     \* bound: datagrams written by the controller
    MaxPeer,     \* bound: datagrams written by the peer
    MaxDups      \* bound: datagrams the network delivers a second time

(* The channel's constants.  Counters wrap at MaxCounter + 1; a session    *)
(* key is never the empty key.                                             *)
ASSUME ChannelAssumption ==
    /\ MaxCounter \in Nat \ {0}
    /\ NoKey \notin Keys
    /\ MaxSent \in Nat /\ MaxPeer \in Nat /\ MaxDups \in Nat

VARIABLES
    sc,      \* the SecureChannel value of the caller
    port,    \* local UDP port 55555: "free" or "bound" to a socket of the process
    sent,    \* history: datagrams written to the socket, in order
    got,     \* history: datagrams that Receive accepted and acknowledged, in order
    used,    \* session keys installed so far
    net,     \* datagrams on their way from the peer to the controller
    pctr,    \* the peer's message counter
    dups,    \* how many datagrams were delivered twice
    ret      \* what Receive returned, until the caller's next call

chanVars == <<sc, port, sent, got, used, net, pctr, dups, ret>>

-----------------------------------------------------------------------------
(* Values *)

KeyOrNone == Keys \cup {NoKey}

(* SecureChannel{}: what every error path of flows.go returns *)
NilChannel == [Udp |-> FALSE, key |-> NoKey, Counter |-> 0, session |-> NoKey]

(* A channel over an open socket, without keys: session id 0 *)
PlainChannel(c) == [Udp |-> TRUE, key |-> NoKey, Counter |-> c, session |-> NoKey]

NoMsg == [op |-> "none", sec |-> TRUE, ini |-> FALSE, ex |-> <<0, "none">>, body |-> "none", ack |-> 0]

NoRet == [st |-> "none", msg |-> NoMsg]
ErrRet == [st |-> "err", msg |-> NoMsg]
OkRet(m) == [st |-> "ok", msg |-> m]
PanicRet == [st |-> "panic", msg |-> NoMsg]

(* ackGen: a standalone ack in the exchange of the message it answers,     *)
(* with the initiator flag toggled, carrying the counter it acknowledges.  *)
ackGen(m, ctr) ==
    [op |-> "ack", sec |-> TRUE, ini |-> ~m.ini, ex |-> m.ex, body |-> "none", ack |-> ctr]

(* EncodeStatusReport as Close uses it: general code 0, protocol code 3 *)
CloseReport ==
    [op |-> "status", sec |-> TRUE, ini |-> TRUE, ex |-> <<0, "close">>, body |-> "close", ack |-> 0]

(* mattertlv.Decode may panic on bytes that are not TLV; Receive only      *)
(* calls it on the payload of messages that are not status reports.        *)
IsStatusReport(m) == m.sec /\ m.op = "status"
IsAck(m) == m.sec /\ m.op = "ack"
MayPanic(m) == m.body = "junk" /\ ~IsStatusReport(m)

(* Only Receive makes acks: ackGen is not exported, and no other encoder   *)
(* of the library writes a standalone ack.                                 *)
ASSUME CallerAssumption == \A m \in ClientMsgs : ~IsAck(m)

-----------------------------------------------------------------------------
(* Send *)

(* sc.Counter = sc.Counter + 1 on a uint32 *)
Inc(c) == IF c = MaxCounter THEN 0 ELSE c + 1

Datagram(c, m) == [key |-> c.key, ctr |-> Inc(c.Counter), session |-> c.session, msg |-> m]

(* Mutant of Bump: Send has a value receiver, the new Counter is lost *)
BumpCopy(c) == c

Bump(c) == [c EXCEPT !.Counter = Inc(@)]

(* What the socket carries after Send(m) on channel c: nothing more when   *)
(* the socket is closed (WriteTo fails; every caller ignores the error).   *)
Written(c, m) == IF port = "bound" THEN Append(sent, Datagram(c, m)) ELSE sent

(* The Counter advances whether or not the datagram can be written. *)
Send(m) ==
    /\ sc.Udp
    /\ Len(sent) < MaxSent
    /\ sc' = Bump(sc)
    /\ sent' = Written(sc, m)
    /\ ret' = NoRet
    /\ UNCHANGED <<port, got, used, net, pctr, dups>>

-----------------------------------------------------------------------------
(* Receive *)

(* Blocked in ReadFrom: the socket is open and the channel has it *)
Reading == sc.Udp /\ port = "bound"

(* The network hands over datagram d, and may keep a second copy of it *)
Deliver(d) ==
    \/ net' = net \ {d} /\ dups' = dups
    \/ dups < MaxDups /\ net' = net /\ dups' = dups + 1

(* Mutant of Opened: bytes that do not open under the session key are      *)
(* parsed as plain text.                                                   *)
OpenedFallThrough(d) ==
    IF d.key = sc.key \/ d.key = NoKey THEN {d.msg} ELSE Garbled

(* What Receive can make of datagram d: with keys installed only what was  *)
(* sealed under the same key opens; without keys the bytes are parsed as   *)
(* they are, so a sealed datagram becomes some garbled message.            *)
Opened(d) ==
    IF d.key = sc.key THEN {d.msg} ELSE IF sc.key = NoKey THEN Garbled ELSE {}

(* Mutant of ReceiveTimeout: no deadline is set *)
ReceiveNoDeadline ==
    /\ sc.Udp /\ port = "free"
    /\ ret' = ErrRet
    /\ UNCHANGED <<sc, port, sent, got, used, net, pctr, dups>>

(* ReadFrom fails: the 3 s deadline passed, or the socket is closed *)
ReceiveTimeout ==
    /\ sc.Udp
    /\ ret' = ErrRet
    /\ UNCHANGED <<sc, port, sent, got, used, net, pctr, dups>>

(* ccm.Open fails: Receive gives up on the first datagram it cannot open *)
ReceiveUnopenable(d) ==
    /\ Reading
    /\ d \in net
    /\ Opened(d) = {}
    /\ Deliver(d)
    /\ ret' = ErrRet
    /\ UNCHANGED <<sc, port, sent, got, used, pctr>>

(* A standalone ack is skipped: Receive calls itself, with a new deadline *)
ReceiveAck(d) ==
    /\ Reading
    /\ d \in net
    /\ \E m \in Opened(d) : IsAck(m)
    /\ Deliver(d)
    /\ ret' = NoRet
    /\ UNCHANGED <<sc, port, sent, got, used, pctr>>

(* Mutant of Accept: the message is returned without an ack *)
AcceptWithoutAck(d, m) ==
    /\ sc' = sc
    /\ sent' = sent
    /\ got' = Append(got, d)

(* Every other message is acknowledged at once, under the channel's keys, *)
(* before its payload is looked at.                                       *)
Accept(d, m) ==
    /\ sc' = Bump(sc)
    /\ sent' = Written(sc, ackGen(m, d.ctr))
    /\ got' = Append(got, d)

(* ... and returned to the caller *)
ReceiveMessage(d) ==
    /\ Reading
    /\ d \in net
    /\ Len(sent) < MaxSent
    /\ \E m \in Opened(d) :
         /\ ~IsAck(m)
         /\ Accept(d, m)
         /\ ret' = OkRet(m)
    /\ Deliver(d)
    /\ UNCHANGED <<port, used, pctr>>

(* ... unless decoding the payload panics, after the ack was sent *)
ReceivePanic(d) ==
    /\ Reading
    /\ d \in net
    /\ Len(sent) < MaxSent
    /\ \E m \in Opened(d) :
         /\ ~IsAck(m) /\ MayPanic(m)
         /\ Accept(d, m)
    /\ ret' = PanicRet
    /\ Deliver(d)
    /\ UNCHANGED <<port, used, pctr>>

-----------------------------------------------------------------------------
(* Opening and closing *)

(* startUdpChannel and a fresh plain channel.  The port must be free.      *)
(* StartSecureChannel and Spake2pExchange choose the first counter with    *)
(* rand.Intn(0xffffffff), which never yields the largest value.            *)
StartSecureChannel(c) ==
    /\ port = "free"
    /\ c \in 0 .. MaxCounter - 1
    /\ port' = "bound"
    /\ sc' = PlainChannel(c)
    /\ ret' = NoRet
    /\ UNCHANGED <<sent, got, used, net, pctr, dups>>

(* Mutant of Close: only the close report is sent *)
CloseSession ==
    /\ sc.Udp
    /\ Len(sent) < MaxSent
    /\ sc' = Bump(sc)
    /\ sent' = Written(sc, CloseReport)
    /\ ret' = NoRet
    /\ UNCHANGED <<port, got, used, net, pctr, dups>>

(* Close: does nothing on SecureChannel{}; otherwise a close report, then  *)
(* the socket is closed.  The value keeps its Udp pointer.                 *)
Close ==
    /\ sc.Udp
    /\ Len(sent) < MaxSent
    /\ sc' = Bump(sc)
    /\ sent' = Written(sc, CloseReport)
    /\ port' = "free"
    /\ ret' = NoRet
    /\ UNCHANGED <<got, used, net, pctr, dups>>

(* The process ends (return from main, log.Fatal, panic, crash): the       *)
(* operating system closes the socket.                                     *)
Exit ==
    /\ port' = "free"
    /\ sc' = NilChannel
    /\ ret' = NoRet
    /\ UNCHANGED <<sent, got, used, net, pctr, dups>>

(* The Go runtime may close a socket that is no longer reachable *)
Finalize ==
    /\ port = "bound" /\ ~sc.Udp
    /\ port' = "free"
    /\ UNCHANGED <<sc, sent, got, used, net, pctr, dups, ret>>

-----------------------------------------------------------------------------
(* Key changes made by flows.go *)

(* End of Spake2pExchange: a new SecureChannel value with Counter 0.  A    *)
(* PASE key exchange yields a key no earlier exchange had.                 *)
InstallPase(k) ==
    /\ sc.Udp /\ port = "bound"
    /\ k \in Keys \ used
    /\ used' = used \cup {k}
    /\ sc' = [Udp |-> TRUE, key |-> k, Counter |-> 0, session |-> k]
    /\ ret' = NoRet
    /\ UNCHANGED <<port, sent, got, net, pctr, dups>>

(* Mutant of InstallCase: the session id of the new keys is not taken over *)
InstallCaseOldSession(k) ==
    /\ sc.Udp /\ port = "bound"
    /\ k \in Keys \ used
    /\ used' = used \cup {k}
    /\ sc' = [sc EXCEPT !.key = k]
    /\ ret' = NoRet
    /\ UNCHANGED <<port, sent, got, net, pctr, dups>>

(* End of SigmaExchange: new keys, the Counter runs on *)
InstallCase(k) ==
    /\ sc.Udp /\ port = "bound"
    /\ k \in Keys \ used
    /\ used' = used \cup {k}
    /\ sc' = [sc EXCEPT !.key = k, !.session = k]
    /\ ret' = NoRet
    /\ UNCHANGED <<port, sent, got, net, pctr, dups>>

(* Mutant of Cleared: the session id of the old session stays in the value *)
ClearedKeepsSession(c) == [c EXCEPT !.key = NoKey]

(* Commission drops the PASE keys before it starts SigmaExchange *)
Cleared(c) == [c EXCEPT !.key = NoKey, !.session = NoKey]

(* Mutant of ClearKeysAndSend: the keys are dropped after the send *)
SendAndClearKeys(m) ==
    /\ sc.Udp /\ sc.key # NoKey
    /\ Len(sent) < MaxSent
    /\ sc' = Cleared(Bump(sc))
    /\ sent' = Written(sc, m)
    /\ ret' = NoRet
    /\ UNCHANGED <<port, got, used, net, pctr, dups>>

(* ... and the first message of the exchange is sent on the plain channel *)
ClearKeysAndSend(m) ==
    /\ sc.Udp /\ sc.key # NoKey
    /\ Len(sent) < MaxSent
    /\ sc' = Bump(Cleared(sc))
    /\ sent' = Written(Cleared(sc), m)
    /\ ret' = NoRet
    /\ UNCHANGED <<port, got, used, net, pctr, dups>>

(* An error in an exchange: the caller's channel becomes SecureChannel{}, *)
(* the socket stays open.                                                 *)
Drop ==
    /\ sc.Udp
    /\ sc' = NilChannel
    /\ ret' = NoRet
    /\ UNCHANGED <<port, sent, got, used, net, pctr, dups>>

-----------------------------------------------------------------------------
(* The peer (external): sends in the clear or under a key of a session *)

PeerSend(k, m) ==
    /\ pctr < MaxPeer
    /\ k \in used \cup {NoKey}
    /\ pctr' = pctr + 1
    /\ net' = net \cup {[key |-> k, ctr |-> pctr', msg |-> m]}
    /\ UNCHANGED <<sc, port, sent, got, used, dups, ret>>

-----------------------------------------------------------------------------
ChannelInit ==
    /\ sc = NilChannel
    /\ port = "free"
    /\ sent = <<>>
    /\ got = <<>>
    /\ used = {}
    /\ net = {}
    /\ pctr = 0
    /\ dups = 0
    /\ ret = NoRet

ReceiveStep ==
    \/ ReceiveTimeout
    \/ \E d \in net :
         \/ ReceiveUnopenable(d)
         \/ ReceiveAck(d)
         \/ ReceiveMessage(d)
         \/ ReceivePanic(d)

ChannelNext ==
    \/ \E c \in 0 .. MaxCounter - 1 : StartSecureChannel(c)
    \/ \E m \in ClientMsgs : Send(m) \/ ClearKeysAndSend(m)
    \/ ReceiveStep
    \/ \E k \in Keys : InstallPase(k) \/ InstallCase(k)
    \/ Drop
    \/ Close
    \/ Exit
    \/ Finalize
    \/ \E k \in KeyOrNone, m \in PeerMsgs : PeerSend(k, m)

ChannelSpec == ChannelInit /\ [][ChannelNext]_chanVars

-----------------------------------------------------------------------------
(* Properties *)

(* What Receive may make of the peer's datagrams, and what Send may carry *)
PeerDatagrams == [key : KeyOrNone, ctr : 1 .. MaxPeer, msg : PeerMsgs]
Acks == {ackGen(m, c) : m \in PeerMsgs \cup Garbled, c \in 1 .. MaxPeer}
WireMsgs == ClientMsgs \cup {CloseReport} \cup Acks

(* Type correctness of the channel's state: the Counter stays a counter    *)
(* value through every wrap, keys come from key exchanges, and whatever    *)
(* the socket carries is a caller's message, an ack of something the peer  *)
(* sent, or the close report.                                              *)
ChannelTypeOK ==
    /\ sc \in [Udp : BOOLEAN, key : KeyOrNone, Counter : 0 .. MaxCounter, session : KeyOrNone]
    /\ port \in {"free", "bound"}
    /\ sent \in Seq([key : KeyOrNone, ctr : 0 .. MaxCounter, session : KeyOrNone, msg : WireMsgs])
    /\ got \in Seq(PeerDatagrams)
    /\ used \subseteq Keys
    /\ net \subseteq PeerDatagrams
    /\ pctr \in 0 .. MaxPeer
    /\ dups \in 0 .. MaxDups
    /\ ret \in [st : {"none", "err", "ok", "panic"}, msg : PeerMsgs \cup Garbled \cup {NoMsg}]

(* Two datagrams sealed under the same key carry the same counter (hence   *)
(* the same nonce, make_nonce3) only when the uint32 Counter went full     *)
(* circle between them: no key change, restart, dropped channel or ack     *)
(* sent in between makes Send repeat a nonce earlier.                      *)
NonceReuseOnlyAfterFullCircle ==
    \A i, j \in 1 .. Len(sent) :
        /\ i < j
        /\ sent[i].key # NoKey
        /\ sent[i].key = sent[j].key
        /\ sent[i].ctr = sent[j].ctr
        => j - i > MaxCounter

(* The counter value d increments after c, for d below the modulus *)
Advance(c, d) == IF c + d <= MaxCounter THEN c + d ELSE c + d - (MaxCounter + 1)

(* The channel's session id belongs to its keys *)
SessionMatchesKey == sc.session = sc.key

(* Only installed keys are in use: a fresh key seals nothing sent before *)
KeysInstalled ==
    /\ sc.key \in used \cup {NoKey}
    /\ \A i \in 1 .. Len(sent) : sent[i].key \in used \cup {NoKey}

(* While the socket is open, the Counter is as far ahead of a datagram of  *)
(* the current session as datagrams were written since.                    *)
CounterTracksSession ==
    port = "bound" /\ sc.key # NoKey =>
        \A i \in 1 .. Len(sent) :
            sent[i].key = sc.key /\ Len(sent) - i <= MaxCounter =>
                sc.Counter = Advance(sent[i].ctr, Len(sent) - i)

(* Datagrams of one session carry consecutive counters *)
ConsecutiveInSession ==
    \A i, j \in 1 .. Len(sent) :
        i < j /\ j - i <= MaxCounter /\ sent[i].key # NoKey /\ sent[i].key = sent[j].key =>
            sent[j].ctr = Advance(sent[i].ctr, j - i)

(* How many of the first n datagrams on the wire are acks *)
AcksAmong(n) == Cardinality({i \in 1 .. n : IsAck(sent[i].msg)})

(* Receive acknowledges exactly the datagrams it accepts, in the order it  *)
(* accepted them: the i-th ack on the wire names the counter of the i-th   *)
(* accepted datagram and leaves under that datagram's key, or in the clear *)
(* when a late sealed datagram was read after the keys were dropped.       *)
(* Acks themselves are never acknowledged, so two ends never ping-pong.    *)
AcksAnswerAcceptedDatagrams ==
    /\ AcksAmong(Len(sent)) = Len(got)
    /\ \A j \in 1 .. Len(sent) :
         IsAck(sent[j].msg) =>
            LET d == got[AcksAmong(j)] IN
              /\ sent[j].msg.ack = d.ctr
              /\ sent[j].key \in {d.key, NoKey}
              /\ d.key = NoKey => ~IsAck(d.msg) /\ sent[j].msg.ex = d.msg.ex

(* The session id in the header always belongs to the keys the datagram is *)
(* sealed under: a datagram in the clear has session id 0, so the peer     *)
(* never looks up a session for bytes that are not sealed for it.          *)
HeaderSessionMatchesKey ==
    \A i \in 1 .. Len(sent) : sent[i].session = sent[i].key

(* Receive on a keyed channel never returns, and never acknowledges, what  *)
(* belongs to an earlier session or was not sealed at all, however late it *)
(* arrives: every datagram accepted by a step had the key in force.        *)
KeyedReceiveIsCurrentSession ==
    [][ Len(got') > Len(got) /\ sc.key # NoKey
          => got'[Len(got')].key = sc.key ]_chanVars

(* The inductive invariant of the channel: what makes nonces unique until  *)
(* the Counter is full circle is that Send and Receive's ack advance it by *)
(* exactly one per datagram, that a key change never brings back a key,    *)
(* and that a closed socket never opens again under the same keys.         *)
ChannelInv ==
    /\ ChannelTypeOK
    /\ SessionMatchesKey
    /\ HeaderSessionMatchesKey
    /\ KeysInstalled
    /\ CounterTracksSession
    /\ ConsecutiveInSession
=============================================================================
