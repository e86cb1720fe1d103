------------------------- MODULE SecureChannelProofs -------------------------
(***************************************************************************)
(* Proofs about SecureChannel, for every value of its constants:           *)
(*                                                                         *)
(*   - type correctness;                                                   *)
(*   - a nonce is repeated under a key only after the Counter went full    *)
(*     circle;                                                             *)
(*   - the session id in a header belongs to the key of the datagram;      *)
(*   - a keyed channel accepts nothing but datagrams of its session;       *)
(*   - the acks on the wire answer the accepted datagrams one by one.      *)
(*                                                                         *)
(* The first three follow from the inductive invariant ChannelInv.  Every  *)
(* step either writes one datagram with the next counter (WriteStep) or    *)
(* leaves what was written alone (QuietStep).                              *)
(***************************************************************************)
EXTENDS SecureChannel, FiniteSetTheorems, TLAPS

Sealed == [key : KeyOrNone, ctr : 0 .. MaxCounter, session : KeyOrNone, msg : WireMsgs]
Channels == [Udp : BOOLEAN, key : KeyOrNone, Counter : 0 .. MaxCounter, session : KeyOrNone]
Returns == [st : {"none", "err", "ok", "panic"}, msg : PeerMsgs \cup Garbled \cup {NoMsg}]

(* The part of ChannelInv that is about what was written *)
WrittenInv ==
    /\ sc \in Channels
    /\ sent \in Seq(Sealed)
    /\ SessionMatchesKey
    /\ HeaderSessionMatchesKey
    /\ KeysInstalled
    /\ CounterTracksSession
    /\ ConsecutiveInSession

(* The part that is about everything else *)
EnvInv ==
    /\ port \in {"free", "bound"}
    /\ got \in Seq(PeerDatagrams)
    /\ used \subseteq Keys
    /\ net \subseteq PeerDatagrams
    /\ pctr \in 0 .. MaxPeer
    /\ dups \in 0 .. MaxDups
    /\ ret \in Returns

LEMMA InvParts == ChannelInv <=> WrittenInv /\ EnvInv
BY DEF ChannelInv, ChannelTypeOK, WrittenInv, EnvInv, Sealed, Channels, Returns

-----------------------------------------------------------------------------
(* The counter *)

LEMMA IncType ==
    ASSUME NEW c \in 0 .. MaxCounter
    PROVE  Inc(c) \in 0 .. MaxCounter
BY ChannelAssumption DEF Inc

LEMMA AdvanceZero ==
    ASSUME NEW c \in 0 .. MaxCounter
    PROVE  Advance(c, 0) = c
BY ChannelAssumption DEF Advance

LEMMA AdvanceInc ==
    ASSUME NEW c \in 0 .. MaxCounter, NEW d \in Nat, d < MaxCounter
    PROVE  Inc(Advance(c, d)) = Advance(c, d + 1)
BY ChannelAssumption DEF Advance, Inc

LEMMA AdvanceMoves ==
    ASSUME NEW c \in 0 .. MaxCounter, NEW d \in 1 .. MaxCounter
    PROVE  Advance(c, d) # c
BY ChannelAssumption DEF Advance

-----------------------------------------------------------------------------
(* Steps that write one datagram *)

(* c is the channel value that sends: sc itself, or sc with its keys       *)
(* dropped.                                                                *)
LEMMA WriteStep ==
    ASSUME ChannelInv,
           NEW c \in Channels, NEW m \in WireMsgs,
           c.Counter = sc.Counter,
           c.key \in {sc.key, NoKey},
           c.session = c.key,
           sc' = Bump(c),
           sent' = Written(c, m),
           used' = used,
           port' \in {port, "free"}
    PROVE  WrittenInv'
<1> DEFINE n == Len(sent)
           d == Datagram(c, m)
<1>1. /\ sc \in Channels /\ sent \in Seq(Sealed) /\ n \in Nat
      /\ port \in {"free", "bound"}
      /\ \A i \in 1 .. n : sent[i] \in Sealed
  BY InvParts DEF WrittenInv, EnvInv
<1>2. /\ sc' \in Channels
      /\ sc'.key = c.key /\ sc'.session = c.session /\ sc'.Counter = Inc(sc.Counter)
  BY <1>1, IncType DEF Bump, Channels
<1>3. /\ d \in Sealed
      /\ d.key = c.key /\ d.session = c.key /\ d.ctr = Inc(sc.Counter)
  BY <1>1, IncType DEF Datagram, Sealed, Channels
<1>4. SessionMatchesKey'
  BY <1>2 DEF SessionMatchesKey
<1>5. CASE port = "free"
  <2>1. sent' = sent /\ port' = "free"
    BY <1>5 DEF Written
  <2>2. HeaderSessionMatchesKey' /\ KeysInstalled' /\ ConsecutiveInSession'
    BY <2>1, <1>2, InvParts
       DEF WrittenInv, HeaderSessionMatchesKey, KeysInstalled, ConsecutiveInSession
  <2>3. CounterTracksSession'
    BY <2>1 DEF CounterTracksSession
  <2> QED BY <1>1, <1>2, <1>4, <2>1, <2>2, <2>3 DEF WrittenInv
<1>6. CASE port = "bound"
  <2>1. /\ sent' = Append(sent, d)
        /\ sent' \in Seq(Sealed)
        /\ Len(sent') = n + 1
        /\ sent'[n + 1] = d
        /\ \A i \in 1 .. n : sent'[i] = sent[i]
    BY <1>1, <1>3, <1>6 DEF Written
  <2>2. HeaderSessionMatchesKey'
    <3> SUFFICES ASSUME NEW i \in 1 .. n + 1
                 PROVE  sent'[i].session = sent'[i].key
      BY <2>1 DEF HeaderSessionMatchesKey
    <3>1. CASE i = n + 1
      BY <3>1, <1>3, <2>1
    <3>2. CASE i # n + 1
      BY <3>2, <1>1, <2>1, InvParts DEF WrittenInv, HeaderSessionMatchesKey
    <3> QED BY <3>1, <3>2
  <2>3. KeysInstalled'
    <3>1. sc'.key \in used \cup {NoKey}
      BY <1>2, InvParts DEF WrittenInv, KeysInstalled
    <3>2. ASSUME NEW i \in 1 .. n + 1
          PROVE  sent'[i].key \in used \cup {NoKey}
      <4>1. CASE i = n + 1
        BY <4>1, <1>2, <1>3, <2>1, <3>1
      <4>2. CASE i # n + 1
        BY <4>2, <1>1, <2>1, InvParts DEF WrittenInv, KeysInstalled
      <4> QED BY <4>1, <4>2
    <3> QED BY <2>1, <3>1, <3>2 DEF KeysInstalled
  (* A datagram i of the running session is n - i counters behind sc *)
  <2>4. ASSUME NEW i \in 1 .. n, c.key # NoKey, sent[i].key = c.key,
               n + 1 - i <= MaxCounter
        PROVE  Inc(sc.Counter) = Advance(sent[i].ctr, n + 1 - i)
    <3>1. sc.key = c.key
      BY <2>4
    <3>2. sc.Counter = Advance(sent[i].ctr, n - i)
      BY <2>4, <3>1, <1>1, <1>6, ChannelAssumption, InvParts DEF WrittenInv, CounterTracksSession
    <3>3. n - i \in Nat /\ n - i < MaxCounter /\ sent[i].ctr \in 0 .. MaxCounter
      BY <2>4, <1>1, ChannelAssumption DEF Sealed
    <3>4. Inc(sc.Counter) = Advance(sent[i].ctr, (n - i) + 1)
      BY <3>2, <3>3, AdvanceInc
    <3>5. (n - i) + 1 = n + 1 - i
      BY <1>1
    <3> QED BY <3>4, <3>5
  <2>5. CounterTracksSession'
    <3> SUFFICES ASSUME sc'.key # NoKey, NEW i \in 1 .. n + 1,
                        sent'[i].key = sc'.key, n + 1 - i <= MaxCounter
                 PROVE  sc'.Counter = Advance(sent'[i].ctr, n + 1 - i)
      BY <2>1 DEF CounterTracksSession
    <3>1. CASE i = n + 1
      <4>1. n + 1 - i = 0
        BY <3>1, <1>1
      <4> QED BY <4>1, <3>1, <1>2, <1>3, <2>1, AdvanceZero DEF Channels
    <3>2. CASE i # n + 1
      BY <3>2, <1>1, <1>2, <2>1, <2>4
    <3> QED BY <3>1, <3>2
  <2>6. ConsecutiveInSession'
    <3> SUFFICES ASSUME NEW i \in 1 .. n + 1, NEW j \in 1 .. n + 1,
                        i < j, j - i <= MaxCounter,
                        sent'[i].key # NoKey, sent'[i].key = sent'[j].key
                 PROVE  sent'[j].ctr = Advance(sent'[i].ctr, j - i)
      BY <2>1 DEF ConsecutiveInSession
    <3>1. i \in 1 .. n /\ sent'[i] = sent[i]
      BY <1>1, <2>1
    <3>2. CASE j = n + 1
      BY <3>1, <3>2, <1>1, <1>3, <2>1, <2>4
    <3>3. CASE j # n + 1
      <4>1. j \in 1 .. n /\ sent'[j] = sent[j]
        BY <3>3, <1>1, <2>1
      <4> QED BY <3>1, <4>1, InvParts DEF WrittenInv, ConsecutiveInSession
    <3> QED BY <3>2, <3>3
  <2> QED BY <1>2, <1>4, <2>1, <2>2, <2>3, <2>5, <2>6 DEF WrittenInv
<1> QED BY <1>1, <1>5, <1>6

-----------------------------------------------------------------------------
(* Steps that write nothing *)

(* Either the channel value is unchanged (but perhaps the socket closes),  *)
(* or it has no keys, or its keys are fresh.                               *)
LEMMA QuietStep ==
    ASSUME ChannelInv,
           sent' = sent,
           sc' \in Channels,
           sc'.session = sc'.key,
           used \subseteq used',
           sc'.key \in used' \cup {NoKey},
           \/ sc' = sc /\ port' \in {port, "free"}
           \/ sc'.key = NoKey
           \/ sc'.key \notin used
    PROVE  WrittenInv'
<1>1. sent' \in Seq(Sealed) /\ SessionMatchesKey' /\ HeaderSessionMatchesKey' /\ ConsecutiveInSession'
  BY InvParts DEF WrittenInv, SessionMatchesKey, HeaderSessionMatchesKey, ConsecutiveInSession
<1>2. KeysInstalled'
  BY InvParts DEF WrittenInv, KeysInstalled
<1>3. CounterTracksSession'
  <2>1. CASE sc' = sc /\ port' \in {port, "free"}
    BY <2>1, InvParts DEF WrittenInv, CounterTracksSession
  <2>2. CASE sc'.key = NoKey
    BY <2>2 DEF CounterTracksSession
  <2>3. CASE sc'.key \notin used
    BY <2>3, InvParts DEF WrittenInv, KeysInstalled, CounterTracksSession
  <2> QED BY <2>1, <2>2, <2>3
<1> QED BY <1>1, <1>2, <1>3 DEF WrittenInv

-----------------------------------------------------------------------------
(* Receive *)

(* What is made of a datagram of the peer is a message it may send, or a   *)
(* garbled one, and its ack is a message Send may carry.                   *)
LEMMA OpenedType ==
    ASSUME ChannelInv, NEW d \in net, NEW m \in Opened(d)
    PROVE  /\ d \in PeerDatagrams
           /\ m \in PeerMsgs \cup Garbled
           /\ ackGen(m, d.ctr) \in WireMsgs
<1>1. d \in PeerDatagrams
  BY InvParts DEF EnvInv
<1>2. d.msg \in PeerMsgs /\ d.ctr \in 1 .. MaxPeer /\ d.key \in KeyOrNone
  BY <1>1 DEF PeerDatagrams
<1>3. sc.key \in KeyOrNone
  BY InvParts DEF WrittenInv, Channels
<1>4. m \in PeerMsgs \cup Garbled
  BY <1>2, <1>3 DEF Opened
<1>5. ackGen(m, d.ctr) \in Acks
  BY <1>2, <1>4 DEF Acks
<1> QED BY <1>1, <1>4, <1>5 DEF WireMsgs

LEMMA DeliverType ==
    ASSUME ChannelInv, NEW d, Deliver(d)
    PROVE  net' \subseteq PeerDatagrams /\ dups' \in 0 .. MaxDups
BY InvParts, ChannelAssumption DEF EnvInv, Deliver

LEMMA SelfSends ==
    ASSUME ChannelInv
    PROVE  sc \in Channels /\ sc.session = sc.key
BY InvParts DEF WrittenInv, SessionMatchesKey

LEMMA AcceptStep ==
    ASSUME ChannelInv, NEW d \in net, NEW m \in Opened(d), Accept(d, m),
           UNCHANGED <<port, used>>
    PROVE  WrittenInv' /\ got' \in Seq(PeerDatagrams)
<1>1. WrittenInv'
  BY OpenedType, SelfSends, WriteStep DEF Accept
<1>2. got' \in Seq(PeerDatagrams)
  BY OpenedType, InvParts DEF EnvInv, Accept
<1> QED BY <1>1, <1>2

LEMMA ReceiveStepInv ==
    ASSUME ChannelInv, ReceiveStep
    PROVE  ChannelInv'
<1> USE DEF Returns, NoRet, ErrRet, PanicRet
<1>1. CASE ReceiveTimeout
  <2>1. WrittenInv'
    BY <1>1, SelfSends, InvParts, QuietStep DEF ReceiveTimeout, WrittenInv, KeysInstalled
  <2>2. EnvInv'
    BY <1>1, InvParts DEF ReceiveTimeout, EnvInv
  <2> QED BY <2>1, <2>2, InvParts DEF ChannelInv, ChannelTypeOK, WrittenInv, EnvInv, Sealed, Channels
<1>2. ASSUME NEW d \in net, ReceiveUnopenable(d) \/ ReceiveAck(d)
      PROVE  ChannelInv'
  <2>1. WrittenInv'
    BY <1>2, SelfSends, InvParts, QuietStep DEF ReceiveUnopenable, ReceiveAck, WrittenInv, KeysInstalled
  <2>2. EnvInv'
    BY <1>2, InvParts, DeliverType DEF ReceiveUnopenable, ReceiveAck, EnvInv
  <2> QED BY <2>1, <2>2 DEF ChannelInv, ChannelTypeOK, WrittenInv, EnvInv, Sealed, Channels
<1>3. ASSUME NEW d \in net, ReceiveMessage(d) \/ ReceivePanic(d)
      PROVE  ChannelInv'
  <2>1. PICK m \in Opened(d) : Accept(d, m) /\ ret' \in {OkRet(m), PanicRet}
    BY <1>3 DEF ReceiveMessage, ReceivePanic
  <2>2. UNCHANGED <<port, used, pctr>> /\ Deliver(d)
    BY <1>3 DEF ReceiveMessage, ReceivePanic
  <2>3. WrittenInv' /\ got' \in Seq(PeerDatagrams)
    BY <2>1, <2>2, AcceptStep
  <2>4. ret' \in Returns
    BY <2>1, OpenedType DEF OkRet
  <2>5. EnvInv'
    BY <2>2, <2>3, <2>4, DeliverType, InvParts DEF EnvInv
  <2> QED BY <2>3, <2>5 DEF ChannelInv, ChannelTypeOK, WrittenInv, EnvInv, Sealed, Channels
<1> QED BY <1>1, <1>2, <1>3 DEF ReceiveStep

-----------------------------------------------------------------------------
(* Every step of the channel *)

LEMMA InitInv == ChannelInit => ChannelInv
BY ChannelAssumption
   DEF ChannelInit, ChannelInv, ChannelTypeOK, SessionMatchesKey, HeaderSessionMatchesKey,
       KeysInstalled, CounterTracksSession, ConsecutiveInSession, NilChannel, NoRet, KeyOrNone

LEMMA StepInv == ChannelInv /\ [ChannelNext]_chanVars => ChannelInv'
<1> SUFFICES ASSUME ChannelInv, [ChannelNext]_chanVars
             PROVE  WrittenInv' /\ EnvInv'
  BY DEF ChannelInv, ChannelTypeOK, WrittenInv, EnvInv, Sealed, Channels, Returns
<1> USE DEF NoRet, Returns
<1>1. EnvInv /\ sc \in Channels /\ sc.session = sc.key /\ sc.key \in used \cup {NoKey}
  BY InvParts, SelfSends DEF WrittenInv, KeysInstalled
<1>2. ASSUME NEW c \in 0 .. MaxCounter - 1, StartSecureChannel(c)
      PROVE  WrittenInv' /\ EnvInv'
  <2>1. sc' \in Channels /\ sc'.key = NoKey /\ sc'.session = NoKey
    BY <1>2, ChannelAssumption DEF StartSecureChannel, PlainChannel, Channels, KeyOrNone
  <2>2. WrittenInv'
    BY <1>2, <2>1, QuietStep DEF StartSecureChannel
  <2> QED BY <1>1, <1>2, <2>2 DEF StartSecureChannel, EnvInv
<1>3. ASSUME NEW m \in ClientMsgs, Send(m)
      PROVE  WrittenInv' /\ EnvInv'
  <2>1. WrittenInv'
    BY <1>1, <1>3, WriteStep DEF Send, WireMsgs
  <2> QED BY <1>1, <1>3, <2>1 DEF Send, EnvInv
<1>4. ASSUME NEW m \in ClientMsgs, ClearKeysAndSend(m)
      PROVE  WrittenInv' /\ EnvInv'
  <2>1. /\ Cleared(sc) \in Channels
        /\ Cleared(sc).Counter = sc.Counter
        /\ Cleared(sc).key = NoKey
        /\ Cleared(sc).session = NoKey
    BY <1>1 DEF Cleared, Channels, KeyOrNone
  <2>2. WrittenInv'
    BY <1>4, <2>1, WriteStep DEF ClearKeysAndSend, WireMsgs
  <2> QED BY <1>1, <1>4, <2>2 DEF ClearKeysAndSend, EnvInv
<1>5. CASE ReceiveStep
  BY <1>5, ReceiveStepInv, InvParts DEF ChannelInv, ChannelTypeOK, WrittenInv, EnvInv, Sealed, Channels
<1>6. ASSUME NEW k \in Keys, InstallPase(k) \/ InstallCase(k)
      PROVE  WrittenInv' /\ EnvInv'
  <2>1. CASE InstallPase(k)
    BY <1>1, <2>1, ChannelAssumption, QuietStep
       DEF InstallPase, Channels, KeyOrNone, EnvInv
  <2>2. CASE InstallCase(k)
    <3>1. /\ sc' = [sc EXCEPT !.key = k, !.session = k] /\ k \in Keys \ used
          /\ used' = used \cup {k} /\ sent' = sent
      BY <2>2 DEF InstallCase
    <3>2. sc' \in Channels /\ sc'.key = k /\ sc'.session = k
      BY <1>1, <3>1 DEF Channels, KeyOrNone
    <3>3. WrittenInv'
      BY <3>1, <3>2, QuietStep
    <3> QED BY <1>1, <2>2, <3>1, <3>3 DEF InstallCase, EnvInv
  <2> QED BY <1>6, <2>1, <2>2
<1>7. CASE Drop
  <2>1. sc' \in Channels /\ sc'.key = NoKey /\ sc'.session = NoKey
    BY <1>7, ChannelAssumption DEF Drop, NilChannel, Channels, KeyOrNone
  <2>2. WrittenInv'
    BY <1>7, <2>1, QuietStep DEF Drop
  <2> QED BY <1>1, <1>7, <2>2 DEF Drop, EnvInv
<1>8. CASE Close
  <2>1. WrittenInv'
    BY <1>1, <1>8, WriteStep DEF Close, WireMsgs
  <2> QED BY <1>1, <1>8, <2>1 DEF Close, EnvInv
<1>9. CASE Exit
  <2>1. sc' \in Channels /\ sc'.key = NoKey /\ sc'.session = NoKey
    BY <1>9, ChannelAssumption DEF Exit, NilChannel, Channels, KeyOrNone
  <2>2. WrittenInv'
    BY <1>9, <2>1, QuietStep DEF Exit
  <2> QED BY <1>1, <1>9, <2>2 DEF Exit, EnvInv
<1>10. CASE Finalize
  <2>1. WrittenInv'
    BY <1>1, <1>10, QuietStep DEF Finalize
  <2> QED BY <1>1, <1>10, <2>1 DEF Finalize, EnvInv
<1>11. ASSUME NEW k \in KeyOrNone, NEW m \in PeerMsgs, PeerSend(k, m)
       PROVE  WrittenInv' /\ EnvInv'
  <2>1. WrittenInv'
    BY <1>1, <1>11, QuietStep DEF PeerSend
  <2>2. [key |-> k, ctr |-> pctr + 1, msg |-> m] \in PeerDatagrams
    BY <1>1, <1>11, ChannelAssumption DEF PeerSend, PeerDatagrams, EnvInv
  <2> QED BY <1>1, <1>11, <2>1, <2>2, ChannelAssumption DEF PeerSend, EnvInv
<1>12. CASE UNCHANGED chanVars
  <2>1. WrittenInv'
    BY <1>1, <1>12, QuietStep DEF chanVars
  <2> QED BY <1>1, <1>12, <2>1 DEF chanVars, EnvInv
<1> QED
  BY <1>2, <1>3, <1>4, <1>5, <1>6, <1>7, <1>8, <1>9, <1>10, <1>11, <1>12 DEF ChannelNext

-----------------------------------------------------------------------------
(* Acks: every step writes an ack and accepts a datagram (AcceptAcks), or  *)
(* does neither (QuietAcks, WriteAcks).                                    *)

AckPlaces(s, n) == {i \in 1 .. n : IsAck(s[i].msg)}

(* The ack e answers the accepted datagram d *)
Answers(e, d) ==
    /\ e.msg.ack = d.ctr
    /\ e.key \in {d.key, NoKey}
    /\ d.key = NoKey => ~IsAck(d.msg) /\ e.msg.ex = d.msg.ex

LEMMA AcksByPlaces ==
    /\ \A n : AcksAmong(n) = Cardinality(AckPlaces(sent, n))
    /\ AcksAnswerAcceptedDatagrams <=>
        /\ Cardinality(AckPlaces(sent, Len(sent))) = Len(got)
        /\ \A j \in 1 .. Len(sent) :
             IsAck(sent[j].msg) => Answers(sent[j], got[Cardinality(AckPlaces(sent, j))])
BY DEF AcksAnswerAcceptedDatagrams, AcksAmong, AckPlaces, Answers

LEMMA AckCount ==
    ASSUME NEW s, NEW n \in Nat
    PROVE  /\ IsFiniteSet(AckPlaces(s, n))
           /\ Cardinality(AckPlaces(s, n)) \in Nat
           /\ \A j \in 1 .. n :
                IsAck(s[j].msg) =>
                    Cardinality(AckPlaces(s, j)) \in 1 .. Cardinality(AckPlaces(s, n))
<1>1. ASSUME NEW k \in Nat
      PROVE  IsFiniteSet(AckPlaces(s, k)) /\ Cardinality(AckPlaces(s, k)) \in Nat
  <2>1. IsFiniteSet(1 .. k)
    BY FS_Interval
  <2>2. AckPlaces(s, k) \in SUBSET (1 .. k)
    BY DEF AckPlaces
  <2>3. IsFiniteSet(AckPlaces(s, k))
    BY <2>1, <2>2, FS_Subset
  <2> QED
    BY <2>3, FS_CardinalityType
<1>2. ASSUME NEW j \in 1 .. n, IsAck(s[j].msg)
      PROVE  Cardinality(AckPlaces(s, j)) \in 1 .. Cardinality(AckPlaces(s, n))
  <2>1. AckPlaces(s, j) \in SUBSET AckPlaces(s, n)
    BY DEF AckPlaces
  <2>2. Cardinality(AckPlaces(s, j)) <= Cardinality(AckPlaces(s, n))
    BY <1>1, <2>1, FS_Subset
  <2>3. j \in AckPlaces(s, j)
    BY <1>2 DEF AckPlaces
  <2>4. Cardinality(AckPlaces(s, j)) # 0
    BY <1>1, <2>3, FS_EmptySet
  <2> QED
    BY <1>1, <2>2, <2>4
<1> QED
  BY <1>1, <1>2

(* One datagram more on the wire *)
LEMMA AckAppend ==
    ASSUME NEW T, NEW s \in Seq(T), NEW e \in T
    PROVE  /\ \A n \in 0 .. Len(s) : AckPlaces(Append(s, e), n) = AckPlaces(s, n)
           /\ Cardinality(AckPlaces(Append(s, e), Len(s) + 1)) =
                Cardinality(AckPlaces(s, Len(s))) + (IF IsAck(e.msg) THEN 1 ELSE 0)
<1> DEFINE n == Len(s)
           t == Append(s, e)
           old == AckPlaces(s, n)
<1>1. n \in Nat /\ t[n + 1] = e /\ \A i \in 1 .. n : t[i] = s[i]
  OBVIOUS
<1>2. \A k \in 0 .. n : AckPlaces(t, k) = AckPlaces(s, k)
  BY <1>1 DEF AckPlaces
<1>3. IsFiniteSet(old) /\ Cardinality(old) \in Nat
  BY <1>1, AckCount
<1>4. CASE IsAck(e.msg)
  <2>1. AckPlaces(t, n + 1) = old \cup {n + 1} /\ n + 1 \notin old
    BY <1>1, <1>4 DEF AckPlaces
  <2>2. Cardinality(AckPlaces(t, n + 1)) = Cardinality(old) + 1
    BY <1>3, <2>1, FS_AddElement
  <2> QED
    BY <1>2, <1>4, <2>2
<1>5. CASE ~IsAck(e.msg)
  <2>1. AckPlaces(t, n + 1) = old
    BY <1>1, <1>5 DEF AckPlaces
  <2> QED
    BY <1>2, <1>3, <1>5, <2>1
<1> QED
  BY <1>4, <1>5

LEMMA QuietAcks ==
    ASSUME AcksAnswerAcceptedDatagrams, UNCHANGED <<sent, got>>
    PROVE  AcksAnswerAcceptedDatagrams'
BY DEF AcksAnswerAcceptedDatagrams, AcksAmong

LEMMA WriteAcks ==
    ASSUME ChannelInv, AcksAnswerAcceptedDatagrams,
           NEW c \in Channels, NEW m \in WireMsgs, ~IsAck(m),
           sent' = Written(c, m), got' = got
    PROVE  AcksAnswerAcceptedDatagrams'
<1> DEFINE n == Len(sent)
           d == Datagram(c, m)
<1>1. CASE sent' = sent
  BY <1>1, QuietAcks
<1>2. CASE sent' = Append(sent, d)
  <2>1. sent \in Seq(Sealed) /\ d \in Sealed /\ ~IsAck(d.msg)
    BY InvParts, IncType DEF WrittenInv, Datagram, Sealed, Channels
  <2> HIDE DEF d
  <2>2. n \in Nat /\ Len(sent') = n + 1 /\ sent'[n + 1] = d /\ \A i \in 1 .. n : sent'[i] = sent[i]
    BY <1>2, <2>1
  <2>3. /\ \A k \in 0 .. n : AckPlaces(sent', k) = AckPlaces(sent, k)
        /\ Cardinality(AckPlaces(sent', n + 1)) = Cardinality(AckPlaces(sent, n))
    BY <1>2, <2>1, <2>2, AckAppend, AckCount
  <2>4. ASSUME NEW j \in 1 .. n + 1, IsAck(sent'[j].msg)
        PROVE  Answers(sent'[j], got'[Cardinality(AckPlaces(sent', j))])
    <3>1. j \in 1 .. n
      BY <2>1, <2>2, <2>4
    <3> QED
      BY <2>2, <2>3, <2>4, <3>1, AcksByPlaces
  <2>5. Cardinality(AckPlaces(sent', Len(sent'))) = Len(got')
    BY <2>2, <2>3, AcksByPlaces
  <2> QED
    BY <2>2, <2>4, <2>5 DEF AcksAnswerAcceptedDatagrams, AcksAmong, AckPlaces, Answers
<1> QED
  BY <1>1, <1>2 DEF Written

LEMMA AcceptAcks ==
    ASSUME ChannelInv, AcksAnswerAcceptedDatagrams, Reading,
           NEW d \in net, NEW m \in Opened(d), ~IsAck(m), Accept(d, m)
    PROVE  AcksAnswerAcceptedDatagrams'
<1> DEFINE n == Len(sent)
           e == Datagram(sc, ackGen(m, d.ctr))
<1>1. /\ sent \in Seq(Sealed) /\ got \in Seq(PeerDatagrams) /\ d \in PeerDatagrams
      /\ e \in Sealed
  BY InvParts, IncType, OpenedType DEF WrittenInv, EnvInv, Datagram, Sealed, Channels
<1>2. IsAck(e.msg) /\ Answers(e, d)
  <2>1. IsAck(e.msg) /\ e.msg.ack = d.ctr /\ e.msg.ex = m.ex /\ e.key = sc.key
    BY DEF Datagram, ackGen, IsAck
  <2>2. (d.key = sc.key /\ m = d.msg) \/ (sc.key = NoKey /\ d.key # NoKey)
    BY DEF Opened
  <2> QED
    BY <2>1, <2>2 DEF Answers
<1>3. sent' = Append(sent, e) /\ got' = Append(got, d)
  BY DEF Accept, Written, Reading
<1> HIDE DEF e
<1>4. n \in Nat /\ Len(sent') = n + 1 /\ sent'[n + 1] = e /\ \A i \in 1 .. n : sent'[i] = sent[i]
  BY <1>1, <1>3
<1>5. /\ Len(got) \in Nat /\ Len(got') = Len(got) + 1 /\ got'[Len(got) + 1] = d
      /\ \A i \in 1 .. Len(got) : got'[i] = got[i]
  BY <1>1, <1>3
<1>6. Cardinality(AckPlaces(sent, n)) = Len(got)
  BY AcksByPlaces
<1>7. /\ \A k \in 0 .. n : AckPlaces(sent', k) = AckPlaces(sent, k)
      /\ Cardinality(AckPlaces(sent', n + 1)) = Len(got) + 1
  BY <1>1, <1>2, <1>3, <1>6, AckAppend
<1>8. ASSUME NEW j \in 1 .. n + 1, IsAck(sent'[j].msg)
      PROVE  Answers(sent'[j], got'[Cardinality(AckPlaces(sent', j))])
  <2>1. CASE j = n + 1
    BY <1>2, <1>4, <1>5, <1>7, <2>1
  <2>2. CASE j # n + 1
    <3>1. j \in 1 .. n /\ sent'[j] = sent[j] /\ AckPlaces(sent', j) = AckPlaces(sent, j)
      BY <1>4, <1>7, <2>2
    <3>2. Cardinality(AckPlaces(sent, j)) \in 1 .. Len(got)
      BY <1>4, <1>6, <1>8, <3>1, AckCount
    <3>3. Answers(sent[j], got[Cardinality(AckPlaces(sent, j))])
      BY <1>8, <3>1, AcksByPlaces
    <3> QED
      BY <1>5, <3>1, <3>2, <3>3
  <2> QED
    BY <2>1, <2>2
<1>9. Cardinality(AckPlaces(sent', Len(sent'))) = Len(got')
  BY <1>4, <1>5, <1>7
<1> QED
  BY <1>4, <1>8, <1>9 DEF AcksAnswerAcceptedDatagrams, AcksAmong, AckPlaces, Answers

LEMMA AckInit == ChannelInit => AcksAnswerAcceptedDatagrams
<1> SUFFICES ASSUME ChannelInit PROVE AcksAnswerAcceptedDatagrams
  OBVIOUS
<1>1. sent = <<>> /\ got = <<>> /\ Len(sent) = 0 /\ Len(got) = 0
  BY DEF ChannelInit
<1>2. AckPlaces(sent, 0) = {}
  BY DEF AckPlaces
<1>3. Cardinality(AckPlaces(sent, Len(sent))) = Len(got)
  BY <1>1, <1>2, FS_EmptySet
<1> QED
  BY <1>1, <1>3, AcksByPlaces

LEMMA AckStep ==
    ChannelInv /\ AcksAnswerAcceptedDatagrams /\ [ChannelNext]_chanVars
        => AcksAnswerAcceptedDatagrams'
<1> SUFFICES ASSUME ChannelInv, AcksAnswerAcceptedDatagrams, [ChannelNext]_chanVars
             PROVE  AcksAnswerAcceptedDatagrams'
  OBVIOUS
<1>1. sc \in Channels
  BY SelfSends
<1>2. ASSUME NEW m \in ClientMsgs, Send(m)
      PROVE  AcksAnswerAcceptedDatagrams'
  BY <1>1, <1>2, CallerAssumption, WriteAcks DEF Send, WireMsgs
<1>3. ASSUME NEW m \in ClientMsgs, ClearKeysAndSend(m)
      PROVE  AcksAnswerAcceptedDatagrams'
  <2>1. Cleared(sc) \in Channels
    BY <1>1 DEF Cleared, Channels, KeyOrNone
  <2> QED
    BY <1>3, <2>1, CallerAssumption, WriteAcks DEF ClearKeysAndSend, WireMsgs
<1>4. CASE Close
  <2>1. CloseReport \in WireMsgs /\ ~IsAck(CloseReport)
    BY DEF CloseReport, IsAck, WireMsgs
  <2> QED
    BY <1>1, <1>4, <2>1, WriteAcks DEF Close
<1>5. CASE ReceiveStep
  <2>1. ASSUME NEW d \in net, ReceiveMessage(d) \/ ReceivePanic(d)
        PROVE  AcksAnswerAcceptedDatagrams'
    <3>1. PICK m \in Opened(d) : ~IsAck(m) /\ Accept(d, m)
      BY <2>1 DEF ReceiveMessage, ReceivePanic
    <3>2. Reading
      BY <2>1 DEF ReceiveMessage, ReceivePanic
    <3> QED
      BY <3>1, <3>2, AcceptAcks
  <2>2. CASE UNCHANGED <<sent, got>>
    BY <2>2, QuietAcks
  <2> QED
    BY <1>5, <2>1, <2>2 DEF ReceiveStep, ReceiveTimeout, ReceiveUnopenable, ReceiveAck
<1>6. CASE UNCHANGED <<sent, got>>
  BY <1>6, QuietAcks
<1> QED
  BY <1>2, <1>3, <1>4, <1>5, <1>6
     DEF ChannelNext, chanVars, StartSecureChannel, InstallPase, InstallCase, Drop, Exit,
         Finalize, PeerSend

-----------------------------------------------------------------------------
(* Theorems *)

(* The inductive invariant holds in every reachable state. *)
THEOREM ChannelInvariant == ChannelSpec => []ChannelInv
<1>1. ChannelInit => ChannelInv
  BY InitInv
<1>2. ChannelInv /\ [ChannelNext]_chanVars => ChannelInv'
  BY StepInv
<1> QED BY <1>1, <1>2, PTL DEF ChannelSpec

(* Type correctness: no sequence of sends, receives, key changes, drops    *)
(* and closes takes the channel's Counter out of its range or puts         *)
(* anything but a caller's message, an ack or the close report on the wire.*)
THEOREM ChannelTypeCorrect == ChannelSpec => []ChannelTypeOK
<1>1. ChannelInv => ChannelTypeOK
  BY DEF ChannelInv
<1> QED BY <1>1, ChannelInvariant, PTL

(* Nonces: Send and the acks of Receive repeat a nonce under a key only    *)
(* after the whole counter range was used under that key, for every range, *)
(* every caller and every peer.                                            *)
THEOREM NonceTheorem == ChannelSpec => []NonceReuseOnlyAfterFullCircle
<1>1. ChannelInv => NonceReuseOnlyAfterFullCircle
  <2> SUFFICES ASSUME ChannelInv, NEW i \in 1 .. Len(sent), NEW j \in 1 .. Len(sent),
                      i < j, sent[i].key # NoKey, sent[i].key = sent[j].key,
                      sent[i].ctr = sent[j].ctr
               PROVE  j - i > MaxCounter
    BY DEF NonceReuseOnlyAfterFullCircle
  <2>1. Len(sent) \in Nat /\ sent[i].ctr \in 0 .. MaxCounter
    <3>1. sent \in Seq(Sealed)
      BY InvParts DEF WrittenInv
    <3>2. sent[i] \in Sealed
      BY <3>1
    <3> QED BY <3>1, <3>2 DEF Sealed
  <2>2. SUFFICES ASSUME j - i <= MaxCounter PROVE FALSE
    BY <2>1, ChannelAssumption
  <2>3. sent[j].ctr = Advance(sent[i].ctr, j - i)
    BY <2>2 DEF ChannelInv, ConsecutiveInSession
  <2>4. j - i \in 1 .. MaxCounter
    BY <2>1, <2>2, ChannelAssumption
  <2> QED BY <2>1, <2>3, <2>4, AdvanceMoves
<1> QED BY <1>1, ChannelInvariant, PTL

(* Headers: the session id of every datagram on the wire belongs to the    *)
(* keys it is sealed under, across every key change of the flows.          *)
THEOREM HeaderSessionTheorem == ChannelSpec => []HeaderSessionMatchesKey
<1>1. ChannelInv => HeaderSessionMatchesKey
  BY DEF ChannelInv
<1> QED BY <1>1, ChannelInvariant, PTL

(* Sessions do not mix on the way in: whatever the network still carries   *)
(* of other sessions, a keyed Receive accepts only its own.                *)
THEOREM KeyedReceiveTheorem == ChannelSpec => KeyedReceiveIsCurrentSession
<1>1. ChannelInv /\ [ChannelNext]_chanVars
        => [Len(got') > Len(got) /\ sc.key # NoKey => got'[Len(got')].key = sc.key]_chanVars
  <2> SUFFICES ASSUME ChannelInv, ChannelNext, Len(got') > Len(got), sc.key # NoKey
               PROVE  got'[Len(got')].key = sc.key
    OBVIOUS
  <2>1. got \in Seq(PeerDatagrams)
    BY InvParts DEF EnvInv
  <2>2. ASSUME NEW d \in net, NEW m \in Opened(d), Accept(d, m)
        PROVE  got'[Len(got')].key = sc.key
    <3>1. d.key = sc.key
      BY <2>2 DEF Opened
    <3>2. d \in PeerDatagrams
      BY InvParts DEF EnvInv
    <3>3. got'[Len(got')] = d
      BY <2>1, <2>2, <3>2 DEF Accept
    <3> QED BY <3>1, <3>3
  <2>3. CASE got' = got
    BY <2>1, <2>3
  <2>4. CASE ReceiveStep
    <3>1. \/ got' = got
          \/ \E d \in net : \E m \in Opened(d) : Accept(d, m)
      BY <2>4 DEF ReceiveStep, ReceiveTimeout, ReceiveUnopenable, ReceiveAck,
                  ReceiveMessage, ReceivePanic
    <3> QED BY <3>1, <2>2, <2>3
  <2>5. CASE ~ReceiveStep
    <3>1. got' = got
      BY <2>5 DEF ChannelNext, StartSecureChannel, Send, ClearKeysAndSend, InstallPase,
                  InstallCase, Drop, Close, Exit, Finalize, PeerSend
    <3> QED BY <3>1, <2>3
  <2> QED BY <2>4, <2>5
<1> QED BY <1>1, ChannelInvariant, PTL DEF ChannelSpec, KeyedReceiveIsCurrentSession

(* Acks: whatever arrives late, twice or under dropped keys, Receive       *)
(* acknowledges what it accepts, once, in order and in its exchange.       *)
THEOREM AckTheorem == ChannelSpec => []AcksAnswerAcceptedDatagrams
BY AckInit, AckStep, ChannelInvariant, PTL DEF ChannelSpec
=============================================================================
