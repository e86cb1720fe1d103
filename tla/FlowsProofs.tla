----------------------------- MODULE FlowsProofs -----------------------------
(***************************************************************************)
(* Proofs about Flows, for every number of calls, counters, acks and       *)
(* garbled messages:                                                       *)
(*                                                                         *)
(*   - Flows implements SecureChannel, so what is proved of the channel    *)
(*     holds in every flow;                                                *)
(*   - type correctness;                                                   *)
(*   - FlowSafety: its five properties hold over any sequence of calls.    *)
(*                                                                         *)
(* The inductive invariant FlowInv ties the three places a session shows   *)
(* in: where the call is (ControlInv), what the device holds (DeviceInv)   *)
(* and what is on the wire in either direction (SentInv, NetInv, RetInv).  *)
(***************************************************************************)
EXTENDS Flows, SecureChannelProofs

-----------------------------------------------------------------------------
(* The inductive invariant *)

DeviceType ==
    dev \in [pase : 0 .. MaxCalls, sigma : 0 .. MaxCalls, keys : SUBSET SessionKeys,
             root : BOOLEAN, noc : BOOLEAN, complete : SUBSET Calls]

TypeInv == FlowTypeOK /\ DeviceType

(* What the controller may write under key k, acks and close reports aside *)
MayWrite(k, q) ==
    q.op \notin {"ack", "status"} =>
        /\ q \in ControllerMsgs
        /\ CallOf(q) <= call
        /\ q.body = "command" /\ CallOf(q) = call => op = "connect"
        /\ q.op = "invoke_req" =>
              /\ k # NoKey
              /\ k.call = CallOf(q)
              /\ k.kind = IF q.body \in {"csr", "root", "noc"} THEN "pase" ELSE "case"
        /\ q.op # "invoke_req" => k = NoKey

SentInv == \A i \in 1 .. Len(sent) : MayWrite(sent[i].key, sent[i].msg)

(* Where a call runs without keys, under PASE and under CASE *)
InPase == {"pase", "pbkdf", "pake2", "pake_status"}
InSigma == {"sigma", "sigma2", "sigma_status"}
UnderPase == {"csr_send", "csr", "root", "noc"}
UnderCase == {"complete_send", "complete", "app", "command"}

(* The channel's key belongs to the place in the call, and to the call *)
ControlInv ==
    /\ pc # "idle" => call \in Calls
    /\ pc \in InPase \cup InSigma => sc.key = NoKey
    /\ pc \in UnderPase => sc.key = SessionKey("pase", call, good)
    /\ pc \in UnderCase => sc.key = SessionKey("case", call, good)
    /\ pc \in InPase \cup UnderPase \cup {"complete_send", "complete"} => op = "commission"
    /\ pc \in {"sigma", "app", "command"} => op = "connect"
    /\ \/ pc \in {"noc", "complete_send", "complete"}
       \/ pc \in {"sigma2", "sigma_status"} /\ op = "commission"
       => call \in stored

(* The device holds sessions of matching transcripts only, and an          *)
(* operational one only with a certificate of the fabric.                  *)
DeviceInv ==
    /\ \A k \in dev.keys : k.good /\ (k.kind = "case" => dev.noc)
    /\ dev.sigma # 0 => dev.noc

(* What a message m sealed under k proves: the device holds the session,   *)
(* has handled a command under it, and a root certificate if m says so.    *)
Proves(k, m) ==
    /\ k \in dev.keys
    /\ k.kind = "pase" /\ m.body = "status0" => dev.root
    /\ \E i \in handled : sent[i].key = k /\ sent[i].msg.op = "invoke_req"

NetInv ==
    \A d \in net : d.key # NoKey =>
        d.key \in dev.keys /\ (IsAck(d.msg) \/ Proves(d.key, d.msg))

RetInv == ret.st = "ok" /\ sc.key # NoKey => Proves(sc.key, ret.msg)

FlowInv ==
    /\ TypeInv /\ SentInv /\ ControlInv /\ DeviceInv /\ NetInv /\ RetInv
    /\ CommissionNilMeansOnboarded
    /\ SignedOnlyForOnboardingDevice
    /\ PortHeldOnlyAfterFailedExchange

-----------------------------------------------------------------------------
(* Messages *)

LEMMA KeyFacts ==
    /\ NoKey \notin SessionKeys
    /\ \A k \in {"pase", "case"}, n \in Calls, g \in BOOLEAN : SessionKey(k, n, g) \in SessionKeys
    /\ SessionKeys = Keys
BY ChannelAssumption, FlowAssumption DEF SessionKeys, SessionKey

(* The union that ControllerMsgs is, member by member *)
LEMMA ControllerMsgCases ==
    ASSUME NEW q
    PROVE  q \in ControllerMsgs <=>
             \/ q \in MsgSet({"pbkdf_req", "pake1"}, TRUE, TRUE, {"pase"}, {"none"})
             \/ q \in MsgSet({"sigma1"}, TRUE, TRUE, {"sigma"}, {"none"})
             \/ q \in MsgSet({"pake3"}, TRUE, TRUE, {"pase"}, {"good", "bad"})
             \/ q \in MsgSet({"sigma3"}, TRUE, TRUE, {"sigma"}, {"good", "bad"})
             \/ \E c \in Commands : q \in MsgSet({"invoke_req"}, FALSE, TRUE, {c}, {c})
BY DEF ControllerMsgs

(* What a flow's request looks like, by its opcode *)
LEMMA ControllerMsgShape ==
    ASSUME NEW q \in ControllerMsgs
    PROVE  /\ CallOf(q) \in Calls
           /\ q.op \in {"pbkdf_req", "pake1", "pake3", "sigma1", "sigma3", "invoke_req"}
           /\ q.op \in {"pbkdf_req", "pake1", "pake3"} => q.ex \in Calls \X {"pase"}
           /\ q.op \in {"sigma1", "sigma3"} => q.ex \in Calls \X {"sigma"}
           /\ q.op = "invoke_req" => q.body \in Commands /\ q.ex \in Calls \X Commands
           /\ q.op # "invoke_req" => q.body \notin Commands
<1> USE DEF MsgSet, CallOf
<1>1. CASE \/ q \in MsgSet({"pbkdf_req", "pake1"}, TRUE, TRUE, {"pase"}, {"none"})
           \/ q \in MsgSet({"pake3"}, TRUE, TRUE, {"pase"}, {"good", "bad"})
  BY <1>1 DEF Commands
<1>2. CASE \/ q \in MsgSet({"sigma1"}, TRUE, TRUE, {"sigma"}, {"none"})
           \/ q \in MsgSet({"sigma3"}, TRUE, TRUE, {"sigma"}, {"good", "bad"})
  BY <1>2 DEF Commands
<1>3. ASSUME NEW c \in Commands, q \in MsgSet({"invoke_req"}, FALSE, TRUE, {c}, {c})
      PROVE  q.op = "invoke_req" /\ q.body \in Commands /\ q.ex \in Calls \X Commands
  BY <1>3
<1> QED BY <1>1, <1>2, <1>3, ControllerMsgCases

LEMMA RequestTypes ==
    ASSUME call \in Calls
    PROVE  /\ pBKDFParamRequest \in ControllerMsgs
           /\ pake1ParamRequest \in ControllerMsgs
           /\ \A g \in BOOLEAN : pake3ParamRequest(g) \in ControllerMsgs
           /\ genSigma1Req2 \in ControllerMsgs
           /\ \A g \in BOOLEAN : genSigma3Req2(g) \in ControllerMsgs
           /\ \A c \in Commands : EncodeIMInvokeRequest(c) \in ControllerMsgs
<1> USE ControllerMsgCases DEF MsgSet, Request
<1>1. pBKDFParamRequest \in ControllerMsgs
  BY DEF pBKDFParamRequest
<1>2. pake1ParamRequest \in ControllerMsgs
  BY DEF pake1ParamRequest
<1>3. \A g \in BOOLEAN : pake3ParamRequest(g) \in ControllerMsgs
  BY DEF pake3ParamRequest
<1>4. genSigma1Req2 \in ControllerMsgs
  BY DEF genSigma1Req2
<1>5. \A g \in BOOLEAN : genSigma3Req2(g) \in ControllerMsgs
  BY DEF genSigma3Req2
<1>6. \A c \in Commands : EncodeIMInvokeRequest(c) \in ControllerMsgs
  <2> SUFFICES ASSUME NEW c \in Commands PROVE EncodeIMInvokeRequest(c) \in ControllerMsgs
    OBVIOUS
  <2>1. EncodeIMInvokeRequest(c) \in MsgSet({"invoke_req"}, FALSE, TRUE, {c}, {c})
    <3>1. (c \in {"pase", "sigma"}) = FALSE
      BY DEF Commands
    <3> QED BY <3>1 DEF EncodeIMInvokeRequest
  <2> QED BY <2>1
<1> QED BY <1>1, <1>2, <1>3, <1>4, <1>5, <1>6

LEMMA AnswerTypes ==
    ASSUME NEW q \in ControllerMsgs
    PROVE  /\ q.op = "pbkdf_req" =>
                 \A b \in {"params", "bad"} : Answer(q, "pbkdf_resp", b) \in DeviceMsgs
           /\ q.op = "pake1" =>
                 \A b \in {"params", "bad"} : Answer(q, "pake2", b) \in DeviceMsgs
           /\ q.op = "sigma1" =>
                 \A b \in {"params", "bad"} : Answer(q, "sigma2", b) \in DeviceMsgs
           /\ q.op # "invoke_req" =>
                 \A b \in {"ok", "fail"} : Answer(q, "status", b) \in DeviceMsgs
           /\ q.op = "invoke_req" =>
                 \A b \in {"csr", "status0", "statusN", "int0", "intN"} :
                     Answer(q, "invoke_rsp", b) \in DeviceMsgs
           /\ \A c \in 0 .. MaxCounter : [ackGen(q, c) EXCEPT !.ini = FALSE] \in DeviceMsgs
<1> USE ControllerMsgShape DEF DeviceMsgs, MsgSet, Answer, ackGen, Commands
<1>1. q.op \in {"pbkdf_req", "pake1"} =>
         \A o \in {"pbkdf_resp", "pake2"}, b \in {"params", "bad"} : Answer(q, o, b) \in DeviceMsgs
  OBVIOUS
<1>2. q.op = "sigma1" => \A b \in {"params", "bad"} : Answer(q, "sigma2", b) \in DeviceMsgs
  OBVIOUS
<1>3. q.op # "invoke_req" => \A b \in {"ok", "fail"} : Answer(q, "status", b) \in DeviceMsgs
  OBVIOUS
<1>4. q.op = "invoke_req" =>
         \A b \in {"csr", "status0", "statusN", "int0", "intN"} :
             Answer(q, "invoke_rsp", b) \in DeviceMsgs
  OBVIOUS
<1>5. \A c \in 0 .. MaxCounter : [ackGen(q, c) EXCEPT !.ini = FALSE] \in DeviceMsgs
  OBVIOUS
<1> QED BY <1>1, <1>2, <1>3, <1>4, <1>5

(* A flow's requests may be written under the key of their place in a call *)
LEMMA RequestsMayBeWritten ==
    ASSUME call \in Calls, NEW g \in BOOLEAN, NEW h \in BOOLEAN
    PROVE  /\ MayWrite(NoKey, pBKDFParamRequest)
           /\ MayWrite(NoKey, pake1ParamRequest)
           /\ MayWrite(NoKey, pake3ParamRequest(h))
           /\ MayWrite(NoKey, genSigma1Req2)
           /\ MayWrite(NoKey, genSigma3Req2(h))
           /\ \A c \in {"csr", "root", "noc"} :
                 MayWrite(SessionKey("pase", call, g), EncodeIMInvokeRequest(c))
           /\ MayWrite(SessionKey("case", call, g), EncodeIMInvokeRequest("complete"))
           /\ op = "connect" =>
                 MayWrite(SessionKey("case", call, g), EncodeIMInvokeRequest("command"))
<1>1. \A k \in {"pase", "case"} : SessionKey(k, call, g) # NoKey
  BY KeyFacts
<1>2. call \in Nat
  BY FlowAssumption DEF Calls
<1> QED
  BY <1>1, <1>2, RequestTypes
     DEF MayWrite, CallOf, SessionKey, Commands, Request, pBKDFParamRequest, pake1ParamRequest,
         pake3ParamRequest, genSigma1Req2, genSigma3Req2, EncodeIMInvokeRequest

-----------------------------------------------------------------------------
(* What each step does to the channel *)

Sends ==
    \/ PbkdfRequest \/ Pake1 \/ Pake3
    \/ CsrRequest \/ AddTrustedRootCertificate \/ AddNOC
    \/ Sigma1 \/ Sigma3
    \/ CommissioningComplete \/ AppCommand

LEMMA SendsWrite ==
    ASSUME FlowInv, Sends
    PROVE  \E m \in ControllerMsgs : Send(m) /\ MayWrite(sc.key, m)
<1> USE DEF FlowInv, Goto, Got, GotGood
<1>1. ControlInv /\ good \in BOOLEAN
  BY DEF TypeInv, FlowTypeOK
<1>2. CASE PbkdfRequest
  BY <1>1, <1>2, RequestTypes, RequestsMayBeWritten DEF PbkdfRequest, ControlInv, InPase
<1>3. CASE Pake1
  BY <1>1, <1>3, RequestTypes, RequestsMayBeWritten DEF Pake1, ControlInv, InPase
<1>4. CASE Pake3
  <2>1. good' \in BOOLEAN
    BY <1>1, <1>4 DEF Pake3
  <2> QED BY <1>1, <1>4, <2>1, RequestTypes, RequestsMayBeWritten DEF Pake3, ControlInv, InPase
<1>5. CASE CsrRequest
  BY <1>1, <1>5, RequestTypes, RequestsMayBeWritten DEF CsrRequest, ControlInv, UnderPase, Commands
<1>6. CASE AddTrustedRootCertificate
  BY <1>1, <1>6, RequestTypes, RequestsMayBeWritten
     DEF AddTrustedRootCertificate, ControlInv, UnderPase, Commands
<1>7. CASE AddNOC
  BY <1>1, <1>7, RequestTypes, RequestsMayBeWritten DEF AddNOC, ControlInv, UnderPase, Commands
<1>8. CASE Sigma1
  BY <1>1, <1>8, RequestTypes, RequestsMayBeWritten DEF Sigma1, ControlInv, InSigma
<1>9. CASE Sigma3
  <2>1. good' \in BOOLEAN
    BY <1>1, <1>9 DEF Sigma3
  <2> QED BY <1>1, <1>9, <2>1, RequestTypes, RequestsMayBeWritten DEF Sigma3, ControlInv, InSigma
<1>10. CASE CommissioningComplete
  BY <1>1, <1>10, RequestTypes, RequestsMayBeWritten
     DEF CommissioningComplete, ControlInv, UnderCase, Commands
<1>11. CASE AppCommand
  BY <1>1, <1>11, RequestTypes, RequestsMayBeWritten DEF AppCommand, ControlInv, UnderCase, Commands
<1> QED
  BY <1>2, <1>3, <1>4, <1>5, <1>6, <1>7, <1>8, <1>9, <1>10, <1>11 DEF Sends

(* The device sends under the key of what it answers or acknowledges *)
LEMMA DeviceSends ==
    ASSUME FlowInv, NEW i \in 1 .. Len(sent), ChannelInv,
           \/ DevPbkdf(i) \/ DevPake1(i) \/ DevPake3(i) \/ DevInvoke(i)
           \/ DevSigma1(i) \/ DevSigma3(i) \/ DevAck(i)
    PROVE  /\ sent[i].msg \in ControllerMsgs
           /\ sent[i].key \in KeyOrNone
           /\ \E m \in DeviceMsgs : PeerSend(sent[i].key, m)
<1> DEFINE q == sent[i].msg
<1>1. sent[i] \in Sealed
  BY InvParts DEF WrittenInv
<1>2. sent[i].key \in KeyOrNone /\ sent[i].ctr \in 0 .. MaxCounter
  BY <1>1 DEF Sealed
<1>3. q.op \notin {"ack", "status"}
  BY DEF DevPbkdf, DevPake1, DevPake3, DevInvoke, DevSigma1, DevSigma3, DevAck, Pending
<1>4. q \in ControllerMsgs
  BY <1>3 DEF FlowInv, SentInv, MayWrite
<1> USE <1>2, <1>4, AnswerTypes DEF Reply, Pending
<1>5. CASE DevPbkdf(i)
  BY <1>5 DEF DevPbkdf
<1>6. CASE DevPake1(i)
  BY <1>6 DEF DevPake1
<1>7. CASE DevPake3(i)
  BY <1>7 DEF DevPake3
<1>8. CASE DevInvoke(i)
  BY <1>8, ControllerMsgShape DEF DevInvoke, Commands
<1>9. CASE DevSigma1(i)
  BY <1>9 DEF DevSigma1
<1>10. CASE DevSigma3(i)
  BY <1>10 DEF DevSigma3
<1>11. CASE DevAck(i)
  BY <1>11 DEF DevAck
<1> QED BY <1>5, <1>6, <1>7, <1>8, <1>9, <1>10, <1>11

(* Every step of a flow is a step of the channel, or leaves it alone. *)
LEMMA FlowStepIsChannelStep ==
    ASSUME FlowInv, ChannelInv, [Next]_vars
    PROVE  [ChannelNext]_chanVars
<1>1. CASE CommissionStart \/ ConnectStart
  <2>1. \E c \in 0 .. MaxCounter - 1 : StartSecureChannel(c)
    BY <1>1, FlowAssumption DEF CommissionStart, ConnectStart
  <2> QED BY <2>1 DEF ChannelNext
<1>2. CASE StartFails
  BY <1>2 DEF StartFails
<1>3. CASE Receive
  BY <1>3 DEF Receive, ChannelNext
<1>4. CASE Sends
  <2>1. \E m \in ClientMsgs : Send(m)
    BY <1>4, SendsWrite, FlowAssumption
  <2> QED BY <2>1 DEF ChannelNext
<1>5. CASE StartSigmaInCommission
  <2>1. call \in Calls
    BY <1>5 DEF StartSigmaInCommission, GotGood, Got, FlowInv, ControlInv
  <2>2. \E m \in ClientMsgs : ClearKeysAndSend(m)
    BY <1>5, <2>1, RequestTypes, FlowAssumption DEF StartSigmaInCommission
  <2> QED BY <2>2 DEF ChannelNext
<1>6. CASE PaseDone \/ SigmaDone
  <2>1. call \in Calls /\ good \in BOOLEAN
    BY <1>6 DEF PaseDone, SigmaDone, GotGood, Got, FlowInv, ControlInv, TypeInv, FlowTypeOK
  <2>2. \E k \in Keys : InstallPase(k) \/ InstallCase(k)
    BY <1>6, <2>1, KeyFacts DEF PaseDone, SigmaDone
  <2> QED BY <2>2 DEF ChannelNext
<1>7. CASE ExchangeFails \/ CommissionReturnsNil \/ CommissionFails \/ AppAnswer
  BY <1>7 DEF ExchangeFails, CommissionReturnsNil, CommissionFails, AppAnswer, ChannelNext
<1>8. CASE Panics \/ AppExit \/ Restart \/ Collect
  BY <1>8 DEF Panics, AppExit, Restart, Collect, ChannelNext
<1>9. CASE Device
  <2>1. \E k \in KeyOrNone, m \in PeerMsgs : PeerSend(k, m)
    BY <1>9, DeviceSends, FlowAssumption DEF Device
  <2> QED BY <2>1 DEF ChannelNext
<1>10. CASE UNCHANGED vars
  BY <1>10 DEF vars
<1> QED
  BY <1>1, <1>2, <1>3, <1>4, <1>5, <1>6, <1>7, <1>8, <1>9, <1>10 DEF Next, Controller, Sends

-----------------------------------------------------------------------------
(* What steps keep *)

(* What was written stays written *)
Kept ==
    /\ Len(sent) \in Nat /\ Len(sent') \in Nat /\ Len(sent) <= Len(sent')
    /\ \A i \in 1 .. Len(sent) : sent'[i] = sent[i]

LEMMA WriteKeeps ==
    ASSUME FlowInv, ChannelInv, NEW c \in Channels, NEW m, MayWrite(c.key, m),
           m \in WireMsgs, sent' = Written(c, m), UNCHANGED <<call, op>>
    PROVE  SentInv' /\ Kept
<1>1. sent \in Seq(Sealed)
  BY InvParts DEF WrittenInv
<1>2. Datagram(c, m) \in Sealed /\ Datagram(c, m).key = c.key /\ Datagram(c, m).msg = m
  BY IncType DEF Datagram, Sealed, Channels
<1>3. CASE sent' = sent
  BY <1>1, <1>3 DEF Kept, FlowInv, SentInv, MayWrite
<1>4. CASE sent' = Append(sent, Datagram(c, m))
  <2>1. /\ Kept
        /\ Len(sent') = Len(sent) + 1
        /\ sent'[Len(sent')] = Datagram(c, m)
    BY <1>1, <1>2, <1>4 DEF Kept
  <2>2. ASSUME NEW i \in 1 .. Len(sent')
        PROVE  MayWrite(sent'[i].key, sent'[i].msg)
    <3>1. CASE i = Len(sent')
      BY <1>2, <2>1, <3>1
    <3>2. CASE i # Len(sent')
      <4>1. i \in 1 .. Len(sent)
        BY <2>1, <3>2 DEF Kept
      <4> QED BY <2>1, <4>1 DEF Kept, FlowInv, SentInv
    <3> QED BY <3>1, <3>2
  <2> QED BY <2>1, <2>2 DEF SentInv, MayWrite
<1> QED BY <1>3, <1>4 DEF Written

LEMMA QuietKeeps ==
    ASSUME FlowInv, ChannelInv, sent' = sent, UNCHANGED <<call, op>>
    PROVE  SentInv' /\ Kept
<1>1. Len(sent) \in Nat
  BY InvParts DEF WrittenInv
<1> QED BY <1>1 DEF FlowInv, SentInv, MayWrite, Kept

(* A proof holds on while the device forgets nothing *)
LEMMA ProvesStays ==
    ASSUME NEW k, NEW m, Proves(k, m), Kept, handled \subseteq 1 .. Len(sent),
           handled \subseteq handled', dev.keys \subseteq dev'.keys, dev.root => dev'.root
    PROVE  /\ k \in dev'.keys
           /\ k.kind = "pase" /\ m.body = "status0" => dev'.root
           /\ \E i \in handled' : sent'[i].key = k /\ sent'[i].msg.op = "invoke_req"
BY DEF Proves, Kept

(* The controller's steps leave the device alone and add nothing to net *)
LEMMA ControllerKeeps ==
    ASSUME FlowInv, Kept, UNCHANGED devVars, net' \subseteq net
    PROVE  /\ DeviceType' /\ DeviceInv' /\ NetInv'
           /\ handled' \subseteq 1 .. Len(sent') /\ acked' \subseteq 1 .. Len(sent')
           /\ dev'.keys \subseteq SessionKeys
<1> USE DEF FlowInv
<1>1. handled \subseteq 1 .. Len(sent) /\ acked \subseteq 1 .. Len(sent)
  BY DEF TypeInv, FlowTypeOK
<1>2. handled' \subseteq 1 .. Len(sent') /\ acked' \subseteq 1 .. Len(sent')
  BY <1>1 DEF Kept, devVars
<1>3. DeviceType' /\ DeviceInv' /\ dev'.keys \subseteq SessionKeys
  BY DEF TypeInv, DeviceType, DeviceInv, devVars
<1>4. ASSUME NEW d \in net', d.key # NoKey
      PROVE  /\ d.key \in dev'.keys
             /\ IsAck(d.msg) \/ Proves(d.key, d.msg)'
  <2>1. d.key \in dev.keys /\ (IsAck(d.msg) \/ Proves(d.key, d.msg))
    BY <1>4 DEF NetInv
  <2>2. handled' = handled /\ dev' = dev
    BY DEF devVars
  <2>3. CASE Proves(d.key, d.msg)
    <3>1. /\ d.key \in dev'.keys
          /\ d.key.kind = "pase" /\ d.msg.body = "status0" => dev'.root
          /\ \E i \in handled' : sent'[i].key = d.key /\ sent'[i].msg.op = "invoke_req"
      BY <1>1, <2>2, <2>3, ProvesStays
    <3> QED BY <3>1 DEF Proves
  <2> QED BY <2>1, <2>2, <2>3
<1> QED BY <1>2, <1>3, <1>4 DEF NetInv

-----------------------------------------------------------------------------
(* The invariant is inductive *)

(* Results and stored certificates concern the idle controller, and signing *)
ResultsKept ==
    /\ pc' # "idle"
    /\ stored' = stored
    /\ UNCHANGED devVars

LEMMA BusyResults ==
    ASSUME FlowInv, ResultsKept
    PROVE  /\ CommissionNilMeansOnboarded'
           /\ SignedOnlyForOnboardingDevice'
           /\ PortHeldOnlyAfterFailedExchange'
BY DEF FlowInv, ResultsKept, devVars, CommissionNilMeansOnboarded,
       SignedOnlyForOnboardingDevice, PortHeldOnlyAfterFailedExchange

LEMMA BeginKeeps ==
    ASSUME FlowInv, ChannelInv, NEW o \in Operations, Begin(o), sent' = sent
    PROVE  /\ SentInv' /\ Kept
           /\ call' \in Calls /\ op' = o /\ o \in {"commission", "connect"}
<1>1. call \in 0 .. MaxCalls /\ call' = call + 1 /\ call' \in Calls
  BY FlowAssumption DEF FlowInv, TypeInv, FlowTypeOK, Begin, Calls
<1>2. Kept
  BY InvParts DEF WrittenInv, Kept
<1>3. ASSUME NEW i \in 1 .. Len(sent), sent[i].msg \in ControllerMsgs,
             CallOf(sent[i].msg) <= call
      PROVE  CallOf(sent[i].msg) <= call' /\ CallOf(sent[i].msg) # call'
  BY <1>1, <1>3, ControllerMsgShape DEF Calls
<1>4. SentInv'
  BY <1>3 DEF FlowInv, SentInv, MayWrite
<1> QED BY <1>1, <1>2, <1>4, FlowAssumption DEF Begin

LEMMA StartInv ==
    ASSUME FlowInv, ChannelInv, CommissionStart \/ ConnectStart
    PROVE  FlowInv'
<1>1. PICK o \in Operations, c \in StartCounters : Begin(o) /\ StartSecureChannel(c)
  BY DEF CommissionStart, ConnectStart, Begin
<1>2. sent' = sent /\ net' = net /\ sc'.key = NoKey /\ ret' = NoRet /\ UNCHANGED devVars
  BY <1>1 DEF StartSecureChannel, PlainChannel, CommissionStart, ConnectStart
<1>3. SentInv' /\ Kept /\ call' \in Calls /\ op' \in {"commission", "connect"}
  BY <1>1, <1>2, BeginKeeps
<1>4. DeviceType' /\ DeviceInv' /\ NetInv'
      /\ handled' \subseteq 1 .. Len(sent') /\ acked' \subseteq 1 .. Len(sent')
      /\ dev'.keys \subseteq SessionKeys
  BY <1>2, <1>3, ControllerKeeps
<1>5. TypeInv'
  <2>1. good' \in BOOLEAN
    BY DEF CommissionStart, ConnectStart
  <2>2. pc' \in {"pase", "sigma"} /\ UNCHANGED <<result, stored>>
    BY DEF CommissionStart, ConnectStart
  <2>3. CallHasSocket'
    BY <1>1 DEF StartSecureChannel, PlainChannel, CallHasSocket
  <2> QED BY <1>3, <1>4, <2>1, <2>2, <2>3 DEF FlowInv, TypeInv, FlowTypeOK, Calls
<1>6. ControlInv'
  <2>1. \/ pc' = "pase" /\ op' = "commission"
        \/ pc' = "sigma" /\ op' = "connect"
    BY DEF CommissionStart, ConnectStart, Begin
  <2> QED BY <2>1, <1>2, <1>3 DEF ControlInv, InPase, InSigma, UnderPase, UnderCase
<1>7. RetInv'
  BY <1>2 DEF RetInv, NoRet
<1>8. ResultsKept
  BY DEF ResultsKept, CommissionStart, ConnectStart
<1> QED BY <1>3, <1>4, <1>5, <1>6, <1>7, <1>8, BusyResults DEF FlowInv

LEMMA StartFailsInv ==
    ASSUME FlowInv, ChannelInv, StartFails
    PROVE  FlowInv'
<1>1. PICK o \in Operations : Begin(o)
  BY DEF StartFails
<1>2. UNCHANGED <<chanVars, pc, good, stored, devVars>> /\ pc = "idle" /\ result' = "busy"
      /\ port = "bound"
  BY <1>1 DEF StartFails, Begin
<1>3. SentInv' /\ Kept /\ call' \in Calls /\ op' \in {"commission", "connect"}
  BY <1>1, <1>2, BeginKeeps DEF chanVars
<1>4. DeviceType' /\ DeviceInv' /\ NetInv'
      /\ handled' \subseteq 1 .. Len(sent') /\ acked' \subseteq 1 .. Len(sent')
      /\ dev'.keys \subseteq SessionKeys
  BY <1>2, <1>3, ControllerKeeps DEF chanVars
<1>5. TypeInv'
  <2>1. CallHasSocket'
    BY <1>2 DEF CallHasSocket
  <2> QED BY <1>2, <1>3, <1>4, <2>1 DEF FlowInv, TypeInv, FlowTypeOK, Calls
<1>6. ControlInv'
  BY <1>2 DEF ControlInv, InPase, InSigma, UnderPase, UnderCase
<1>7. RetInv'
  BY <1>2 DEF FlowInv, RetInv, Proves, chanVars, devVars
<1>8. CommissionNilMeansOnboarded' /\ SignedOnlyForOnboardingDevice'
  BY <1>2 DEF FlowInv, CommissionNilMeansOnboarded, SignedOnlyForOnboardingDevice, devVars
<1>9. PortHeldOnlyAfterFailedExchange'
  BY <1>2 DEF FlowInv, PortHeldOnlyAfterFailedExchange, chanVars
<1> QED BY <1>3, <1>4, <1>5, <1>6, <1>7, <1>8, <1>9 DEF FlowInv

LEMMA ReceiveInv ==
    ASSUME FlowInv, ChannelInv, Receive
    PROVE  FlowInv'
<1>1. ReceiveStep /\ UNCHANGED <<flowVars, devVars>> /\ pc \in Waits
  BY DEF Receive, InReceive
<1>2. UNCHANGED <<call, op, pc, good, result, stored, handled, acked, dev>>
  BY <1>1 DEF flowVars, devVars
<1>3. /\ net' \subseteq net
      /\ sc'.key = sc.key /\ sc'.Udp = sc.Udp /\ port' = port
      /\ SentInv' /\ Kept
      /\ RetInv'
  <2> USE DEF NoRet, ErrRet, PanicRet
  <2>1. CASE ReceiveTimeout
    BY <1>2, <2>1, QuietKeeps DEF ReceiveTimeout, RetInv
  <2>2. ASSUME NEW d \in net, ReceiveUnopenable(d) \/ ReceiveAck(d)
        PROVE  /\ net' \subseteq net
               /\ sc'.key = sc.key /\ sc'.Udp = sc.Udp /\ port' = port
               /\ SentInv' /\ Kept /\ RetInv'
    BY <1>2, <2>2, QuietKeeps DEF ReceiveUnopenable, ReceiveAck, RetInv, Deliver
  <2>3. ASSUME NEW d \in net, ReceiveMessage(d) \/ ReceivePanic(d)
        PROVE  /\ net' \subseteq net
               /\ sc'.key = sc.key /\ sc'.Udp = sc.Udp /\ port' = port
               /\ SentInv' /\ Kept /\ RetInv'
    <3>1. PICK m \in Opened(d) : ~IsAck(m) /\ Accept(d, m) /\ ret' \in {OkRet(m), PanicRet}
      BY <2>3 DEF ReceiveMessage, ReceivePanic
    <3>2. net' \subseteq net
      BY <2>3 DEF ReceiveMessage, ReceivePanic, Deliver
    <3>3. sc \in Channels /\ sc'.key = sc.key /\ sc'.Udp = sc.Udp
      BY <3>1, SelfSends DEF Accept, Bump, Channels
    <3>7. port' = port
      BY <2>3 DEF ReceiveMessage, ReceivePanic
    <3>4. MayWrite(sc.key, ackGen(m, d.ctr)) /\ ackGen(m, d.ctr) \in WireMsgs
      BY OpenedType DEF MayWrite, ackGen
    <3>5. SentInv' /\ Kept
      BY <1>2, <3>1, <3>3, <3>4, WriteKeeps DEF Accept
    <3>6. RetInv'
      <4>1. SUFFICES ASSUME ret' = OkRet(m), sc.key # NoKey
                     PROVE  RetInv'
        BY <3>1, <3>3 DEF RetInv
      <4>2. m = d.msg /\ d.key = sc.key
        BY <4>1 DEF Opened
      <4>3. Proves(sc.key, m)
        BY <3>1, <4>1, <4>2 DEF FlowInv, NetInv
      <4>4. handled \subseteq 1 .. Len(sent)
        BY DEF FlowInv, TypeInv, FlowTypeOK
      <4>5. /\ sc.key \in dev'.keys
            /\ sc.key.kind = "pase" /\ m.body = "status0" => dev'.root
            /\ \E i \in handled' : sent'[i].key = sc.key /\ sent'[i].msg.op = "invoke_req"
        BY <1>2, <3>5, <4>3, <4>4, ProvesStays
      <4> QED BY <3>3, <4>1, <4>5 DEF RetInv, Proves, OkRet
    <3> QED BY <3>2, <3>3, <3>5, <3>6, <3>7
  <2> QED BY <1>1, <2>1, <2>2, <2>3 DEF ReceiveStep
<1>4. DeviceType' /\ DeviceInv' /\ NetInv'
      /\ handled' \subseteq 1 .. Len(sent') /\ acked' \subseteq 1 .. Len(sent')
      /\ dev'.keys \subseteq SessionKeys
  BY <1>1, <1>3, ControllerKeeps
<1>5. TypeInv'
  <2>1. CallHasSocket'
    BY <1>2, <1>3 DEF FlowInv, TypeInv, FlowTypeOK, CallHasSocket
  <2> QED BY <1>2, <1>4, <2>1 DEF FlowInv, TypeInv, FlowTypeOK
<1>6. ControlInv'
  BY <1>2, <1>3 DEF FlowInv, ControlInv
<1>7. ResultsKept
  BY <1>1, <1>2 DEF ResultsKept, Waits, devVars
<1> QED BY <1>3, <1>4, <1>5, <1>6, <1>7, BusyResults DEF FlowInv

(* The part of the invariant no request of the controller can disturb *)
LEMMA RequestKeeps ==
    ASSUME FlowInv, ChannelInv, UNCHANGED devVars, UNCHANGED <<call, op>>,
           result' \in {result, "nil", "err", "exchange_err", "panic"},
           net' \subseteq net, ret' = NoRet, SentInv', Kept,
           good' \in BOOLEAN, stored' \subseteq Calls,
           pc' \in Waits \cup {"idle", "pase", "csr_send", "sigma", "complete_send", "app"},
           CallHasSocket'
    PROVE  TypeInv' /\ SentInv' /\ DeviceInv' /\ NetInv' /\ RetInv'
<1>1. DeviceType' /\ DeviceInv' /\ NetInv'
      /\ handled' \subseteq 1 .. Len(sent') /\ acked' \subseteq 1 .. Len(sent')
      /\ dev'.keys \subseteq SessionKeys
  BY ControllerKeeps
<1>2. TypeInv'
  BY <1>1 DEF FlowInv, TypeInv, FlowTypeOK
<1>3. RetInv'
  BY DEF RetInv, NoRet
<1> QED BY <1>1, <1>2, <1>3

LEMMA SendsInv ==
    ASSUME FlowInv, ChannelInv, Sends
    PROVE  FlowInv'
<1> USE DEF Sends, Goto, GotGood, Got
<1>1. PICK m \in ControllerMsgs : Send(m) /\ MayWrite(sc.key, m)
  BY SendsWrite
<1>2. sc' = Bump(sc) /\ sent' = Written(sc, m) /\ ret' = NoRet /\ net' = net
  BY <1>1 DEF Send
<1>3. sc \in Channels /\ sc'.key = sc.key
  BY <1>2, SelfSends DEF Bump, Channels
<1>4. UNCHANGED <<call, op, result>> /\ UNCHANGED devVars
  BY DEF PbkdfRequest, Pake1, Pake3, CsrRequest, AddTrustedRootCertificate, AddNOC, Sigma1,
         Sigma3, CommissioningComplete, AppCommand
<1>5. SentInv' /\ Kept
  BY <1>1, <1>2, <1>3, <1>4, WriteKeeps, FlowAssumption DEF WireMsgs
<1>6. good \in BOOLEAN /\ stored \subseteq Calls /\ (pc # "idle" => call \in Calls)
  BY DEF FlowInv, TypeInv, FlowTypeOK, ControlInv
<1>7. good' \in BOOLEAN
  <2>1. good' = good \/ \E e : good' = (good /\ ret.msg.ex = e)
    BY DEF PbkdfRequest, Pake1, Pake3, CsrRequest, AddTrustedRootCertificate, AddNOC, Sigma1,
           Sigma3, CommissioningComplete, AppCommand
  <2> QED BY <1>6, <2>1
<1>8. /\ pc' \in Waits
      /\ stored' \subseteq Calls
      /\ stored \subseteq stored'
  BY <1>6 DEF PbkdfRequest, Pake1, Pake3, CsrRequest, AddTrustedRootCertificate, AddNOC, Sigma1,
              Sigma3, CommissioningComplete, AppCommand, Waits
<1>9. TypeInv' /\ SentInv' /\ DeviceInv' /\ NetInv' /\ RetInv'
  <2>1. pc # "idle" /\ port' = port /\ sc'.Udp = sc.Udp
    BY <1>1, <1>2, <1>3 DEF Send, Bump, Channels, PbkdfRequest, Pake1, Pake3, CsrRequest,
       AddTrustedRootCertificate, AddNOC, Sigma1, Sigma3, CommissioningComplete, AppCommand
  <2>2. CallHasSocket'
    BY <2>1 DEF FlowInv, TypeInv, FlowTypeOK, CallHasSocket
  <2> QED BY <1>2, <1>4, <1>5, <1>7, <1>8, <2>2, RequestKeeps
<1>10. ControlInv'
  <2> USE <1>3, <1>4 DEF FlowInv, ControlInv, InPase, InSigma, UnderPase, UnderCase
  <2>1. CASE PbkdfRequest \/ Pake1 \/ Pake3
    BY <2>1 DEF PbkdfRequest, Pake1, Pake3
  <2>2. CASE CsrRequest \/ AddTrustedRootCertificate
    BY <2>2 DEF CsrRequest, AddTrustedRootCertificate
  <2>3. CASE AddNOC
    BY <2>3 DEF AddNOC
  <2>4. CASE Sigma1
    BY <2>4 DEF Sigma1
  <2>5. CASE Sigma3
    BY <2>5 DEF Sigma3
  <2>6. CASE CommissioningComplete \/ AppCommand
    BY <2>6 DEF CommissioningComplete, AppCommand
  <2> QED BY <2>1, <2>2, <2>3, <2>4, <2>5, <2>6
(* AddNOC: the answer to the root certificate, under the PASE key, proves  *)
(* that the device shares the session and took the root.                   *)
<1>11. SignedOnlyForOnboardingDevice'
  <2>1. CASE AddNOC
    <3>1. pc = "root" /\ ret.st = "ok" /\ ret.msg.body = "status0" /\ stored' = stored \cup {call}
      BY <2>1 DEF AddNOC, InvokeStatusOk
    <3>2. call \in Calls /\ sc.key = SessionKey("pase", call, good)
      BY <3>1 DEF FlowInv, ControlInv, UnderPase
    <3>3. sc.key \in SessionKeys /\ sc.key # NoKey
      BY <1>6, <3>2, KeyFacts
    <3>4. Proves(sc.key, ret.msg)
      BY <3>1, <3>3 DEF FlowInv, RetInv
    <3>5. sc.key.kind = "pase" /\ sc.key.good = good
      BY <3>2 DEF SessionKey
    <3>6. sc.key \in dev.keys /\ dev.root
      BY <3>1, <3>4, <3>5 DEF Proves
    <3>7. good = TRUE
      BY <1>6, <3>5, <3>6 DEF FlowInv, DeviceInv
    <3>8. SessionKey("pase", call, TRUE) \in dev.keys /\ dev.root
      BY <3>2, <3>6, <3>7
    <3> QED BY <1>4, <3>1, <3>8 DEF FlowInv, SignedOnlyForOnboardingDevice, devVars
  <2>2. CASE stored' = stored
    BY <1>4, <2>2 DEF FlowInv, SignedOnlyForOnboardingDevice, devVars
  <2> QED
    BY <2>1, <2>2 DEF PbkdfRequest, Pake1, Pake3, CsrRequest, AddTrustedRootCertificate, Sigma1,
                      Sigma3, CommissioningComplete, AppCommand
<1>12. CommissionNilMeansOnboarded' /\ PortHeldOnlyAfterFailedExchange'
  BY <1>8 DEF CommissionNilMeansOnboarded, PortHeldOnlyAfterFailedExchange, Waits
<1> QED BY <1>9, <1>10, <1>11, <1>12 DEF FlowInv

LEMMA StartSigmaInv ==
    ASSUME FlowInv, ChannelInv, StartSigmaInCommission
    PROVE  FlowInv'
<1> USE DEF StartSigmaInCommission, Goto, GotGood, Got
<1>1. /\ sc' = Bump(Cleared(sc)) /\ sent' = Written(Cleared(sc), genSigma1Req2)
      /\ ret' = NoRet /\ net' = net
  BY DEF ClearKeysAndSend
<1>2. pc = "noc" /\ pc' = "sigma2" /\ good' = TRUE
      /\ UNCHANGED <<call, op, result, stored>> /\ UNCHANGED devVars
  OBVIOUS
<1>3. call \in Calls /\ op = "commission" /\ call \in stored /\ stored \subseteq Calls
  BY <1>2 DEF FlowInv, ControlInv, UnderPase, TypeInv, FlowTypeOK
<1>4. Cleared(sc) \in Channels /\ Cleared(sc).key = NoKey /\ sc'.key = NoKey
  BY <1>1, SelfSends DEF Cleared, Bump, Channels, KeyOrNone
<1>5. genSigma1Req2 \in ControllerMsgs /\ MayWrite(NoKey, genSigma1Req2)
  BY <1>3, RequestTypes, RequestsMayBeWritten
<1>6. SentInv' /\ Kept
  BY <1>1, <1>2, <1>4, <1>5, WriteKeeps, FlowAssumption DEF WireMsgs
<1>7. TypeInv' /\ SentInv' /\ DeviceInv' /\ NetInv' /\ RetInv'
  <2>1. sc'.Udp = sc.Udp /\ port' = port
    BY <1>1, <1>4, SelfSends DEF ClearKeysAndSend, Bump, Cleared, Channels
  <2>2. CallHasSocket'
    BY <1>2, <2>1 DEF FlowInv, TypeInv, FlowTypeOK, CallHasSocket
  <2> QED BY <1>1, <1>2, <1>3, <1>6, <2>2, RequestKeeps DEF Waits
<1>8. ControlInv'
  BY <1>2, <1>3, <1>4 DEF ControlInv, InPase, InSigma, UnderPase, UnderCase
<1> QED BY <1>2, <1>7, <1>8, BusyResults DEF ResultsKept, FlowInv

LEMMA InstallsInv ==
    ASSUME FlowInv, ChannelInv, PaseDone \/ SigmaDone
    PROVE  FlowInv'
<1> USE DEF PaseDone, SigmaDone, Goto, GotGood, Got
<1>1. /\ sent' = sent /\ net' = net /\ ret' = NoRet
      /\ UNCHANGED <<call, op, good, result, stored>> /\ UNCHANGED devVars
  BY DEF InstallPase, InstallCase
<1>2. good \in BOOLEAN /\ stored \subseteq Calls
  BY DEF FlowInv, TypeInv, FlowTypeOK
<1>3. pc' \in {"csr_send", "complete_send", "app"}
  OBVIOUS
<1>4. TypeInv' /\ SentInv' /\ DeviceInv' /\ NetInv' /\ RetInv'
  <2>1. CallHasSocket'
    <3>1. CASE PaseDone
      BY <3>1 DEF InstallPase, CallHasSocket
    <3>2. CASE SigmaDone
      <4>1. sc'.Udp = sc.Udp /\ port' = port /\ sc.Udp /\ port = "bound"
        BY <3>2, SelfSends DEF InstallCase, Channels
      <4> QED BY <4>1 DEF CallHasSocket
    <3> QED BY <3>1, <3>2
  <2> QED BY <1>1, <1>2, <1>3, <2>1, QuietKeeps, RequestKeeps
<1>5. ControlInv'
  <2> USE <1>1 DEF FlowInv, ControlInv, InPase, InSigma, UnderPase, UnderCase
  <2>1. CASE PaseDone
    BY <2>1 DEF InstallPase
  <2>2. CASE SigmaDone
    <3>1. sc'.key = SessionKey("case", call, good)
      BY <2>2, SelfSends DEF InstallCase, Channels
    <3>2. op \in {"commission", "connect"}
      BY DEF TypeInv, FlowTypeOK
    <3> QED BY <2>2, <3>1, <3>2
  <2> QED BY <2>1, <2>2
<1> QED BY <1>1, <1>3, <1>4, <1>5, BusyResults DEF ResultsKept, FlowInv

(* A call that ends well: the answer to CommissioningComplete, under the   *)
(* CASE key of this call, is from a device that has that session.          *)
LEMMA CommissionEnds ==
    ASSUME FlowInv, ChannelInv, CommissionReturnsNil
    PROVE  /\ dev.root /\ dev.noc
           /\ SessionKey("case", call, TRUE) \in dev.keys
           /\ CompletionHandled
           /\ call \in stored
<1>1. pc = "complete" /\ ret.st = "ok"
  BY DEF CommissionReturnsNil, GotGood, Got
<1>2. /\ sc.key = SessionKey("case", call, good) /\ call \in Calls /\ op = "commission"
      /\ call \in stored /\ good \in BOOLEAN
  BY <1>1 DEF FlowInv, ControlInv, UnderCase, TypeInv, FlowTypeOK
<1>3. sc.key # NoKey
  BY <1>2, KeyFacts
<1>4. Proves(sc.key, ret.msg)
  BY <1>1, <1>3 DEF FlowInv, RetInv
<1>5. sc.key.kind = "case" /\ sc.key.call = call /\ sc.key.good = good
  BY <1>2 DEF SessionKey
<1>6. sc.key \in dev.keys /\ good = TRUE /\ dev.noc
  BY <1>2, <1>4, <1>5 DEF Proves, FlowInv, DeviceInv
<1>7. PICK i \in handled : sent[i].key = sc.key /\ sent[i].msg.op = "invoke_req"
  BY <1>4 DEF Proves
<1>8. i \in 1 .. Len(sent) /\ MayWrite(sent[i].key, sent[i].msg)
  BY <1>7 DEF FlowInv, SentInv, TypeInv, FlowTypeOK
<1>9. sent[i].msg.body = "complete" /\ CallOf(sent[i].msg) = call
  <2>1. sent[i].msg.body \in Commands \ {"csr", "root", "noc"} /\ CallOf(sent[i].msg) = call
    BY <1>5, <1>7, <1>8, ControllerMsgShape DEF MayWrite
  <2>2. sent[i].msg.body # "command"
    BY <1>2, <1>7, <1>8, <2>1 DEF MayWrite
  <2> QED BY <2>1, <2>2 DEF Commands
<1>10. dev.root
  BY <1>2 DEF FlowInv, SignedOnlyForOnboardingDevice
<1> QED BY <1>2, <1>6, <1>7, <1>9, <1>10 DEF CompletionHandled

Ends ==
    \/ ExchangeFails
    \/ CommissionReturnsNil \/ CommissionFails \/ AppAnswer
    \/ Panics \/ AppExit

LEMMA EndsInv ==
    ASSUME FlowInv, ChannelInv, Ends
    PROVE  FlowInv'
<1> USE DEF Ends, Return, GotGood, GotBad, Got
<1>1. Drop \/ Close \/ Exit
  BY DEF ExchangeFails, CommissionReturnsNil, CommissionFails, AppAnswer, Panics, AppExit
<1>2. /\ pc' = "idle" /\ result' \in {"nil", "err", "exchange_err", "panic"}
      /\ UNCHANGED <<call, op, good, stored>> /\ UNCHANGED devVars
  BY DEF ExchangeFails, CommissionReturnsNil, CommissionFails, AppAnswer, Panics, AppExit
<1>3. ret' = NoRet /\ net' = net
  BY <1>1 DEF Drop, Close, Exit
<1>4. SentInv' /\ Kept
  <2>1. CASE Drop \/ Exit
    BY <1>2, <2>1, QuietKeeps DEF Drop, Exit
  <2>2. CASE Close
    <3>1. MayWrite(sc.key, CloseReport) /\ CloseReport \in WireMsgs
      BY DEF MayWrite, CloseReport, WireMsgs
    <3> QED BY <1>2, <2>2, <3>1, SelfSends, WriteKeeps DEF Close
  <2> QED BY <1>1, <2>1, <2>2
<1>5. good \in BOOLEAN /\ stored \subseteq Calls
  BY DEF FlowInv, TypeInv, FlowTypeOK
<1>6. TypeInv' /\ SentInv' /\ DeviceInv' /\ NetInv' /\ RetInv'
  <2>1. CallHasSocket'
    BY <1>2 DEF CallHasSocket
  <2> QED BY <1>2, <1>3, <1>4, <1>5, <2>1, RequestKeeps
<1>7. ControlInv'
  BY <1>2 DEF ControlInv, InPase, InSigma, UnderPase, UnderCase
<1>8. SignedOnlyForOnboardingDevice'
  BY <1>2 DEF FlowInv, SignedOnlyForOnboardingDevice, devVars
<1>9. CommissionNilMeansOnboarded'
  <2>1. SUFFICES ASSUME op = "commission", result' = "nil"
                 PROVE  CommissionNilMeansOnboarded'
    BY <1>2 DEF CommissionNilMeansOnboarded
  <2>2. ~AppAnswer /\ ~AppExit
    BY <2>1 DEF AppAnswer, AppExit, FlowInv, ControlInv
  <2>3. CommissionReturnsNil
    BY <2>1, <2>2 DEF ExchangeFails, CommissionFails, Panics
  <2>4. /\ dev.root /\ dev.noc
        /\ SessionKey("case", call, TRUE) \in dev.keys
        /\ CompletionHandled
        /\ call \in stored
    BY <2>3, CommissionEnds
  <2>5. handled \subseteq 1 .. Len(sent)
    BY DEF FlowInv, TypeInv, FlowTypeOK
  <2>6. CompletionHandled'
    BY <1>2, <1>4, <2>4, <2>5 DEF CompletionHandled, Kept, devVars, CallOf
  <2> QED BY <1>2, <2>4, <2>6 DEF CommissionNilMeansOnboarded, devVars
<1>10. PortHeldOnlyAfterFailedExchange'
  <2>1. CASE Drop
    <3>1. ~sc'.Udp
      BY <2>1 DEF Drop, NilChannel
    <3>2. CASE ExchangeFails
      BY <3>1, <3>2 DEF ExchangeFails, PortHeldOnlyAfterFailedExchange
    <3>3. CASE ~ExchangeFails
      BY <3>3, <2>1 DEF CommissionReturnsNil, CommissionFails, AppAnswer, Panics, AppExit,
                 Close, Exit, PortHeldOnlyAfterFailedExchange
    <3> QED BY <3>2, <3>3
  <2>2. CASE Close \/ Exit
    BY <2>2 DEF Close, Exit, PortHeldOnlyAfterFailedExchange
  <2> QED BY <1>1, <2>1, <2>2
<1> QED BY <1>6, <1>7, <1>8, <1>9, <1>10 DEF FlowInv

(* Between calls: the process ends, or a lost socket is collected *)
LEMMA BetweenCallsInv ==
    ASSUME FlowInv, ChannelInv, Restart \/ Collect
    PROVE  FlowInv'
<1>1. UNCHANGED <<flowVars, devVars>> /\ sent' = sent /\ net' = net /\ port' = "free"
  BY DEF Restart, Collect, Exit, Finalize
<1>2. \/ ret' = NoRet /\ pc = "idle"
      \/ ret' = ret /\ sc' = sc
  BY DEF Restart, Collect, Exit, Finalize
<1>3. UNCHANGED <<call, op, pc, good, result, stored, handled, acked, dev>>
  BY <1>1 DEF flowVars, devVars
<1>4. SentInv' /\ Kept
  BY <1>1, <1>3, QuietKeeps
<1>5. DeviceType' /\ DeviceInv' /\ NetInv'
      /\ handled' \subseteq 1 .. Len(sent') /\ acked' \subseteq 1 .. Len(sent')
      /\ dev'.keys \subseteq SessionKeys
  BY <1>1, <1>4, ControllerKeeps
<1>6. TypeInv'
  <2>1. pc = "idle"
    BY DEF Restart, Collect, Finalize, FlowInv, TypeInv, FlowTypeOK, CallHasSocket
  <2>2. CallHasSocket'
    BY <1>3, <2>1 DEF CallHasSocket
  <2> QED BY <1>3, <1>5, <2>2 DEF FlowInv, TypeInv, FlowTypeOK
<1>7. ControlInv'
  BY <1>2, <1>3 DEF FlowInv, ControlInv, InPase, InSigma, UnderPase, UnderCase
<1>8. RetInv'
  BY <1>1, <1>2, <1>3 DEF FlowInv, RetInv, NoRet, Proves
<1>9. CommissionNilMeansOnboarded' /\ SignedOnlyForOnboardingDevice'
  BY <1>1, <1>3 DEF FlowInv, CommissionNilMeansOnboarded, SignedOnlyForOnboardingDevice,
                    CompletionHandled, CallOf
<1>10. PortHeldOnlyAfterFailedExchange'
  BY <1>1 DEF PortHeldOnlyAfterFailedExchange
<1> QED BY <1>4, <1>5, <1>6, <1>7, <1>8, <1>9, <1>10 DEF FlowInv

DeviceHandles(i) ==
    \/ DevPbkdf(i) \/ DevPake1(i) \/ DevPake3(i) \/ DevInvoke(i)
    \/ DevSigma1(i) \/ DevSigma3(i) \/ DevAck(i)

(* One command handled: at most one of the device's credentials changes,   *)
(* and a status of success for the root certificate means it was taken.    *)
LEMMA InvokeEffects ==
    ASSUME NEW i, DevInvoke(i), sent[i].msg.body \in Commands
    PROVE  /\ sent[i].msg.op = "invoke_req" /\ sent[i].key \in dev.keys
           /\ \E b :
                /\ Reply(i, "invoke_rsp", b)
                /\ b = "status0" /\ sent[i].msg.body # "command" => dev' = [dev EXCEPT !.root = TRUE]
           /\ dev' \in {dev, [dev EXCEPT !.root = TRUE], [dev EXCEPT !.noc = TRUE],
                        [dev EXCEPT !.complete = @ \cup {CallOf(sent[i].msg)}]}
<1> USE DEF DevInvoke
<1>1. sent[i].msg.op = "invoke_req" /\ sent[i].key \in dev.keys
  BY DEF Pending
<1>2. CASE sent[i].msg.body = "csr"
  <2>1. \E b \in {"csr", "statusN"} : Reply(i, "invoke_rsp", b) /\ dev' = dev
    BY <1>2
  <2> QED BY <1>1, <2>1
<1>3. CASE sent[i].msg.body = "root"
  <2>1. \/ Reply(i, "invoke_rsp", "status0") /\ dev' = [dev EXCEPT !.root = TRUE]
        \/ Reply(i, "invoke_rsp", "statusN") /\ dev' = dev
    BY <1>3
  <2> QED BY <1>1, <2>1
<1>4. CASE sent[i].msg.body = "noc"
  <2>1. \/ Reply(i, "invoke_rsp", "int0") /\ dev' = [dev EXCEPT !.noc = TRUE]
        \/ Reply(i, "invoke_rsp", "intN") /\ dev' = dev
    BY <1>4
  <2> QED BY <1>1, <2>1
<1>5. CASE sent[i].msg.body = "complete"
  <2>1. \/ /\ Reply(i, "invoke_rsp", "int0")
           /\ dev' = [dev EXCEPT !.complete = @ \cup {CallOf(sent[i].msg)}]
        \/ Reply(i, "invoke_rsp", "intN") /\ dev' = dev
    BY <1>5
  <2> QED BY <1>1, <2>1
<1>6. CASE sent[i].msg.body = "command"
  <2>1. \E b \in {"status0", "statusN"} : Reply(i, "invoke_rsp", b) /\ dev' = dev
    BY <1>6
  <2> QED BY <1>1, <1>6, <2>1
<1> QED BY <1>2, <1>3, <1>4, <1>5, <1>6 DEF Commands

(* Whatever the device does, it either answers or acknowledges *)
LEMMA DeviceAnswers ==
    ASSUME FlowInv, ChannelInv, NEW i \in 1 .. Len(sent), DeviceHandles(i)
    PROVE  (\E o, b : Reply(i, o, b)) \/ DevAck(i)
<1>1. DevInvoke(i) => sent[i].msg.body \in Commands
  BY DeviceSends, ControllerMsgShape DEF DevInvoke, Pending
<1> QED
  BY <1>1, InvokeEffects DEF DeviceHandles, DevPbkdf, DevPake1, DevPake3, DevSigma1, DevSigma3

(* The device forgets neither a session nor a certificate *)
LEMMA DeviceGrows ==
    ASSUME FlowInv, ChannelInv, NEW i \in 1 .. Len(sent), DeviceHandles(i)
    PROVE  /\ DeviceType' /\ DeviceInv'
           /\ dev.keys \subseteq dev'.keys
           /\ dev.root => dev'.root
           /\ dev.noc => dev'.noc
<1>1. DeviceType /\ DeviceInv
  BY DEF FlowInv, TypeInv
<1>2. sent[i].msg \in ControllerMsgs /\ CallOf(sent[i].msg) \in Calls
  BY DeviceSends, ControllerMsgShape DEF DeviceHandles
<1>3. Calls \subseteq 0 .. MaxCalls /\ 0 \notin Calls /\ 0 \in 0 .. MaxCalls
  BY FlowAssumption DEF Calls
<1> USE <1>1, <1>2, <1>3 DEF DeviceType, DeviceInv
<1>4. CASE DevPbkdf(i)
  BY <1>4 DEF DevPbkdf
<1>5. CASE DevPake1(i) \/ DevAck(i)
  BY <1>5 DEF DevPake1, DevAck
<1>6. CASE DevPake3(i)
  <2> DEFINE k == SessionKey("pase", dev.pase, TRUE)
  <2>1. k \in SessionKeys /\ k.good /\ k.kind = "pase"
    BY <1>6, KeyFacts DEF DevPake3, SessionKey
  <2>2. \/ dev' = [dev EXCEPT !.keys = @ \cup {k}, !.pase = 0]
        \/ dev' = [dev EXCEPT !.pase = 0]
    BY <1>6 DEF DevPake3
  <2> HIDE DEF k
  <2>3. CASE dev' = [dev EXCEPT !.keys = @ \cup {k}, !.pase = 0]
    <3>1. dev'.keys = dev.keys \cup {k} /\ dev'.noc = dev.noc /\ dev'.sigma = dev.sigma
      BY <2>3
    <3>2. DeviceType' /\ dev'.root = dev.root
      BY <2>1, <2>3
    <3> QED BY <2>1, <3>1, <3>2
  <2>4. CASE dev' = [dev EXCEPT !.pase = 0]
    BY <2>4
  <2> QED BY <2>2, <2>3, <2>4
<1>7. CASE DevInvoke(i)
  <2>1. dev' \in {dev, [dev EXCEPT !.root = TRUE], [dev EXCEPT !.noc = TRUE],
                  [dev EXCEPT !.complete = @ \cup {CallOf(sent[i].msg)}]}
    BY <1>7, InvokeEffects, ControllerMsgShape DEF DevInvoke, Pending
  <2>2. CASE dev' = [dev EXCEPT !.root = TRUE]
    BY <2>2
  <2>3. CASE dev' = [dev EXCEPT !.noc = TRUE]
    BY <2>3
  <2>4. CASE dev' = [dev EXCEPT !.complete = @ \cup {CallOf(sent[i].msg)}]
    BY <2>4
  <2> QED BY <2>1, <2>2, <2>3, <2>4
<1>8. CASE DevSigma1(i)
  BY <1>8 DEF DevSigma1
<1>9. CASE DevSigma3(i)
  <2> DEFINE k == SessionKey("case", dev.sigma, TRUE)
  <2>1. k \in SessionKeys /\ k.good /\ dev.noc
    BY <1>9, KeyFacts DEF DevSigma3, SessionKey
  <2>2. \/ dev' = [dev EXCEPT !.keys = @ \cup {k}, !.sigma = 0]
        \/ dev' = [dev EXCEPT !.sigma = 0]
    BY <1>9 DEF DevSigma3
  <2> HIDE DEF k
  <2>3. CASE dev' = [dev EXCEPT !.keys = @ \cup {k}, !.sigma = 0]
    <3>1. dev'.keys = dev.keys \cup {k} /\ dev'.noc = dev.noc /\ dev'.sigma = 0
      BY <2>3
    <3>2. DeviceType' /\ dev'.root = dev.root
      BY <2>1, <2>3
    <3> QED BY <2>1, <3>1, <3>2
  <2>4. CASE dev' = [dev EXCEPT !.sigma = 0]
    BY <2>4
  <2> QED BY <2>2, <2>3, <2>4
<1> QED BY <1>4, <1>5, <1>6, <1>7, <1>8, <1>9 DEF DeviceHandles

(* What the device says under a key it can prove *)
LEMMA DeviceProves ==
    ASSUME FlowInv, ChannelInv, NEW i \in 1 .. Len(sent), DeviceHandles(i)
    PROVE  \E m :
             /\ PeerSend(sent[i].key, m)
             /\ sent[i].key # NoKey =>
                  /\ sent[i].key \in dev'.keys
                  /\ \/ IsAck(m)
                     \/ /\ sent[i].key.kind = "pase" /\ m.body = "status0" => dev'.root
                        /\ i \in handled' /\ sent[i].msg.op = "invoke_req"
<1> DEFINE q == sent[i].msg
           k == sent[i].key
<1> USE DEF Reply, Pending
<1>1. q \in ControllerMsgs
  BY DeviceSends DEF DeviceHandles
<1>2. MayWrite(k, q) /\ q.op \notin {"ack", "status"}
  BY <1>1, ControllerMsgShape DEF FlowInv, SentInv
<1>3. CASE q.op # "invoke_req" /\ ~DevAck(i)
  <2>1. k = NoKey
    BY <1>2, <1>3 DEF MayWrite
  <2>2. \E m : PeerSend(k, m)
    BY DeviceSends DEF DeviceHandles
  <2> QED BY <2>1, <2>2
<1>4. CASE DevAck(i)
  <2>1. /\ PeerSend(k, [ackGen(q, sent[i].ctr) EXCEPT !.ini = FALSE])
        /\ k \in dev'.keys \cup {NoKey}
    BY <1>4 DEF DevAck
  <2>2. IsAck([ackGen(q, sent[i].ctr) EXCEPT !.ini = FALSE])
    BY DEF IsAck, ackGen
  <2> QED BY <2>1, <2>2
<1>5. CASE DevInvoke(i)
  <2>1. q.op = "invoke_req" /\ q.body \in Commands
    BY <1>1, <1>5, ControllerMsgShape DEF DevInvoke
  <2>2. PICK b :
          /\ Reply(i, "invoke_rsp", b)
          /\ b = "status0" /\ q.body # "command" => dev' = [dev EXCEPT !.root = TRUE]
    BY <1>5, <2>1, InvokeEffects
  <2>3. k \in dev.keys /\ k \in dev'.keys
    BY <1>5, DeviceGrows DEF DevInvoke
  <2>4. k.kind = "pase" /\ b = "status0" => dev'.root
    BY <1>2, <2>1, <2>2 DEF MayWrite, FlowInv, TypeInv, DeviceType
  <2>5. Answer(q, "invoke_rsp", b).body = b
    BY DEF Answer
  <2>6. PeerSend(k, Answer(q, "invoke_rsp", b)) /\ i \in handled'
    BY <2>2
  <2> QED BY <2>1, <2>3, <2>4, <2>5, <2>6
<1>6. q.op = "invoke_req" => DevInvoke(i) \/ DevAck(i)
  BY DEF DeviceHandles, DevPbkdf, DevPake1, DevPake3, DevSigma1, DevSigma3
<1> QED BY <1>3, <1>4, <1>5, <1>6

LEMMA DeviceStepInv ==
    ASSUME FlowInv, ChannelInv, Device
    PROVE  FlowInv'
<1>1. PICK i \in 1 .. Len(sent) : DeviceHandles(i)
  BY DEF Device, DeviceHandles
<1>2. /\ DeviceType' /\ DeviceInv'
      /\ dev.keys \subseteq dev'.keys
      /\ dev.root => dev'.root
      /\ dev.noc => dev'.noc
  BY <1>1, DeviceGrows
<1>3. /\ UNCHANGED flowVars
      /\ handled \subseteq handled'
      /\ handled' \subseteq 1 .. Len(sent) /\ acked' \subseteq 1 .. Len(sent)
  <2>1. handled \subseteq 1 .. Len(sent) /\ acked \subseteq 1 .. Len(sent)
    BY DEF FlowInv, TypeInv, FlowTypeOK
  <2> QED BY <1>1, <2>1, DeviceAnswers DEF Reply, DevAck
<1>4. UNCHANGED <<call, op, pc, good, result, stored>>
  BY <1>3 DEF flowVars
<1>5. PICK m :
        /\ PeerSend(sent[i].key, m)
        /\ sent[i].key # NoKey =>
             /\ sent[i].key \in dev'.keys
             /\ \/ IsAck(m)
                \/ /\ sent[i].key.kind = "pase" /\ m.body = "status0" => dev'.root
                   /\ i \in handled' /\ sent[i].msg.op = "invoke_req"
  BY <1>1, DeviceProves
<1>6. /\ UNCHANGED <<sc, port, sent, ret>>
      /\ net' = net \cup {[key |-> sent[i].key, ctr |-> pctr', msg |-> m]}
  BY <1>5 DEF PeerSend
<1>7. SentInv' /\ Kept
  BY <1>4, <1>6, QuietKeeps
<1>8. handled \subseteq 1 .. Len(sent)
  BY DEF FlowInv, TypeInv, FlowTypeOK
<1>9. ASSUME NEW k, NEW x, Proves(k, x)
      PROVE  Proves(k, x)'
  <2>1. /\ k \in dev'.keys
        /\ k.kind = "pase" /\ x.body = "status0" => dev'.root
        /\ \E j \in handled' : sent'[j].key = k /\ sent'[j].msg.op = "invoke_req"
    BY <1>2, <1>3, <1>7, <1>8, <1>9, ProvesStays
  <2> QED BY <2>1 DEF Proves
<1>10. NetInv'
  <2> SUFFICES ASSUME NEW d \in net', d.key # NoKey
               PROVE  /\ d.key \in dev'.keys
                      /\ IsAck(d.msg) \/ Proves(d.key, d.msg)'
    BY DEF NetInv
  <2>1. CASE d \in net
    BY <1>2, <1>9, <2>1 DEF FlowInv, NetInv
  <2>2. CASE d = [key |-> sent[i].key, ctr |-> pctr', msg |-> m]
    BY <1>5, <1>6, <2>2 DEF Proves
  <2> QED BY <1>6, <2>1, <2>2
<1>11. RetInv'
  BY <1>6, <1>9 DEF FlowInv, RetInv
<1>12. TypeInv'
  <2>1. dev'.keys \subseteq SessionKeys
    BY <1>2 DEF DeviceType
  <2>2. CallHasSocket'
    BY <1>4, <1>6 DEF FlowInv, TypeInv, FlowTypeOK, CallHasSocket
  <2> QED BY <1>2, <1>3, <1>4, <1>6, <2>1, <2>2 DEF FlowInv, TypeInv, FlowTypeOK
<1>13. ControlInv'
  BY <1>4, <1>6 DEF FlowInv, ControlInv
<1>14. CommissionNilMeansOnboarded'
  <2>1. CompletionHandled => CompletionHandled'
    BY <1>3, <1>4, <1>6 DEF CompletionHandled, CallOf
  <2> QED BY <1>2, <1>4, <2>1 DEF FlowInv, CommissionNilMeansOnboarded
<1>15. SignedOnlyForOnboardingDevice'
  BY <1>2, <1>4 DEF FlowInv, SignedOnlyForOnboardingDevice
<1>16. PortHeldOnlyAfterFailedExchange'
  BY <1>4, <1>6 DEF FlowInv, PortHeldOnlyAfterFailedExchange
<1> QED BY <1>2, <1>7, <1>10, <1>11, <1>12, <1>13, <1>14, <1>15, <1>16 DEF FlowInv

-----------------------------------------------------------------------------
(* Theorems *)

LEMMA FlowInitInv == Init => FlowInv /\ ChannelInv
<1> SUFFICES ASSUME Init PROVE FlowInv /\ ChannelInv
  OBVIOUS
<1>1. ChannelInv
  BY InitInv DEF Init
<1>2. sent = <<>> /\ net = {} /\ sc = NilChannel /\ ret = NoRet /\ port = "free"
  BY DEF Init, ChannelInit
<1>3. TypeInv
  <2>1. DeviceType
    BY FlowAssumption DEF Init, DeviceType
  <2>2. FlowTypeOK
    <3>1. call = 0 /\ good = FALSE /\ op = "commission" /\ pc = "idle" /\ result = "none"
      BY DEF Init
    <3>2. stored = {} /\ handled = {} /\ acked = {} /\ dev.keys = {}
      BY DEF Init
    <3>3. 0 \in 0 .. MaxCalls
      BY FlowAssumption
    <3> QED BY <3>1, <3>2, <3>3 DEF FlowTypeOK, CallHasSocket
  <2> QED BY <2>1, <2>2 DEF TypeInv
<1>4. SentInv /\ NetInv /\ RetInv /\ DeviceInv
  BY <1>2 DEF Init, SentInv, NetInv, RetInv, DeviceInv, NoRet
<1>5. ControlInv
  BY DEF Init, ControlInv, InPase, InSigma, UnderPase, UnderCase
<1>6. /\ CommissionNilMeansOnboarded
      /\ SignedOnlyForOnboardingDevice
      /\ PortHeldOnlyAfterFailedExchange
  BY <1>2 DEF Init, CommissionNilMeansOnboarded, SignedOnlyForOnboardingDevice,
              PortHeldOnlyAfterFailedExchange
<1> QED BY <1>1, <1>3, <1>4, <1>5, <1>6 DEF FlowInv

LEMMA FlowStepInv == FlowInv /\ ChannelInv /\ [Next]_vars => FlowInv' /\ ChannelInv'
<1> SUFFICES ASSUME FlowInv, ChannelInv, [Next]_vars PROVE FlowInv' /\ ChannelInv'
  OBVIOUS
<1>1. ChannelInv'
  BY FlowStepIsChannelStep, StepInv
<1>2. CASE UNCHANGED vars
  <2>1. UNCHANGED <<sc, port, sent, net, ret, call, op, pc, good, result, stored>>
        /\ UNCHANGED <<handled, acked, dev>>
    BY <1>2 DEF vars, chanVars, flowVars, devVars
  <2>2. SentInv' /\ Kept
    BY <2>1, QuietKeeps
  <2>3. TypeInv' /\ ControlInv' /\ DeviceInv' /\ NetInv' /\ RetInv'
    BY <2>1 DEF FlowInv, TypeInv, FlowTypeOK, CallHasSocket, DeviceType, ControlInv,
                DeviceInv, NetInv, RetInv, Proves
  <2>4. /\ CommissionNilMeansOnboarded'
        /\ SignedOnlyForOnboardingDevice'
        /\ PortHeldOnlyAfterFailedExchange'
    BY <2>1 DEF FlowInv, CommissionNilMeansOnboarded, SignedOnlyForOnboardingDevice,
                PortHeldOnlyAfterFailedExchange, CompletionHandled, CallOf
  <2> QED BY <1>1, <2>2, <2>3, <2>4 DEF FlowInv
<1>3. CASE Controller
  BY <1>1, <1>3, ReceiveInv, SendsInv, StartSigmaInv, InstallsInv, EndsInv DEF Controller, Sends, Ends
<1> QED
  BY <1>1, <1>2, <1>3, StartInv, StartFailsInv, BetweenCallsInv, DeviceStepInv DEF Next

(* The invariant holds in every state of every flow. *)
THEOREM FlowInvariant == Spec => [](FlowInv /\ ChannelInv)
<1>1. Init => FlowInv /\ ChannelInv
  BY FlowInitInv
<1>2. (FlowInv /\ ChannelInv) /\ [Next]_vars => (FlowInv /\ ChannelInv)'
  BY FlowStepInv
<1> QED BY <1>1, <1>2, PTL DEF Spec

(* The flows use the channel only through its operations: Flows implements *)
(* SecureChannel.                                                          *)
THEOREM FlowsImplementChannel == Spec => ImplementsChannel
<1>1. Init => ChannelInit
  BY DEF Init
<1>2. (FlowInv /\ ChannelInv) /\ [Next]_vars => [ChannelNext]_chanVars
  BY FlowStepIsChannelStep
<1> QED BY <1>1, <1>2, FlowInvariant, PTL DEF Spec, ImplementsChannel, ChannelSpec

(* So no flow repeats a nonce before the Counter is full circle: neither   *)
(* the keys dropped in the middle of Commission nor the Counter that runs  *)
(* on from PASE to CASE brings one back.                                   *)
THEOREM FlowNonceTheorem == Spec => []NonceReuseOnlyAfterFullCircle
BY FlowsImplementChannel, NonceTheorem, PTL DEF ImplementsChannel

(* And whatever the flows read, late datagrams under dropped keys too, is  *)
(* acknowledged once, in order.                                            *)
THEOREM FlowAckTheorem == Spec => []AcksAnswerAcceptedDatagrams
BY FlowsImplementChannel, AckTheorem, PTL DEF ImplementsChannel

(* Types of a call's location, where it has an open socket, and result,    *)
(* and of the device's sessions.                                           *)
THEOREM FlowTypeCorrect == Spec => []FlowTypeOK
<1>1. FlowInv => FlowTypeOK
  BY DEF FlowInv, TypeInv
<1> QED BY <1>1, FlowInvariant, PTL

(* When Commission returns nil, after whatever other calls, losses and     *)
(* late answers, the device is in the fabric and shares this call's CASE   *)
(* session.                                                                *)
THEOREM CommissionTheorem == Spec => []CommissionNilMeansOnboarded
<1>1. FlowInv => CommissionNilMeansOnboarded
  BY DEF FlowInv
<1> QED BY <1>1, FlowInvariant, PTL

(* Certificates are signed for devices that completed PASE in the call and *)
(* took the root certificate.                                              *)
THEOREM SigningTheorem == Spec => []SignedOnlyForOnboardingDevice
<1>1. FlowInv => SignedOnlyForOnboardingDevice
  BY DEF FlowInv
<1> QED BY <1>1, FlowInvariant, PTL

LEMMA KeyedAnswers == FlowInv => KeyedAnswerProvesSharedSession
BY DEF FlowInv, RetInv, Proves, KeyedAnswerProvesSharedSession

(* What Receive returns on a keyed channel comes from a device that has    *)
(* the session.                                                            *)
THEOREM KeyedAnswerTheorem == Spec => []KeyedAnswerProvesSharedSession
BY KeyedAnswers, FlowInvariant, PTL

LEMMA CommandSessions == FlowInv => CommandsTravelInTheirSession
BY DEF FlowInv, SentInv, MayWrite, CommandsTravelInTheirSession

(* Commands leave under the session of their own call and of their kind,   *)
(* handshakes in the clear.                                                *)
THEOREM CommandSessionTheorem == Spec => []CommandsTravelInTheirSession
BY CommandSessions, FlowInvariant, PTL

(* Between calls only a failed key exchange has left the port bound. *)
THEOREM PortTheorem == Spec => []PortHeldOnlyAfterFailedExchange
<1>1. FlowInv => PortHeldOnlyAfterFailedExchange
  BY DEF FlowInv
<1> QED BY <1>1, FlowInvariant, PTL

(* The five together, over any sequence of calls. *)
THEOREM FlowSafetyTheorem == Spec => []FlowSafety
<1>1. FlowInv => FlowSafety
  BY KeyedAnswers, CommandSessions DEF FlowInv, FlowSafety
<1> QED BY <1>1, FlowInvariant, PTL
=============================================================================
