-------------------------------- MODULE Flows --------------------------------
(***************************************************************************)
(* The session and commissioning flows of gomat (flows.go, with the        *)
(* message builders of messages.go, spake2p.go and sigma.go) on top of     *)
(* SecureChannel.                                                          *)
(*                                                                         *)
(* A controller process makes one library call at a time: Commission, or   *)
(* ConnectDevice followed by commands of the application.  Each call is a  *)
(* straight line of Send / Receive / check; `pc` names the Receive the     *)
(* call is blocked in, or the step it takes next.                          *)
(*                                                                         *)
(* The device is external.  It is modelled as a conforming Matter device   *)
(* that may answer, refuse, answer malformed, or stay silent; it handles a *)
(* datagram at most once and in any order, so loss and reordering on the   *)
(* way to it are datagrams it handles late or never.  What it sends may    *)
(* arrive late, never or twice (SecureChannel), for instance because it    *)
(* retransmits after a lost ack.                                           *)
(*                                                                         *)
(* Key exchange is abstracted to transcripts: the two ends derive the same *)
(* key exactly when both took each other's messages of the same call (and  *)
(* the passcode is right); otherwise the controller's key is one that      *)
(* nobody else holds (good = FALSE).                                       *)
(***************************************************************************)
EXTENDS SecureChannel

CONSTANTS
    MaxCalls,       \* bound: library calls made in a behaviour
    MaxAcks,        \* bound: standalone acks the device sends
    StartCounters,  \* first counters rand.Intn may yield
    Operations,     \* which library calls are made
    Commissioned    \* the device already has a certificate of this fabric

VARIABLES
    call,     \* number of the current (or last) library call
    op,       \* "commission" or "connect"
    pc,       \* where that call is
    good,     \* both ends' transcripts agree so far (and the passcode is right)
    result,   \* how the last call ended
    stored,   \* calls that signed and stored a device certificate
    handled,  \* indices of `sent` the device has processed
    acked,    \* indices of `sent` the device acknowledged
    dev       \* the device

flowVars == <<call, op, pc, good, result, stored>>
devVars == <<handled, acked, dev>>
vars == <<chanVars, flowVars, devVars>>

-----------------------------------------------------------------------------
(* Messages *)

Calls == 1 .. MaxCalls

SessionKey(kind, n, g) == [kind |-> kind, call |-> n, good |-> g]
SessionKeys == [kind : {"pase", "case"}, call : Calls, good : BOOLEAN]

(* A request: sent by the initiator of an exchange of this call *)
Request(opcode, exchange, content) ==
    [op |-> opcode, sec |-> exchange \in {"pase", "sigma"}, ini |-> TRUE,
     ex |-> <<call, exchange>>, body |-> content, ack |-> 0]

(* pBKDFParamRequest, pake1ParamRequest, pake3ParamRequest *)
pBKDFParamRequest == Request("pbkdf_req", "pase", "none")
pake1ParamRequest == Request("pake1", "pase", "none")
pake3ParamRequest(g) == Request("pake3", "pase", IF g THEN "good" ELSE "bad")

(* genSigma1 and genSigma1Req2; sigma3 and genSigma3Req2 *)
genSigma1Req2 == Request("sigma1", "sigma", "none")
genSigma3Req2(g) == Request("sigma3", "sigma", IF g THEN "good" ELSE "bad")

(* EncodeIMInvokeRequest: each invoke has an exchange of its own *)
EncodeIMInvokeRequest(command) == Request("invoke_req", command, command)

(* ProtocolMessageHeader fields of an answer: same exchange, other role *)
Answer(q, opcode, content) ==
    [op |-> opcode, sec |-> opcode # "invoke_rsp", ini |-> FALSE,
     ex |-> q.ex, body |-> content, ack |-> 0]

(* All messages with these opcodes, in these exchanges, with these bodies *)
MsgSet(opcodes, isSec, isIni, exchanges, contents) ==
    [op : opcodes, sec : {isSec}, ini : {isIni},
     ex : Calls \X exchanges, body : contents, ack : {0}]

Commands == {"csr", "root", "noc", "complete", "command"}

ControllerMsgs ==
    (UNION { MsgSet({"pbkdf_req", "pake1"}, TRUE, TRUE, {"pase"}, {"none"}),
             MsgSet({"sigma1"}, TRUE, TRUE, {"sigma"}, {"none"}),
             MsgSet({"pake3"}, TRUE, TRUE, {"pase"}, {"good", "bad"}),
             MsgSet({"sigma3"}, TRUE, TRUE, {"sigma"}, {"good", "bad"}) })
    \cup (UNION { MsgSet({"invoke_req"}, FALSE, TRUE, {c}, {c}) : c \in Commands })

DeviceMsgs ==
    (UNION { MsgSet({"pbkdf_resp", "pake2"}, TRUE, FALSE, {"pase"}, {"params", "bad"}),
             MsgSet({"sigma2"}, TRUE, FALSE, {"sigma"}, {"params", "bad"}),
             MsgSet({"status"}, TRUE, FALSE, {"pase", "sigma"}, {"ok", "fail"}),
             MsgSet({"invoke_rsp"}, FALSE, FALSE, Commands,
                    {"csr", "status0", "statusN", "int0", "intN"}) })
    \cup [op : {"ack"}, sec : {TRUE}, ini : {FALSE},
          ex : Calls \X (Commands \cup {"pase", "sigma"}), body : {"none"},
          ack : 0 .. MaxCounter]

(* Session keys are records, so that keys of different calls differ; the  *)
(* channel carries at least what the two ends of the flows send.           *)
ASSUME FlowAssumption ==
    /\ MaxCalls \in Nat /\ MaxAcks \in Nat
    /\ Keys = SessionKeys
    /\ ControllerMsgs \subseteq ClientMsgs
    /\ DeviceMsgs \subseteq PeerMsgs
    /\ StartCounters \subseteq 0 .. MaxCounter - 1
    /\ Operations \subseteq {"commission", "connect"}
    /\ Commissioned \in BOOLEAN

-----------------------------------------------------------------------------
(* What the flows read out of a message *)

(* GetOctetStringRec([]int{1,0,0,1,0}) is not empty and holds a CSR *)
HasCsr(m) == m.body = "csr"

(* Mutant of InvokeStatusOk: any answer will do *)
InvokeAnswered(m) == TRUE

(* ParseImInvokeResponse(...) = 0.  That is a CommandStatusIB with status  *)
(* 0, or (messages.go:446-450) one with a failure and cluster status 0.    *)
(* The second is no answer of this device: it is a conforming one, whose   *)
(* refusal of a root certificate has no cluster status.  Interaction and   *)
(* Messages have answers of both kinds.                                    *)
InvokeStatusOk(m) == m.body = "status0"

(* GetIntRec([]int{1,0,0,1,0}) finds an item.  The item may be the octet   *)
(* string of a CSR response, whose valueInt is 0.                          *)
HasCommandField(m) == m.body \in {"csr", "int0", "intN"}
CommandField(m) == IF m.body = "intN" THEN 1 ELSE 0

(* status_report.StatusReport.ProtocolCode: zero unless the message is a   *)
(* status report that carries another value                                *)
ProtocolCode(m) == IF IsStatusReport(m) /\ m.body # "ok" THEN 1 ELSE 0

(* Opcode is STATUS_REP and StatusReport.IsOk(); the report's fields are   *)
(* only filled in when ProtocolId is the secure channel's                  *)
SigmaResultOk(m) == m.op = "status" /\ ProtocolCode(m) = 0

-----------------------------------------------------------------------------
(* Controller steps *)

(* Inside Receive: nothing was returned yet *)
Waits == {"pbkdf", "pake2", "pake_status", "csr", "root", "noc",
          "sigma2", "sigma_status", "complete", "command"}

InReceive == pc \in Waits /\ ret.st = "none"

Receive == InReceive /\ ReceiveStep /\ UNCHANGED <<flowVars, devVars>>

Goto(l) == pc' = l /\ UNCHANGED <<call, op, result, stored>>
Return(r) == pc' = "idle" /\ result' = r /\ UNCHANGED <<call, op, good, stored>>

(* pc = l and Receive returned without error: its message satisfies P *)
Got(l) == pc = l /\ ret.st = "ok"
GotGood(l, P(_)) == Got(l) /\ P(ret.msg)
GotBad(l, P(_)) == pc = l /\ (ret.st = "err" \/ (ret.st = "ok" /\ ~P(ret.msg)))

(* A new call: Commission and ConnectDevice both take port 55555 *)
Begin(o) ==
    /\ pc = "idle"
    /\ call < MaxCalls
    /\ o \in Operations
    /\ call' = call + 1
    /\ op' = o

(* Commission: startUdpChannel, then Spake2pExchange's plain channel.  The *)
(* passcode the user gave may be wrong.                                    *)
CommissionStart ==
    /\ Begin("commission")
    /\ \E c \in StartCounters : StartSecureChannel(c)
    /\ good' \in BOOLEAN
    /\ pc' = "pase"
    /\ UNCHANGED <<result, stored, devVars>>

(* ConnectDevice: StartSecureChannel, then SigmaExchange *)
ConnectStart ==
    /\ Begin("connect")
    /\ \E c \in StartCounters : StartSecureChannel(c)
    /\ good' = TRUE
    /\ pc' = "sigma"
    /\ UNCHANGED <<result, stored, devVars>>

(* Either call fails at once when the port is taken *)
StartFails ==
    /\ \E o \in Operations : Begin(o)
    /\ port = "bound"
    /\ result' = "busy"
    /\ UNCHANGED <<chanVars, pc, good, stored, devVars>>

(* Spake2pExchange *)
PbkdfRequest ==
    /\ pc = "pase"
    /\ Send(pBKDFParamRequest)
    /\ Goto("pbkdf")
    /\ UNCHANGED <<good, devVars>>

IsPbkdfResp(m) == m.op = "pbkdf_resp" /\ m.body # "bad"

Pake1 ==
    /\ GotGood("pbkdf", IsPbkdfResp)
    /\ good' = (good /\ ret.msg.ex = <<call, "pase">>)
    /\ Send(pake1ParamRequest)
    /\ Goto("pake2")
    /\ UNCHANGED devVars

(* The opcode is looked at, the point is not: a malformed one makes        *)
(* calc_ZV panic.                                                          *)
HasPake2Opcode(m) == m.op = "pake2"
IsPake2(m) == HasPake2Opcode(m) /\ m.body # "bad"

Pake3 ==
    /\ GotGood("pake2", IsPake2)
    /\ good' = (good /\ ret.msg.ex = <<call, "pase">>)
    /\ Send(pake3ParamRequest(good'))
    /\ Goto("pake_status")
    /\ UNCHANGED devVars

(* The only check on the last message: no opcode, no general code *)
IsPaseSuccess(m) == ProtocolCode(m) = 0

PaseDone ==
    /\ GotGood("pake_status", IsPaseSuccess)
    /\ InstallPase(SessionKey("pase", call, good))
    /\ Goto("csr_send")
    /\ UNCHANGED <<good, devVars>>

(* Where Spake2pExchange and SigmaExchange return an error *)
ExchangeError ==
    \/ GotBad("pbkdf", IsPbkdfResp)
    \/ GotBad("pake2", HasPake2Opcode)
    \/ GotBad("pake_status", IsPaseSuccess)
    \/ GotBad("sigma_status", SigmaResultOk)
    \/ pc = "sigma2" /\ ret.st \in {"ok", "err"}

(* Mutant of ExchangeFails: Commission and ConnectDevice do not look at    *)
(* the error and go on with the SecureChannel{} they were given.           *)
ExchangeErrorIgnored ==
    /\ ExchangeError
    /\ Drop
    /\ Goto(CASE op = "connect" -> "app"
              [] pc \in {"sigma2", "sigma_status"} -> "complete_send"
              [] OTHER -> "csr_send")
    /\ UNCHANGED <<good, devVars>>

(* An error anywhere in Spake2pExchange or SigmaExchange returns           *)
(* SecureChannel{}: Commission assigns it to secure_channel before it      *)
(* returns, so the deferred Close finds no socket; ConnectDevice returns   *)
(* it.  The socket stays open either way.                                  *)
ExchangeFails ==
    /\ ExchangeError
    /\ Drop
    /\ Return("exchange_err")
    /\ UNCHANGED devVars

(* Commission, under the PASE session *)
CsrRequest ==
    /\ pc = "csr_send"
    /\ Send(EncodeIMInvokeRequest("csr"))
    /\ Goto("csr")
    /\ UNCHANGED <<good, devVars>>

AddTrustedRootCertificate ==
    /\ GotGood("csr", HasCsr)
    /\ Send(EncodeIMInvokeRequest("root"))
    /\ Goto("root")
    /\ UNCHANGED <<good, devVars>>

(* SignCertificate stores the device's certificate, then AddNOC *)
AddNOC ==
    /\ GotGood("root", InvokeStatusOk)
    /\ stored' = stored \cup {call}
    /\ Send(EncodeIMInvokeRequest("noc"))
    /\ pc' = "noc"
    /\ UNCHANGED <<call, op, result, good, devVars>>

NocAccepted(m) == HasCommandField(m) /\ CommandField(m) = 0

(* Keys dropped, SigmaExchange starts on the same channel *)
StartSigmaInCommission ==
    /\ GotGood("noc", NocAccepted)
    /\ ClearKeysAndSend(genSigma1Req2)
    /\ good' = TRUE
    /\ Goto("sigma2")
    /\ UNCHANGED devVars

(* SigmaExchange *)
Sigma1 ==
    /\ pc = "sigma"
    /\ Send(genSigma1Req2)
    /\ Goto("sigma2")
    /\ UNCHANGED <<good, devVars>>

(* Sigma2 arrived, the controller's key and certificate were read *)
IsSigma2(m) == m.op = "sigma2" /\ m.body # "bad"

Sigma3 ==
    /\ GotGood("sigma2", IsSigma2)
    /\ good' = (good /\ ret.msg.ex = <<call, "sigma">>)
    /\ Send(genSigma3Req2(good'))
    /\ Goto("sigma_status")
    /\ UNCHANGED devVars

(* Mutant of SigmaDone: the new keys come with the old session id *)
SigmaDoneOldSession ==
    /\ GotGood("sigma_status", SigmaResultOk)
    /\ sc' = [sc EXCEPT !.key = SessionKey("case", call, good)]
    /\ used' = used \cup {SessionKey("case", call, good)}
    /\ ret' = NoRet
    /\ Goto(IF op = "commission" THEN "complete_send" ELSE "app")
    /\ UNCHANGED <<port, sent, got, net, pctr, dups, good, devVars>>

SigmaDone ==
    /\ GotGood("sigma_status", SigmaResultOk)
    /\ InstallCase(SessionKey("case", call, good))
    /\ Goto(IF op = "commission" THEN "complete_send" ELSE "app")
    /\ UNCHANGED <<good, devVars>>

(* Commission, under the CASE session *)
CommissioningComplete ==
    /\ pc = "complete_send"
    /\ Send(EncodeIMInvokeRequest("complete"))
    /\ Goto("complete")
    /\ UNCHANGED <<good, devVars>>

(* Mutant of CommissionReturnsNil: the answer to CommissioningComplete is  *)
(* not waited for.                                                         *)
CommissionReturnsEarly ==
    /\ pc = "complete"
    /\ Close
    /\ Return("nil")
    /\ UNCHANGED devVars

(* The result code is logged; nil is returned whatever it is *)
CommissionReturnsNil ==
    /\ GotGood("complete", HasCommandField)
    /\ Close
    /\ Return("nil")
    /\ UNCHANGED devVars

(* An error under a session: the deferred Close runs on the live channel. *)
(* SignCertificate may fail too.                                          *)
CommissionFails ==
    /\ \/ GotBad("csr", HasCsr)
       \/ GotBad("root", InvokeStatusOk)
       \/ GotGood("root", InvokeStatusOk)
       \/ GotBad("noc", NocAccepted)
       \/ GotBad("complete", HasCommandField)
    /\ Close
    /\ Return("err")
    /\ UNCHANGED devVars

(* The process ends by a panic: of mattertlv.Decode in Receive or on the   *)
(* octets of the CSR, of the curve on the point of a PAKE2, or of the      *)
(* certificate manager (CertManager) without a CA, on a torn file or on a  *)
(* failing write.  The report of a deferred Close is left out.             *)
Panics ==
    /\ \/ pc \in Waits /\ ret.st = "panic"
       \/ GotGood("pake2", HasPake2Opcode) /\ ~IsPake2(ret.msg)
       \/ GotGood("csr", HasCsr)
       \/ GotGood("root", InvokeStatusOk)
       \/ Got("sigma2") /\ ret.msg.op = "sigma2"
    /\ Exit
    /\ Return("panic")
    /\ UNCHANGED devVars

(* The application, holding the channel ConnectDevice returned *)
AppCommand ==
    /\ pc = "app"
    /\ Send(EncodeIMInvokeRequest("command"))
    /\ Goto("command")
    /\ UNCHANGED <<good, devVars>>

(* ... takes any answer and goes on, or closes, or just ends *)
AppAnswer ==
    /\ pc = "command" /\ ret.st \in {"ok", "err"}
    /\ Close
    /\ Return("nil")
    /\ UNCHANGED devVars

AppExit ==
    /\ pc = "command" /\ ret.st \in {"ok", "err"}
    /\ Exit
    /\ Return("nil")
    /\ UNCHANGED devVars

(* Between calls the process may end and a new one take over *)
Restart ==
    /\ pc = "idle" /\ port = "bound"
    /\ Exit
    /\ UNCHANGED <<flowVars, devVars>>

Collect == Finalize /\ UNCHANGED <<flowVars, devVars>>

Controller ==
    \/ Receive
    \/ PbkdfRequest \/ Pake1 \/ Pake3 \/ PaseDone
    \/ ExchangeFails
    \/ CsrRequest \/ AddTrustedRootCertificate \/ AddNOC
    \/ StartSigmaInCommission \/ Sigma1 \/ Sigma3 \/ SigmaDone
    \/ CommissioningComplete \/ CommissionReturnsNil \/ CommissionFails
    \/ Panics
    \/ AppCommand \/ AppAnswer \/ AppExit

-----------------------------------------------------------------------------
(* The device (external) *)

(* The device takes datagram i, once, and answers q.msg under q.key *)
Reply(i, opcode, content) ==
    /\ handled' = handled \cup {i}
    /\ PeerSend(sent[i].key, Answer(sent[i].msg, opcode, content))
    /\ UNCHANGED <<flowVars, acked>>

Pending(i, opcode) == i \notin handled /\ sent[i].msg.op = opcode

CallOf(q) == q.ex[1]

(* PASE responder *)
DevPbkdf(i) ==
    /\ Pending(i, "pbkdf_req")
    /\ \/ Reply(i, "pbkdf_resp", "params")
       \/ Reply(i, "pbkdf_resp", "bad")
       \/ Reply(i, "status", "fail")
    /\ dev' = [dev EXCEPT !.pase = CallOf(sent[i].msg)]

DevPake1(i) ==
    /\ Pending(i, "pake1")
    /\ dev.pase = CallOf(sent[i].msg)
    /\ UNCHANGED dev
    /\ Reply(i, "pake2", "params") \/ Reply(i, "pake2", "bad")

DevPake3(i) ==
    /\ Pending(i, "pake3")
    /\ dev.pase = CallOf(sent[i].msg)
    /\ IF sent[i].msg.body = "good"
       THEN /\ Reply(i, "status", "ok")
            /\ dev' = [dev EXCEPT !.keys = @ \cup {SessionKey("pase", dev.pase, TRUE)},
                                  !.pase = 0]
       ELSE /\ Reply(i, "status", "fail")
            /\ dev' = [dev EXCEPT !.pase = 0]

(* Operational credentials cluster, under a PASE session the device has *)
DevInvoke(i) ==
    /\ Pending(i, "invoke_req")
    /\ sent[i].key \in dev.keys
    /\ CASE sent[i].msg.body = "csr" ->
              /\ \E b \in {"csr", "statusN"} : Reply(i, "invoke_rsp", b)
              /\ UNCHANGED dev
         [] sent[i].msg.body = "root" ->
              \/ Reply(i, "invoke_rsp", "status0") /\ dev' = [dev EXCEPT !.root = TRUE]
              \/ Reply(i, "invoke_rsp", "statusN") /\ UNCHANGED dev
         [] sent[i].msg.body = "noc" ->
              \/ /\ dev.root
                 /\ Reply(i, "invoke_rsp", "int0")
                 /\ dev' = [dev EXCEPT !.noc = TRUE]
              \/ Reply(i, "invoke_rsp", "intN") /\ UNCHANGED dev
         [] sent[i].msg.body = "complete" ->
              \/ /\ Reply(i, "invoke_rsp", "int0")
                 /\ dev' = [dev EXCEPT !.complete = @ \cup {CallOf(sent[i].msg)}]
              \/ Reply(i, "invoke_rsp", "intN") /\ UNCHANGED dev
         [] sent[i].msg.body = "command" ->
              /\ \E b \in {"status0", "statusN"} : Reply(i, "invoke_rsp", b)
              /\ UNCHANGED dev

(* CASE responder: only a device with a NOC of the fabric has an identity *)
DevSigma1(i) ==
    /\ Pending(i, "sigma1")
    /\ \/ /\ dev.noc
          /\ Reply(i, "sigma2", "params") \/ Reply(i, "sigma2", "bad")
          /\ dev' = [dev EXCEPT !.sigma = CallOf(sent[i].msg)]
       \/ Reply(i, "status", "fail") /\ UNCHANGED dev

DevSigma3(i) ==
    /\ Pending(i, "sigma3")
    /\ dev.sigma = CallOf(sent[i].msg)
    /\ \/ /\ sent[i].msg.body = "good"
          /\ Reply(i, "status", "ok")
          /\ dev' = [dev EXCEPT !.keys = @ \cup {SessionKey("case", dev.sigma, TRUE)},
                                !.sigma = 0]
       \/ Reply(i, "status", "fail") /\ dev' = [dev EXCEPT !.sigma = 0]

(* A standalone ack, sent ahead of a slow answer *)
DevAck(i) ==
    /\ i \notin acked
    /\ Cardinality(acked) < MaxAcks
    /\ sent[i].msg.op \notin {"ack", "status"}
    /\ sent[i].key \in dev.keys \cup {NoKey}
    /\ PeerSend(sent[i].key, [ackGen(sent[i].msg, sent[i].ctr) EXCEPT !.ini = FALSE])
    /\ acked' = acked \cup {i}
    /\ UNCHANGED <<flowVars, handled, dev>>

Device ==
    \E i \in 1 .. Len(sent) :
        \/ DevPbkdf(i) \/ DevPake1(i) \/ DevPake3(i)
        \/ DevInvoke(i)
        \/ DevSigma1(i) \/ DevSigma3(i)
        \/ DevAck(i)

-----------------------------------------------------------------------------
Init ==
    /\ ChannelInit
    /\ call = 0 /\ op = "commission" /\ pc = "idle"
    /\ good = FALSE /\ result = "none"
    /\ stored = {} /\ handled = {} /\ acked = {}
    /\ dev = [pase |-> 0, sigma |-> 0, keys |-> {}, root |-> Commissioned,
              noc |-> Commissioned, complete |-> {}]

Next ==
    \/ CommissionStart \/ ConnectStart \/ StartFails
    \/ Controller
    \/ Restart \/ Collect
    \/ Device

Spec == Init /\ [][Next]_vars

-----------------------------------------------------------------------------
(* Properties *)

(* Inside a call the channel has a socket, and the port is the call's *)
CallHasSocket == pc # "idle" => sc.Udp /\ port = "bound"

(* Type correctness of the flows: the call's location, where it has an     *)
(* open socket, its result and the device's sessions.                      *)
FlowTypeOK ==
    /\ CallHasSocket
    /\ call \in 0 .. MaxCalls
    /\ op \in {"commission", "connect"}
    /\ pc \in Waits \cup {"idle", "pase", "csr_send", "sigma", "complete_send", "app"}
    /\ good \in BOOLEAN
    /\ result \in {"none", "nil", "err", "exchange_err", "busy", "panic"}
    /\ stored \subseteq Calls
    /\ handled \subseteq 1 .. Len(sent) /\ acked \subseteq 1 .. Len(sent)
    /\ dev.keys \subseteq SessionKeys

(* The device has processed (and maybe refused) CommissioningComplete of   *)
(* this call                                                               *)
CompletionHandled ==
    \E i \in handled : sent[i].msg.body = "complete" /\ CallOf(sent[i].msg) = call

(* When Commission returns nil the device trusts the fabric's root, holds  *)
(* a certificate of the fabric, shares the CASE session of this very call  *)
(* and has answered its CommissioningComplete (line 267 logs a refusal),   *)
(* whatever was lost, late or delivered twice on the way: an answer to an  *)
(* older request may pass for the answer to AddNOC, but the sigma exchange *)
(* and the sealed CommissioningComplete answer make up for it.             *)
CommissionNilMeansOnboarded ==
    pc = "idle" /\ op = "commission" /\ result = "nil" =>
        /\ dev.root /\ dev.noc
        /\ SessionKey("case", call, TRUE) \in dev.keys
        /\ CompletionHandled
        /\ call \in stored

(* The certificate manager signs (and stores) a device certificate only    *)
(* for a device that completed PASE in the same call, with the right       *)
(* passcode, and that has accepted the root certificate: the last PASE     *)
(* message is hardly checked, but the sealed answers that follow are.      *)
SignedOnlyForOnboardingDevice ==
    \A n \in stored : SessionKey("pase", n, TRUE) \in dev.keys /\ dev.root

(* A message that Receive returns on a keyed channel proves that the       *)
(* device established the same session.                                    *)
KeyedAnswerProvesSharedSession ==
    pc \in Waits /\ ret.st = "ok" /\ sc.key # NoKey => sc.key \in dev.keys

(* Every cluster command leaves under a session of its own call: the       *)
(* credential commands under PASE, CommissioningComplete and application   *)
(* commands under CASE; handshake messages leave in the clear.             *)
CommandsTravelInTheirSession ==
    \A i \in 1 .. Len(sent) :
        LET q == sent[i].msg IN
        /\ q.op = "invoke_req" =>
              /\ sent[i].key # NoKey
              /\ sent[i].key.call = CallOf(q)
              /\ sent[i].key.kind = IF q.body \in {"csr", "root", "noc"} THEN "pase" ELSE "case"
        /\ q.op \in {"pbkdf_req", "pake1", "pake3", "sigma1", "sigma3"} =>
              sent[i].key = NoKey

(* Between calls the local port is held only when the last call failed in  *)
(* a key exchange, or found the port held for that reason: every other     *)
(* return of Commission, and every end of the application, releases it.    *)
PortHeldOnlyAfterFailedExchange ==
    pc = "idle" /\ port = "bound" => ~sc.Udp /\ result \in {"exchange_err", "busy"}

(* The safety properties above, together: they hold over any sequence of   *)
(* calls, whatever an earlier call left behind.                            *)
FlowSafety ==
    /\ CommissionNilMeansOnboarded
    /\ SignedOnlyForOnboardingDevice
    /\ KeyedAnswerProvesSharedSession
    /\ CommandsTravelInTheirSession
    /\ PortHeldOnlyAfterFailedExchange

(* Flows uses the channel only through its operations, so what is proved   *)
(* of ChannelSpec holds in every flow: Flows implements SecureChannel.     *)
ImplementsChannel == ChannelSpec

(* flows.go: "Spake2pExchange establishes secure session using PASE": when *)
(* it succeeds the device has that session.                                *)
PaseEstablished == pc = "csr_send" => sc.key \in dev.keys

(* flows.go: "SigmaExhange establishes secure session using CASE": when it *)
(* succeeds the device has that session.                                   *)
CaseEstablished == pc \in {"app", "complete_send"} => sc.key \in dev.keys
=============================================================================
