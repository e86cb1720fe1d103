----------------------------- MODULE Interaction -----------------------------
(***************************************************************************)
(* The commands of the demo program that talk to a commissioned device     *)
(* (demo/main.go: cmd ...), on top of SecureChannel.                       *)
(*                                                                         *)
(* Every command is a process of its own: it loads the fabric, connects,   *)
(* sends a request of the interaction model, waits for the answer, shows   *)
(* something to the user and ends, most often without closing the session. *)
(* `subscribe` stays and shows events until the user stops it, and         *)
(* `open_commissioning` is a timed request followed by an invoke.          *)
(* SigmaExchange is one step here: Flows has its messages.                 *)
(*                                                                         *)
(* The device is external: it answers, refuses or is silent, handles every *)
(* datagram at most once and in any order, confirms an event before it     *)
(* sends the next one, and may close the session.  (A subscription it      *)
(* drops without a word is one in which it sends no more.)                 *)
(* The network is SecureChannel's.                                         *)
(***************************************************************************)
EXTENDS SecureChannel

CONSTANTS
    MaxRuns,    \* bound: commands the user runs
    MaxEvents,  \* bound: events the device reports in a subscription
    Scripts     \* which sequences of commands the user runs

VARIABLES
    script,   \* the commands the user runs, one process each
    run,      \* number of the current (or last) process
    pc,       \* where it is
    short,    \* open_commissioning: W0 lost a leading zero byte
    shown,    \* what the user was shown, in order
    handled,  \* indices of `sent` the device has processed
    dev       \* the device

appVars == <<script, run, pc, short, shown>>
devVars == <<handled, dev>>
vars == <<chanVars, appVars, devVars>>

-----------------------------------------------------------------------------
(* Messages *)

Runs == 1 .. MaxRuns
cmd == IF run = 0 THEN "none" ELSE script[run]

SessionKey(r, g) == [run |-> r, good |-> g]
SessionKeys == [run : Runs, good : BOOLEAN]

(* Exchanges: 0 for reads and subscriptions, a random number for commands, *)
(* the device's own for events                                             *)
ZeroExchange == <<0, "zero">>

(* Mutant of CommandExchange: commands take exchange 0, as reads do *)
CommandExchangeZero == ZeroExchange

CommandExchange == <<run, "command">>
EventExchange(n) == <<n, "event">>

(* Payloads of the interaction model: ProtocolIdInteraction *)
Message(opcode, isIni, exchange, content) ==
    [op |-> opcode, sec |-> FALSE, ini |-> isIni, ex |-> exchange,
     body |-> content, ack |-> 0]

EncodeIMReadRequest == Message("read_req", TRUE, ZeroExchange, "none")
EncodeIMSubscribeRequest == Message("subsc_req", TRUE, ZeroExchange, "none")
EncodeIMTimedRequest == Message("timed_req", TRUE, CommandExchange, "none")
EncodeIMInvokeRequest(command) == Message("invoke_req", TRUE, CommandExchange, command)
EncodeIMStatusResponse(exchange, iflag) == Message("status_rsp", iflag, exchange, "ok")

(* The pake verifier W0 || L: the device needs all 97 bytes *)
OpenWindow(s) == IF s THEN "open_short" ELSE "open"

MsgSet(opcodes, isIni, exchanges, contents) ==
    [op : opcodes, sec : {FALSE}, ini : {isIni}, ex : exchanges, body : contents, ack : {0}]

CommandExchanges == Runs \X {"command"}
EventExchanges == (1 .. MaxEvents) \X {"event"}

(* An invoke is answered by a status of success, a failing one ("statusN"), *)
(* a failing one with a cluster status ("busy", "pake", and "cluster0" for  *)
(* cluster status 0), or by command fields.                                 *)
InvokeAnswers == {"status0", "statusN", "busy", "pake", "cluster0", "fields"}

DeviceMsgs ==
    (UNION { MsgSet({"report"}, FALSE, {ZeroExchange}, {"data", "no_data", "junk"}),
             MsgSet({"report"}, TRUE, EventExchanges, {"data", "junk"}),
             MsgSet({"subsc_rsp"}, FALSE, {ZeroExchange}, {"none"}),
             MsgSet({"status_rsp"}, FALSE, {ZeroExchange} \cup CommandExchanges,
                    {"ok", "fail", "bare"}),
             MsgSet({"invoke_rsp"}, FALSE, CommandExchanges, InvokeAnswers) })
    \cup {CloseReport}

ControllerMsgs ==
    UNION { MsgSet({"read_req", "subsc_req"}, TRUE, {ZeroExchange}, {"none"}),
            MsgSet({"timed_req"}, TRUE, CommandExchanges, {"none"}),
            MsgSet({"invoke_req"}, TRUE, CommandExchanges, {"command", "open", "open_short"}),
            MsgSet({"status_rsp"}, TRUE, {m.ex : m \in DeviceMsgs}, {"ok"}),
            MsgSet({"status_rsp"}, FALSE, {m.ex : m \in DeviceMsgs}, {"ok"}) }

ASSUME InteractionAssumption ==
    /\ MaxRuns \in Nat /\ MaxEvents \in Nat
    /\ Keys = SessionKeys
    /\ ControllerMsgs \subseteq ClientMsgs
    /\ DeviceMsgs \subseteq PeerMsgs
    /\ \A s \in Scripts :
         s \in Seq({"invoke", "logs", "lookup", "dump", "read", "open", "subscribe"})
         /\ Len(s) <= MaxRuns

-----------------------------------------------------------------------------
(* What the commands read out of a message *)

IsReport(m) == m.op = "report"
IsInvokeResponse(m) == m.op = "invoke_rsp"
IsStatusResponse(m) == m.op = "status_rsp"

(* Mutant of HasStatus: the error of GetIntRec is not looked at *)
HasStatusUnchecked(m) == TRUE

(* GetIntRec([]int{1,0,1,1,0}) finds the status of a CommandStatusIB; what *)
(* opcode the message has is not asked.                                    *)
HasStatus(m) == IsInvokeResponse(m) /\ m.body # "fields"
Status(m) == IF HasStatus(m) /\ m.body # "status0" THEN "failure" ELSE "success"

(* GetItemRec([]int{1,0,1,2}) finds the attribute's data *)
HasData(m) == IsReport(m) /\ m.body # "no_data"

(* ParseImInvokeResponse: the status if it is 0, else the cluster status,  *)
(* or -1 when there is none.  So a failure with cluster status 0 is 0 too. *)
ParseImInvokeResponse(m) ==
    CASE m.body \in {"status0", "cluster0"} -> "success"
      [] m.body = "busy" -> "busy"
      [] m.body = "pake" -> "pake parameter error"
      [] OTHER -> "unknown"

(* open_commissioning goes on unless the status is there and is not 0 *)
TimedNotRefused(m) == IsStatusResponse(m) /\ m.body \in {"ok", "bare"}

(* What the user is shown of message m, in the process of this run *)
Shown(kind, exchange, value) == [run |-> run, kind |-> kind, ex |-> exchange, value |-> value]
Show(kind, m, value) == shown' = Append(shown, Shown(kind, m.ex, value))

-----------------------------------------------------------------------------
(* The program *)

(* A new process: createBasicFabric, then StartSecureChannel.  W0 has a    *)
(* leading zero byte for some salts (chance).                              *)
StartCommand ==
    /\ pc = "idle" /\ run < Len(script)
    /\ run' = run + 1
    /\ StartSecureChannel(0)
    /\ pc' = "exchange"
    /\ short' \in IF script[run'] = "open" THEN BOOLEAN ELSE {FALSE}
    /\ UNCHANGED <<script, shown, devVars>>

Goto(l) == pc' = l /\ UNCHANGED <<script, run, short>>

(* connectDeviceFromCmd: SigmaExchange succeeds.  The device has the key   *)
(* unless late messages of another exchange misled it (Flows).             *)
Connected ==
    /\ pc = "exchange"
    /\ \E g \in BOOLEAN :
         /\ InstallCase(SessionKey(run, g))
         /\ dev' = IF g THEN [dev EXCEPT !.keys = @ \cup {SessionKey(run, g)}] ELSE dev
    /\ Goto("request")
    /\ UNCHANGED <<shown, handled>>

(* The process ends, by return, panic or the user's interrupt *)
End == pc' = "idle" /\ short' = FALSE /\ UNCHANGED <<script, run, devVars>>

ConnectFails ==
    /\ pc = "exchange"
    /\ Exit /\ End
    /\ UNCHANGED shown

(* Mutant of SendRequest: the channel the command goes on with is a copy   *)
(* from before the send                                                    *)
SendRequestOnCopy(q, l) ==
    /\ pc = "request"
    /\ sent' = Written(sc, q)
    /\ ret' = NoRet
    /\ Goto(l)
    /\ UNCHANGED <<sc, port, got, used, net, pctr, dups, shown, devVars>>

(* The request of a command, and where it waits for the answer *)
SendRequest(q, l) ==
    /\ pc = "request"
    /\ Send(q)
    /\ Goto(l)
    /\ UNCHANGED <<shown, devVars>>

InvokeRequest == cmd \in {"invoke", "logs"} /\ SendRequest(EncodeIMInvokeRequest("command"), "answer")
ReadRequest == cmd \in {"lookup", "dump", "read"} /\ SendRequest(EncodeIMReadRequest, "answer")
TimedRequest == cmd = "open" /\ SendRequest(EncodeIMTimedRequest, "timed")
SubscribeRequest == cmd = "subscribe" /\ SendRequest(EncodeIMSubscribeRequest, "first")

Waits == {"answer", "timed", "window", "first", "listen"}

(* In the loop of subscribe, errors and all messages but reports lead      *)
(* straight to the next Receive                                            *)
PassedOver == pc = "listen" /\ (ret.st = "err" \/ (ret.st = "ok" /\ ~IsReport(ret.msg)))

InReceive == pc \in Waits /\ (ret.st = "none" \/ PassedOver)

Receive == InReceive /\ ReceiveStep /\ UNCHANGED <<appVars, devVars>>

Got(l) == pc = l /\ ret.st = "ok"

(* The commands that show one answer and end: on, off, color, test (the    *)
(* status), get_logs, list_fabrics and list_supported_clusters (an item of *)
(* the report), list_device_types and list_interfaces (the whole report)   *)
Takes(m) ==
    \/ cmd = "invoke" /\ HasStatus(m)
    \/ cmd = "logs" /\ IsInvokeResponse(m)
    \/ cmd = "lookup" /\ HasData(m)
    \/ cmd = "dump" /\ IsReport(m)

ShowAnswer ==
    /\ Got("answer") /\ Takes(ret.msg)
    /\ IF cmd = "invoke"
       THEN Show("status", ret.msg, Status(ret.msg))
       ELSE Show("message", ret.msg, ret.msg.body)
    /\ Exit /\ End

(* read shows a report, passes over anything else, and closes the session *)
ReadAnswer ==
    /\ Got("answer") /\ cmd = "read"
    /\ IF IsReport(ret.msg) THEN Show("message", ret.msg, ret.msg.body) ELSE UNCHANGED shown
    /\ Close /\ End

(* open_commissioning: the invoke travels in the exchange of the timed     *)
(* request                                                                 *)
InvokeOpenWindow ==
    /\ Got("timed") /\ TimedNotRefused(ret.msg)
    /\ Send(EncodeIMInvokeRequest(OpenWindow(short)))
    /\ Goto("window")
    /\ UNCHANGED <<shown, devVars>>

(* Mutant of IsWindowAnswer: the opcode is not looked at *)
IsWindowAnswerAny(m) == TRUE

IsWindowAnswer(m) == IsInvokeResponse(m)

ShowWindow ==
    /\ Got("window") /\ IsWindowAnswer(ret.msg)
    /\ Show("window", ret.msg, ParseImInvokeResponse(ret.msg))
    /\ Exit /\ End

(* subscribe: the first message, whatever it is, is answered as the        *)
(* initiator of its exchange                                               *)
SubscribeFirst ==
    /\ Got("first")
    /\ IF IsReport(ret.msg) THEN Show("message", ret.msg, ret.msg.body) ELSE UNCHANGED shown
    /\ Send(EncodeIMStatusResponse(ret.msg.ex, TRUE))
    /\ Goto("listen")
    /\ UNCHANGED devVars

(* Mutant of ShowEvent: the report is confirmed, not shown *)
ConfirmEvent ==
    /\ Got("listen") /\ IsReport(ret.msg)
    /\ Send(EncodeIMStatusResponse(ret.msg.ex, FALSE))
    /\ Goto("listen")
    /\ UNCHANGED <<shown, devVars>>

(* ... every later report is answered as the responder *)
ShowEvent ==
    /\ Got("listen") /\ IsReport(ret.msg)
    /\ Show("message", ret.msg, ret.msg.body)
    /\ Send(EncodeIMStatusResponse(ret.msg.ex, FALSE))
    /\ Goto("listen")
    /\ UNCHANGED devVars

(* An error of Receive, or a message that is not the one expected, panics; *)
(* so does mattertlv.Decode on an element it does not know.                *)
Panics ==
    /\ \/ ret.st = "panic" /\ pc \in Waits
       \/ ret.st = "err" /\ pc \in Waits \ {"listen"}
       \/ Got("answer") /\ cmd # "read" /\ ~Takes(ret.msg)
       \/ Got("timed") /\ ~TimedNotRefused(ret.msg)
       \/ Got("window") /\ ~IsWindowAnswer(ret.msg)
    /\ Exit /\ End
    /\ UNCHANGED shown

Interrupt ==
    /\ pc # "idle"
    /\ Exit /\ End
    /\ UNCHANGED shown

Program ==
    \/ Connected \/ ConnectFails
    \/ InvokeRequest \/ ReadRequest \/ TimedRequest \/ SubscribeRequest
    \/ Receive
    \/ ShowAnswer \/ ReadAnswer
    \/ InvokeOpenWindow \/ ShowWindow
    \/ SubscribeFirst \/ ShowEvent
    \/ Panics

-----------------------------------------------------------------------------
(* The device (external) *)

(* What the device sends is remembered in dev.said *)
Say(k, m) == PeerSend(k, m) /\ UNCHANGED appVars
Said(d, k, m) == [d EXCEPT !.said = @ \cup {[key |-> k, msg |-> m]}]

(* The device takes datagram i, once, changes to d and answers *)
Reply(i, d, opcode, content) ==
    LET a == Message(opcode, FALSE, sent[i].msg.ex, content) IN
    /\ handled' = handled \cup {i}
    /\ dev' = Said(d, sent[i].key, a)
    /\ Say(sent[i].key, a)

Pending(i, opcode) ==
    i \notin handled /\ sent[i].msg.op = opcode /\ sent[i].key \in dev.keys

DevRead(i) ==
    /\ Pending(i, "read_req")
    /\ \/ \E b \in {"data", "no_data", "junk"} : Reply(i, dev, "report", b)
       \/ Reply(i, dev, "status_rsp", "fail")

DevInvoke(i) ==
    /\ Pending(i, "invoke_req")
    /\ sent[i].msg.body = "command"
    /\ \/ \E b \in {"status0", "statusN", "cluster0", "fields"} : Reply(i, dev, "invoke_rsp", b)
       \/ Reply(i, dev, "status_rsp", "fail")

DevTimed(i) ==
    /\ Pending(i, "timed_req")
    /\ \/ Reply(i, [dev EXCEPT !.granted = @ \cup {sent[i].msg.ex}], "status_rsp", "ok")
       \/ \E b \in {"fail", "bare"} : Reply(i, dev, "status_rsp", b)

(* The window opens only after a timed request of the same exchange, with  *)
(* a verifier of full length, and unless the device is busy.  Of a refusal *)
(* the interaction model fixes the status; what cluster status comes with  *)
(* it is the device's choice.                                              *)
DevOpenWindow(i) ==
    LET q == sent[i].msg IN
    /\ Pending(i, "invoke_req")
    /\ q.body \in {"open", "open_short"}
    /\ \/ q.ex \notin dev.granted
          /\ \E b \in {"statusN", "cluster0"} : Reply(i, dev, "invoke_rsp", b)
       \/ q.ex \in dev.granted
          /\ \E b \in {"busy", "cluster0"} : Reply(i, dev, "invoke_rsp", b)
       \/ /\ q.ex \in dev.granted /\ q.body = "open_short"
          /\ Reply(i, dev, "invoke_rsp", "pake")
       \/ /\ q.ex \in dev.granted /\ q.body = "open"
          /\ Reply(i, [dev EXCEPT !.opened = @ \cup {q.ex}], "invoke_rsp", "status0")

NoSubscription == [key |-> NoKey, event |-> 0, st |-> "none"]

DevSubscribe(i) ==
    /\ Pending(i, "subsc_req")
    /\ \/ Reply(i, [dev EXCEPT !.sub = [key |-> sent[i].key, event |-> 0, st |-> "report"]],
                "report", "data")
       \/ Reply(i, dev, "status_rsp", "fail")

(* The status response the device waits for, in the exchange and role of   *)
(* its report, confirms the report                                         *)
Confirms(d) ==
    /\ dev.sub.st = "report" /\ d.key = dev.sub.key
    /\ d.msg.ex = IF dev.sub.event = 0 THEN ZeroExchange ELSE EventExchange(dev.sub.event)
    /\ d.msg.ini = (dev.sub.event = 0)

Confirmed(d) ==
    [dev EXCEPT !.sub.st = "active",
                !.confirmed = @ \cup {[key |-> d.key, ex |-> d.msg.ex]}]

DevConfirmed(i) ==
    /\ Pending(i, "status_rsp") /\ Confirms(sent[i])
    /\ IF dev.sub.event = 0
       THEN Reply(i, Confirmed(sent[i]), "subsc_rsp", "none")
       ELSE /\ handled' = handled \cup {i}
            /\ dev' = Confirmed(sent[i])
            /\ UNCHANGED <<chanVars, appVars>>

DevEvent ==
    /\ dev.sub.st = "active" /\ dev.sub.event < MaxEvents
    /\ \E b \in {"data", "junk"} :
         LET a == Message("report", TRUE, EventExchange(dev.sub.event + 1), b) IN
         /\ dev' = Said([dev EXCEPT !.sub.event = @ + 1, !.sub.st = "report"], dev.sub.key, a)
         /\ Say(dev.sub.key, a)
    /\ UNCHANGED handled

(* The device closes a session, and its subscription with it *)
DevCloses ==
    \E k \in dev.keys :
        /\ dev' = [dev EXCEPT !.keys = @ \ {k},
                              !.sub = IF @.key = k THEN NoSubscription ELSE @]
        /\ Say(k, CloseReport)
        /\ UNCHANGED handled

Device ==
    \/ \E i \in 1 .. Len(sent) :
         \/ DevRead(i) \/ DevInvoke(i) \/ DevTimed(i) \/ DevOpenWindow(i)
         \/ DevSubscribe(i) \/ DevConfirmed(i)
    \/ DevEvent \/ DevCloses

-----------------------------------------------------------------------------
Init ==
    /\ ChannelInit
    /\ script \in Scripts
    /\ run = 0 /\ pc = "idle" /\ short = FALSE
    /\ shown = <<>> /\ handled = {}
    /\ dev = [keys |-> {}, granted |-> {}, opened |-> {}, sub |-> NoSubscription,
              confirmed |-> {}, said |-> {}]

Next == StartCommand \/ Program \/ Interrupt \/ Device

Spec == Init /\ [][Next]_vars

(* The process is scheduled, SigmaExchange returns (EveryCallReturns of    *)
(* AckStream: no endless standalone acks) and a Receive that gets nothing  *)
(* hits its read deadline.                                                 *)
FairSpec == Spec /\ WF_vars(Program)

-----------------------------------------------------------------------------
(* Properties *)

(* Type correctness of the commands: where the process is, what it showed, *)
(* and what the device opened and confirmed.                               *)
InteractionTypeOK ==
    /\ run \in 0 .. Len(script)
    /\ pc \in Waits \cup {"idle", "exchange", "request"}
    /\ \A i \in 1 .. Len(shown) : shown[i].run \in 1 .. run
    /\ handled \subseteq 1 .. Len(sent)
    /\ dev.keys \subseteq SessionKeys
    /\ dev.granted \subseteq CommandExchanges /\ dev.opened \subseteq dev.granted

(* Whatever a command shows, a status or a report, the device said in the  *)
(* session of that very command, although no opcode is compared by on and  *)
(* off, no exchange id by any command, and datagrams for earlier commands  *)
(* still arrive on the same port.                                          *)
ShownIsOwnAnswer ==
    \A i \in 1 .. Len(shown) :
        \E s \in dev.said :
            /\ s.key = SessionKey(shown[i].run, TRUE)
            /\ s.msg.ex = shown[i].ex
            /\ CASE shown[i].kind = "status" -> s.msg.op = "invoke_rsp" /\ Status(s.msg) = shown[i].value
                 [] shown[i].kind = "message" -> s.msg.body = shown[i].value
                 [] OTHER -> s.msg.op = "invoke_rsp"

(* The device refused the invoke in this exchange of run r with a failing  *)
(* status whose cluster status is 0.                                       *)
RefusedWithClusterStatus0(r, exchange) ==
    \E s \in dev.said :
        /\ s.key = SessionKey(r, TRUE) /\ s.msg.ex = exchange
        /\ s.msg.op = "invoke_rsp" /\ s.msg.body = "cluster0"

(* open_commissioning says that the window is open only when the device    *)
(* opened it for this command (so with a complete verifier), or refused it *)
(* with cluster status 0, which ParseImInvokeResponse takes for success;   *)
(* it names a failure only when the device did not open it and will not.   *)
(* A repeated answer to the timed request, or one for an earlier command,  *)
(* is not mistaken for the answer to the invoke.                           *)
WindowReportedTruly ==
    \A i \in 1 .. Len(shown) :
        shown[i].kind = "window" =>
            IF shown[i].value = "success"
            THEN \/ shown[i].ex \in dev.opened
                 \/ RefusedWithClusterStatus0(shown[i].run, shown[i].ex)
            ELSE shown[i].ex \notin dev.opened

(* What the user reads in "open commissioning success": the window is open *)
(* (ParseImInvokeResponse "returns 0 when success", messages.go:435).      *)
(* Violated: see RefusedWithClusterStatus0.                                *)
SuccessMeansOpened ==
    \A i \in 1 .. Len(shown) :
        shown[i].kind = "window" /\ shown[i].value = "success" => shown[i].ex \in dev.opened

ShownIn(r, exchange, n) ==
    \E j \in 1 .. n : shown[j].run = r /\ shown[j].ex = exchange

Previous(exchange) ==
    IF exchange = EventExchange(1) THEN ZeroExchange ELSE EventExchange(exchange[1] - 1)

(* What the device holds for delivered the user has seen *)
ConfirmedWasShown == \A c \in dev.confirmed : ShownIn(c.key.run, c.ex, Len(shown))

(* An event is never shown before the one that precedes it *)
EventsShownInOrder ==
    \A i \in 1 .. Len(shown) :
        shown[i].ex \in EventExchanges => ShownIn(shown[i].run, Previous(shown[i].ex), i - 1)

(* A report of run r in this exchange is among the first n things shown *)
ReportShown(r, exchange, n) ==
    \E j \in 1 .. n :
        shown[j].kind = "message" /\ shown[j].run = r /\ shown[j].ex = exchange

Repeated ==
    {i \in 1 .. Len(shown) :
        shown[i].kind = "message" /\ ReportShown(shown[i].run, shown[i].ex, i - 1)}

(* What the device takes for delivered the user has seen: every report it  *)
(* holds for confirmed was shown, events appear in order, and none is      *)
(* shown more often than the network repeated a datagram, whatever is      *)
(* lost, late or delivered twice.                                          *)
EventsReachTheUser ==
    /\ ConfirmedWasShown
    /\ EventsShownInOrder
    /\ Cardinality(Repeated) <= dups

(* Every command ends, whatever is lost, late, repeated or refused and     *)
(* whenever the device closes the session, except subscribe once it        *)
(* listens: it stays until the user stops it, even without a session.      *)
(* This device sends no standalone acks; a stream of them can keep any     *)
(* Receive waiting (AckStream).                                            *)
CommandsEnd == pc # "idle" ~> pc \in {"idle", "listen"}

(* The commands use the channel only through its operations, so what is    *)
(* proved of ChannelSpec holds for them.                                   *)
ImplementsChannel == ChannelSpec
=============================================================================
