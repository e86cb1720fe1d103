-------------------------- MODULE InteractionProofs --------------------------
(***************************************************************************)
(* Proofs about Interaction, for any scripts of commands and any number of *)
(* events, datagrams and repetitions:                                      *)
(*                                                                         *)
(*   - the commands use the channel only through its operations;           *)
(*   - type correctness;                                                   *)
(*   - whatever a command shows the device said in that command's session; *)
(*   - open_commissioning reports the window truly;                        *)
(*   - the events of a subscription reach the user: what the device holds  *)
(*     for confirmed was shown, in order, and nothing is shown more often  *)
(*     than the network repeated a datagram.                               *)
(*                                                                         *)
(* The inductive invariant follows a datagram from the device's mouth      *)
(* (dev.said) through the network (NetInv) and Receive (RetInv) to the     *)
(* user (ShownInv), and an answer to an invoke back to the one invoke of   *)
(* its exchange (AnswersInv).                                              *)
(*                                                                         *)
(* For the events the argument follows one report.  A session carries one  *)
(* request that is answered with a report (RequestInv), so the device says *)
(* every report once (SaidInv) and the network holds it once (OnceInv); a  *)
(* confirmation is written when its report is shown (StatusInv); and each  *)
(* copy of a report beyond the first, shown, returned or still on its way, *)
(* was paid for by a repetition (CountInv).                                *)
(***************************************************************************)
EXTENDS Interaction, SecureChannelProofs

-----------------------------------------------------------------------------
(* The inductive invariant *)

Exchanges == {m.ex : m \in DeviceMsgs}
Statements == [key : SessionKeys, msg : DeviceMsgs]
ShownItems ==
    [run : Runs, kind : {"status", "message", "window"}, ex : Exchanges,
     value : {"success", "failure", "busy", "pake parameter error", "unknown"}
             \cup {m.body : m \in DeviceMsgs}]

DeviceStates ==
    [keys : SUBSET SessionKeys,
     granted : SUBSET CommandExchanges, opened : SUBSET CommandExchanges,
     sub : [key : KeyOrNone, event : 0 .. MaxEvents, st : {"none", "report", "active"}],
     confirmed : SUBSET [key : KeyOrNone, ex : Exchanges],
     said : SUBSET Statements]

TypeInv ==
    /\ InteractionTypeOK
    /\ dev \in DeviceStates
    /\ script \in Scripts
    /\ short \in BOOLEAN
    /\ shown \in Seq(ShownItems)

(* What a process may write under key k, acks and close reports aside *)
MayWrite(k, q) ==
    q.op \notin {"ack", "status"} =>
        /\ q \in ControllerMsgs
        /\ q.op = "invoke_req" =>
              /\ q.ex[1] \in 1 .. run /\ k.run = q.ex[1]
              /\ q.body = "command" => script[q.ex[1]] # "open"

(* There is at most one invoke in an exchange *)
SentInv ==
    /\ \A i \in 1 .. Len(sent) : MayWrite(sent[i].key, sent[i].msg)
    /\ \A i, j \in 1 .. Len(sent) :
         /\ sent[i].msg.op = "invoke_req" /\ sent[j].msg.op = "invoke_req"
         /\ sent[i].msg.ex = sent[j].msg.ex
         => i = j

NoInvokeYet ==
    \A i \in 1 .. Len(sent) : sent[i].msg.op = "invoke_req" => sent[i].msg.ex[1] # run

ControlInv ==
    /\ pc # "idle" => run \in 1 .. Len(script)
    /\ pc \in Waits \cup {"request"} => \E g \in BOOLEAN : sc.key = SessionKey(run, g)
    /\ pc \in {"timed", "window"} => cmd = "open"
    /\ pc \in {"exchange", "request", "timed"} => NoInvokeYet

(* The device speaks only under keys it shares *)
DeviceInv ==
    /\ \A k \in dev.keys : k.good
    /\ \A s \in dev.said : s.key.good
    /\ dev.sub.st # "none" => dev.sub.key \in SessionKeys /\ dev.sub.key.good

(* The device said m under k, or closed the session *)
Heard(k, m) == m = CloseReport \/ [key |-> k, msg |-> m] \in dev.said

NetInv == \A d \in net : d.key # NoKey /\ Heard(d.key, d.msg)

RetInv == ret.st = "ok" => Heard(sc.key, ret.msg)

Invokes(i, s) ==
    sent[i].msg.op = "invoke_req" /\ sent[i].msg.ex = s.msg.ex /\ sent[i].key = s.key

(* An answer to an invoke stands for the one invoke of its exchange, and   *)
(* success to one that opens the window means that it is open.             *)
AnswersInv ==
    /\ \A s \in dev.said : s.msg.op = "invoke_rsp" =>
         \E i \in handled :
             /\ Invokes(i, s)
             /\ sent[i].msg.body # "command" =>
                   (s.msg.body = "status0" <=> s.msg.ex \in dev.opened)
    /\ \A e \in dev.opened : \E i \in handled : sent[i].msg.op = "invoke_req" /\ sent[i].msg.ex = e

(* What stands behind something the user was shown *)
Founded(x, s) ==
    /\ s.key = SessionKey(x.run, TRUE) /\ s.msg.ex = x.ex
    /\ x.kind = "status" => s.msg.op = "invoke_rsp" /\ Status(s.msg) = x.value
    /\ x.kind = "message" => s.msg.body = x.value
    /\ x.kind = "window" =>
          /\ s.msg.op = "invoke_rsp"
          /\ script[x.run] = "open"
          /\ x.value = "success" <=> s.msg.body \in {"status0", "cluster0"}

ShownInv == \A i \in 1 .. Len(shown) : \E s \in dev.said : Founded(shown[i], s)

InteractionInv ==
    /\ TypeInv /\ SentInv /\ ControlInv /\ DeviceInv
    /\ NetInv /\ RetInv /\ AnswersInv /\ ShownInv

-----------------------------------------------------------------------------
(* Messages *)

LEMMA KeyFacts ==
    /\ NoKey \notin SessionKeys
    /\ \A r \in Runs, g \in BOOLEAN : SessionKey(r, g) \in SessionKeys
    /\ SessionKeys = Keys
BY ChannelAssumption, InteractionAssumption DEF SessionKeys, SessionKey

LEMMA DeviceMsgCases ==
    ASSUME NEW m
    PROVE  m \in DeviceMsgs <=>
             \/ m \in MsgSet({"report"}, FALSE, {ZeroExchange}, {"data", "no_data", "junk"})
             \/ m \in MsgSet({"report"}, TRUE, EventExchanges, {"data", "junk"})
             \/ m \in MsgSet({"subsc_rsp"}, FALSE, {ZeroExchange}, {"none"})
             \/ m \in MsgSet({"status_rsp"}, FALSE, {ZeroExchange} \cup CommandExchanges,
                             {"ok", "fail", "bare"})
             \/ m \in MsgSet({"invoke_rsp"}, FALSE, CommandExchanges, InvokeAnswers)
             \/ m = CloseReport
BY DEF DeviceMsgs

LEMMA ControllerMsgCases ==
    ASSUME NEW m
    PROVE  m \in ControllerMsgs <=>
             \/ m \in MsgSet({"read_req", "subsc_req"}, TRUE, {ZeroExchange}, {"none"})
             \/ m \in MsgSet({"timed_req"}, TRUE, CommandExchanges, {"none"})
             \/ m \in MsgSet({"invoke_req"}, TRUE, CommandExchanges, {"command", "open", "open_short"})
             \/ m \in MsgSet({"status_rsp"}, TRUE, Exchanges, {"ok"})
             \/ m \in MsgSet({"status_rsp"}, FALSE, Exchanges, {"ok"})
BY DEF ControllerMsgs, Exchanges

LEMMA ControllerMsgShape ==
    ASSUME NEW q \in ControllerMsgs
    PROVE  /\ q.op \in {"read_req", "subsc_req", "timed_req", "invoke_req", "status_rsp"}
           /\ q.op \in {"read_req", "subsc_req"} => q.ex = ZeroExchange
           /\ q.op \in {"timed_req", "invoke_req"} => q.ex \in CommandExchanges
           /\ q.op = "invoke_req" => q.body \in {"command", "open", "open_short"}
           /\ q.op = "status_rsp" => q.ex \in Exchanges
<1> USE DEF MsgSet
<1>1. CASE q \in MsgSet({"read_req", "subsc_req"}, TRUE, {ZeroExchange}, {"none"})
  BY <1>1
<1>2. CASE q \in MsgSet({"timed_req"}, TRUE, CommandExchanges, {"none"})
  BY <1>2
<1>3. CASE q \in MsgSet({"invoke_req"}, TRUE, CommandExchanges, {"command", "open", "open_short"})
  BY <1>3
<1>4. CASE \/ q \in MsgSet({"status_rsp"}, TRUE, Exchanges, {"ok"})
           \/ q \in MsgSet({"status_rsp"}, FALSE, Exchanges, {"ok"})
  BY <1>4
<1> QED BY <1>1, <1>2, <1>3, <1>4, ControllerMsgCases

(* The device's messages, by exchange *)
LEMMA DeviceMsgTypes ==
    /\ \A b \in {"data", "no_data", "junk"} :
          Message("report", FALSE, ZeroExchange, b) \in DeviceMsgs
    /\ \A e \in EventExchanges, b \in {"data", "junk"} :
          Message("report", TRUE, e, b) \in DeviceMsgs
    /\ Message("subsc_rsp", FALSE, ZeroExchange, "none") \in DeviceMsgs
    /\ \A e \in {ZeroExchange} \cup CommandExchanges, b \in {"ok", "fail", "bare"} :
          Message("status_rsp", FALSE, e, b) \in DeviceMsgs
    /\ \A e \in CommandExchanges, b \in InvokeAnswers :
          Message("invoke_rsp", FALSE, e, b) \in DeviceMsgs
<1> USE DeviceMsgCases DEF MsgSet, Message
<1>1. \A b \in {"data", "no_data", "junk"} : Message("report", FALSE, ZeroExchange, b) \in DeviceMsgs
  OBVIOUS
<1>2. \A e \in EventExchanges, b \in {"data", "junk"} : Message("report", TRUE, e, b) \in DeviceMsgs
  OBVIOUS
<1>3. Message("subsc_rsp", FALSE, ZeroExchange, "none") \in DeviceMsgs
  OBVIOUS
<1>4. \A e \in {ZeroExchange} \cup CommandExchanges, b \in {"ok", "fail", "bare"} :
        Message("status_rsp", FALSE, e, b) \in DeviceMsgs
  OBVIOUS
<1>5. \A e \in CommandExchanges, b \in InvokeAnswers :
        Message("invoke_rsp", FALSE, e, b) \in DeviceMsgs
  OBVIOUS
<1> QED BY <1>1, <1>2, <1>3, <1>4, <1>5

LEMMA RequestTypes ==
    ASSUME run \in Runs
    PROVE  /\ EncodeIMReadRequest \in ControllerMsgs
           /\ EncodeIMSubscribeRequest \in ControllerMsgs
           /\ EncodeIMTimedRequest \in ControllerMsgs
           /\ \A c \in {"command", "open", "open_short"} : EncodeIMInvokeRequest(c) \in ControllerMsgs
           /\ \A e \in Exchanges, b \in BOOLEAN : EncodeIMStatusResponse(e, b) \in ControllerMsgs
<1> USE ControllerMsgCases DEF MsgSet, Message
<1>1. EncodeIMReadRequest \in ControllerMsgs /\ EncodeIMSubscribeRequest \in ControllerMsgs
  BY DEF EncodeIMReadRequest, EncodeIMSubscribeRequest
<1>2. EncodeIMTimedRequest \in ControllerMsgs
  BY DEF EncodeIMTimedRequest, CommandExchange, CommandExchanges
<1>3. \A c \in {"command", "open", "open_short"} : EncodeIMInvokeRequest(c) \in ControllerMsgs
  BY DEF EncodeIMInvokeRequest, CommandExchange, CommandExchanges
<1>4. \A e \in Exchanges, b \in BOOLEAN : EncodeIMStatusResponse(e, b) \in ControllerMsgs
  <2> SUFFICES ASSUME NEW e \in Exchanges, NEW b \in BOOLEAN
               PROVE  EncodeIMStatusResponse(e, b) \in ControllerMsgs
    OBVIOUS
  <2>1. CASE b = TRUE
    BY <2>1 DEF EncodeIMStatusResponse
  <2>2. CASE b = FALSE
    BY <2>2 DEF EncodeIMStatusResponse
  <2> QED BY <2>1, <2>2
<1> QED BY <1>1, <1>2, <1>3, <1>4

LEMMA RunType ==
    ASSUME InteractionInv, pc # "idle"
    PROVE  run \in Runs /\ run \in Nat /\ run \in 1 .. Len(script)
<1>1. run \in 1 .. Len(script) /\ script \in Scripts
  BY DEF InteractionInv, ControlInv, TypeInv
<1> QED BY <1>1, InteractionAssumption DEF Runs

-----------------------------------------------------------------------------
(* What steps keep *)

(* What was written stays written *)
Kept ==
    /\ Len(sent) \in Nat /\ Len(sent') \in Nat /\ Len(sent) <= Len(sent')
    /\ \A i \in 1 .. Len(sent) : sent'[i] = sent[i]

(* An invoke may be written if its exchange has none yet *)
LEMMA WriteKeeps ==
    ASSUME InteractionInv, ChannelInv, NEW c \in Channels, NEW m, MayWrite(c.key, m),
           m \in WireMsgs, sent' = Written(c, m), UNCHANGED <<script, run>>,
           m.op = "invoke_req" => NoInvokeYet /\ m.ex[1] = run
    PROVE  /\ SentInv' /\ Kept
           /\ m.op # "invoke_req" /\ NoInvokeYet => NoInvokeYet'
<1>1. sent \in Seq(Sealed)
  BY InvParts DEF WrittenInv
<1>2. Datagram(c, m) \in Sealed /\ Datagram(c, m).key = c.key /\ Datagram(c, m).msg = m
  BY IncType DEF Datagram, Sealed, Channels
<1>3. CASE sent' = sent
  BY <1>1, <1>3 DEF Kept, InteractionInv, SentInv, MayWrite, NoInvokeYet
<1>4. CASE sent' = Append(sent, Datagram(c, m))
  <2>1. /\ Kept
        /\ Len(sent') = Len(sent) + 1
        /\ sent'[Len(sent')] = Datagram(c, m)
    BY <1>1, <1>2, <1>4 DEF Kept
  <2>2. ASSUME NEW i \in 1 .. Len(sent')
        PROVE  \/ i = Len(sent') /\ sent'[i].msg = m /\ sent'[i].key = c.key
               \/ i \in 1 .. Len(sent) /\ sent'[i] = sent[i]
    <3>1. CASE i = Len(sent')
      BY <1>2, <2>1, <3>1
    <3>2. CASE i # Len(sent')
      <4>1. i \in 1 .. Len(sent)
        BY <2>1, <3>2 DEF Kept
      <4> QED BY <2>1, <4>1 DEF Kept
    <3> QED BY <3>1, <3>2
  <2>3. ASSUME NEW i \in 1 .. Len(sent')
        PROVE  MayWrite(sent'[i].key, sent'[i].msg)
    BY <2>2 DEF InteractionInv, SentInv
  <2>4. ASSUME NEW i \in 1 .. Len(sent'), NEW j \in 1 .. Len(sent'),
               sent'[i].msg.op = "invoke_req", sent'[j].msg.op = "invoke_req",
               sent'[i].msg.ex = sent'[j].msg.ex
        PROVE  i = j
    <3>1. CASE i = Len(sent') /\ j # Len(sent')
      <4>1. sent'[i].msg = m /\ j \in 1 .. Len(sent) /\ sent'[j] = sent[j]
        BY <2>1, <2>2, <3>1 DEF Kept
      <4>2. m.op = "invoke_req" => NoInvokeYet /\ m.ex[1] = run
        OBVIOUS
      <4>3. NoInvokeYet /\ m.ex[1] = run
        BY <2>4, <4>1, <4>2
      <4> QED BY <2>4, <4>1, <4>3 DEF NoInvokeYet
    <3>2. CASE i # Len(sent') /\ j = Len(sent')
      <4>1. sent'[j].msg = m /\ i \in 1 .. Len(sent) /\ sent'[i] = sent[i]
        BY <2>1, <2>2, <3>2 DEF Kept
      <4>2. m.op = "invoke_req" => NoInvokeYet /\ m.ex[1] = run
        OBVIOUS
      <4>3. NoInvokeYet /\ m.ex[1] = run
        BY <2>4, <4>1, <4>2
      <4> QED BY <2>4, <4>1, <4>3 DEF NoInvokeYet
    <3>3. CASE i # Len(sent') /\ j # Len(sent')
      <4>1. i \in 1 .. Len(sent) /\ sent'[i] = sent[i] /\ j \in 1 .. Len(sent) /\ sent'[j] = sent[j]
        BY <2>2, <3>3
      <4> QED BY <2>4, <4>1 DEF InteractionInv, SentInv
    <3> QED BY <3>1, <3>2, <3>3
  <2>5. m.op # "invoke_req" /\ NoInvokeYet => NoInvokeYet'
    BY <2>2 DEF NoInvokeYet
  <2>6. SentInv'
    <3>1. \A i \in 1 .. Len(sent') : MayWrite(sent'[i].key, sent'[i].msg)
      BY <2>3
    <3>2. \A i, j \in 1 .. Len(sent') :
            /\ sent'[i].msg.op = "invoke_req" /\ sent'[j].msg.op = "invoke_req"
            /\ sent'[i].msg.ex = sent'[j].msg.ex
            => i = j
      BY <2>4
    <3> QED BY <3>1, <3>2 DEF SentInv, MayWrite
  <2> QED BY <2>1, <2>5, <2>6
<1> QED BY <1>3, <1>4 DEF Written

LEMMA QuietKeeps ==
    ASSUME InteractionInv, ChannelInv, sent' = sent, UNCHANGED <<script, run>>
    PROVE  SentInv' /\ Kept /\ (NoInvokeYet => NoInvokeYet')
<1>1. Len(sent) \in Nat
  BY InvParts DEF WrittenInv
<1> QED BY <1>1 DEF InteractionInv, SentInv, MayWrite, Kept, NoInvokeYet

(* The program's steps leave the device alone and add nothing to net *)
LEMMA ProgramKeeps ==
    ASSUME InteractionInv, Kept, UNCHANGED devVars, net' \subseteq net
    PROVE  /\ dev' \in DeviceStates /\ DeviceInv' /\ NetInv' /\ AnswersInv'
           /\ handled' \subseteq 1 .. Len(sent')
           /\ dev'.keys \subseteq SessionKeys
           /\ dev'.granted \subseteq CommandExchanges /\ dev'.opened \subseteq dev'.granted
<1> USE DEF InteractionInv
<1>1. /\ handled \subseteq 1 .. Len(sent) /\ dev.keys \subseteq SessionKeys
      /\ dev.granted \subseteq CommandExchanges /\ dev.opened \subseteq dev.granted
      /\ dev \in DeviceStates
  BY DEF TypeInv, InteractionTypeOK
<1>2. handled' = handled /\ dev' = dev
  BY DEF devVars
<1>3. \A i \in handled : i \in 1 .. Len(sent) /\ sent'[i] = sent[i]
  BY <1>1 DEF Kept
<1>4. DeviceInv' /\ NetInv'
  BY <1>2 DEF DeviceInv, NetInv, Heard
<1>5. AnswersInv'
  BY <1>2, <1>3 DEF AnswersInv, Invokes
<1>6. handled' \subseteq 1 .. Len(sent')
  BY <1>1, <1>2 DEF Kept
<1> QED BY <1>1, <1>2, <1>4, <1>5, <1>6

ShownGood ==
    /\ shown \in Seq(ShownItems) /\ ShownInv
    /\ \A i \in 1 .. Len(shown) : shown[i].run \in 1 .. run

(* What was shown keeps its foundation *)
LEMMA ShownStays ==
    ASSUME InteractionInv, UNCHANGED <<script, shown>>, dev.said \subseteq dev'.said,
           run' \in Nat, run <= run'
    PROVE  ShownGood'
<1> USE DEF InteractionInv
<1>1. /\ shown \in Seq(ShownItems) /\ script \in Scripts /\ run \in 0 .. Len(script)
      /\ \A i \in 1 .. Len(shown) : shown[i].run \in 1 .. run
  BY DEF TypeInv, InteractionTypeOK
<1>2. \A i \in 1 .. Len(shown') : shown'[i].run \in 1 .. run'
  BY <1>1, InteractionAssumption
<1>3. ShownInv'
  BY DEF ShownInv, Founded
<1> QED BY <1>1, <1>2, <1>3 DEF ShownGood

LEMMA ProgramStep ==
    ASSUME InteractionInv, UNCHANGED devVars, UNCHANGED script, net' \subseteq net,
           SentInv', Kept, ControlInv', RetInv', ShownGood',
           run' \in 0 .. Len(script'), short' \in BOOLEAN,
           pc' \in Waits \cup {"idle", "exchange", "request"}
    PROVE  InteractionInv'
<1>1. /\ dev' \in DeviceStates /\ DeviceInv' /\ NetInv' /\ AnswersInv'
      /\ handled' \subseteq 1 .. Len(sent')
      /\ dev'.keys \subseteq SessionKeys
      /\ dev'.granted \subseteq CommandExchanges /\ dev'.opened \subseteq dev'.granted
  BY ProgramKeeps
<1>2. TypeInv'
  BY <1>1 DEF InteractionInv, TypeInv, InteractionTypeOK, ShownGood
<1> QED BY <1>1, <1>2 DEF InteractionInv, ShownGood

(* What a waiting command has got, the device said in its session *)
LEMMA OwnAnswer ==
    ASSUME InteractionInv, pc \in Waits, ret.st = "ok"
    PROVE  /\ ret.msg \in DeviceMsgs /\ ret.msg.ex \in Exchanges
           /\ \/ ret.msg = CloseReport
              \/ [key |-> SessionKey(run, TRUE), msg |-> ret.msg] \in dev.said
<1>1. Heard(sc.key, ret.msg)
  BY DEF InteractionInv, RetInv
<1>2. PICK g \in BOOLEAN : sc.key = SessionKey(run, g)
  BY DEF InteractionInv, ControlInv
<1>3. dev.said \subseteq Statements
  BY DEF InteractionInv, TypeInv, DeviceStates
<1>4. CASE ret.msg = CloseReport
  <2>1. CloseReport \in DeviceMsgs
    BY DeviceMsgCases
  <2> QED BY <1>4, <2>1 DEF Exchanges
<1>5. CASE [key |-> sc.key, msg |-> ret.msg] \in dev.said
  <2>1. ret.msg \in DeviceMsgs
    BY <1>3, <1>5 DEF Statements
  <2>2. sc.key.good
    BY <1>5 DEF InteractionInv, DeviceInv
  <2>3. g = TRUE
    BY <1>2, <2>2 DEF SessionKey
  <2>4. sc.key = SessionKey(run, TRUE)
    BY <1>2, <2>3
  <2> QED BY <1>5, <2>1, <2>4 DEF Exchanges
<1> QED BY <1>1, <1>4, <1>5 DEF Heard

LEMMA ShowKeeps ==
    ASSUME InteractionInv, UNCHANGED <<script, run, handled, dev>>, pc \in Waits, ret.st = "ok",
           ret.msg # CloseReport, NEW kind, NEW value, Show(kind, ret.msg, value),
           Shown(kind, ret.msg.ex, value) \in ShownItems,
           Founded(Shown(kind, ret.msg.ex, value), [key |-> SessionKey(run, TRUE), msg |-> ret.msg])
    PROVE  ShownGood'
<1> DEFINE x == Shown(kind, ret.msg.ex, value)
           s == [key |-> SessionKey(run, TRUE), msg |-> ret.msg]
<1>1. s \in dev.said
  BY OwnAnswer
<1>2. /\ shown \in Seq(ShownItems)
      /\ \A i \in 1 .. Len(shown) : shown[i].run \in 1 .. run
  BY DEF InteractionInv, TypeInv, InteractionTypeOK
<1>3. run \in 1 .. run
  BY RunType DEF Waits, InteractionInv
<1>4. x.run = run
  BY DEF Shown
<1>5. x \in ShownItems /\ shown' = Append(shown, x)
  BY DEF Show
<1>6. Founded(x, s)
  OBVIOUS
<1> HIDE DEF x, s
<1>7. /\ shown' \in Seq(ShownItems)
      /\ Len(shown') = Len(shown) + 1 /\ Len(shown) \in Nat
      /\ shown'[Len(shown')] = x
      /\ \A i \in 1 .. Len(shown) : shown'[i] = shown[i]
  BY <1>2, <1>5
<1>8. ASSUME NEW i \in 1 .. Len(shown')
      PROVE  shown'[i].run \in 1 .. run /\ \E t \in dev.said : Founded(shown'[i], t)
  <2>1. CASE i = Len(shown')
    BY <1>1, <1>3, <1>4, <1>6, <1>7, <2>1
  <2>2. CASE i # Len(shown')
    <3>1. i \in 1 .. Len(shown) /\ shown'[i] = shown[i]
      BY <1>7, <2>2
    <3> QED BY <1>2, <3>1 DEF InteractionInv, ShownInv
  <2> QED BY <2>1, <2>2
<1>9. dev' = dev /\ script' = script /\ run' = run
  BY DEF devVars
<1>10. ShownInv'
  BY <1>8, <1>9 DEF ShownInv, Founded
<1> QED BY <1>7, <1>8, <1>9, <1>10 DEF ShownGood

-----------------------------------------------------------------------------
(* The invariant is inductive: the program *)

LEMMA StartInv ==
    ASSUME InteractionInv, ChannelInv, StartCommand
    PROVE  InteractionInv'
<1> USE DEF InteractionInv
<1>1. /\ sent' = sent /\ net' = net /\ ret' = NoRet /\ run' = run + 1
      /\ run < Len(script) /\ pc' = "exchange"
      /\ UNCHANGED <<script, shown, devVars>>
  BY DEF StartCommand, StartSecureChannel
<1>2. run \in 0 .. Len(script) /\ script \in Scripts /\ short' \in BOOLEAN
  BY DEF StartCommand, TypeInv, InteractionTypeOK
<1>3. Len(script) \in Nat /\ run \in Nat
  BY <1>2, InteractionAssumption
<1>4. run' \in 1 .. Len(script) /\ run' \in 0 .. Len(script') /\ run' \in Nat /\ run <= run'
  BY <1>1, <1>2, <1>3
<1>5. Kept
  BY <1>1, InvParts DEF WrittenInv, Kept
<1>6. \A i \in 1 .. Len(sent) :
        sent[i].msg.op = "invoke_req" => sent[i].msg.ex[1] \in 1 .. run
  BY DEF SentInv, MayWrite
<1>7. SentInv'
  BY <1>1, <1>3, <1>6 DEF SentInv, MayWrite
<1>8. NoInvokeYet'
  BY <1>1, <1>3, <1>6 DEF NoInvokeYet
<1>9. ControlInv'
  BY <1>1, <1>4, <1>8 DEF ControlInv, Waits
<1>10. RetInv'
  BY <1>1 DEF RetInv, NoRet
<1>11. ShownGood'
  BY <1>1, <1>4, ShownStays DEF devVars
<1> QED BY <1>1, <1>2, <1>4, <1>5, <1>7, <1>9, <1>10, <1>11, ProgramStep

LEMMA ConnectedInv ==
    ASSUME InteractionInv, ChannelInv, Connected
    PROVE  InteractionInv'
<1> USE DEF InteractionInv
<1>1. PICK g \in BOOLEAN :
        /\ InstallCase(SessionKey(run, g))
        /\ dev' = IF g THEN [dev EXCEPT !.keys = @ \cup {SessionKey(run, g)}] ELSE dev
  BY DEF Connected
<1>2. /\ pc = "exchange" /\ pc' = "request"
      /\ UNCHANGED <<script, run, short, shown, handled, sent, net>> /\ ret' = NoRet
      /\ sc'.key = SessionKey(run, g)
  BY <1>1, SelfSends DEF Connected, Goto, InstallCase, Channels
<1>3. run \in Runs /\ SessionKey(run, g) \in SessionKeys
  BY <1>2, RunType, KeyFacts
<1>4. dev \in DeviceStates /\ dev.opened \subseteq dev.granted /\ dev.granted \subseteq CommandExchanges
  BY DEF TypeInv, InteractionTypeOK
<1>5. /\ dev' \in DeviceStates /\ dev'.said = dev.said /\ dev'.opened = dev.opened
      /\ dev'.granted = dev.granted /\ dev'.sub = dev.sub
      /\ dev'.keys \subseteq dev.keys \cup {SessionKey(run, TRUE)}
  <2>1. CASE g = TRUE
    BY <1>1, <1>3, <1>4, <2>1 DEF DeviceStates
  <2>2. CASE g = FALSE
    BY <1>1, <1>4, <2>2 DEF DeviceStates
  <2> QED BY <2>1, <2>2
<1>6. SentInv' /\ Kept /\ (NoInvokeYet => NoInvokeYet')
  BY <1>2, QuietKeeps
<1>7. DeviceInv'
  <2>1. SessionKey(run, TRUE).good
    BY DEF SessionKey
  <2> QED BY <1>5, <2>1 DEF DeviceInv
<1>8. NetInv' /\ RetInv'
  BY <1>2, <1>5 DEF NetInv, RetInv, Heard, NoRet
<1>9. AnswersInv'
  BY <1>2, <1>5 DEF AnswersInv, Invokes
<1>10. ControlInv'
  BY <1>2, <1>6 DEF ControlInv, Waits
<1>11. ShownGood'
  BY <1>2, <1>3, <1>5, ShownStays, RunType
<1>12. TypeInv'
  <2>1. dev'.keys \subseteq SessionKeys
    BY <1>5 DEF DeviceStates
  <2> QED BY <1>2, <1>4, <1>5, <1>11, <2>1 DEF TypeInv, InteractionTypeOK, ShownGood
<1> QED BY <1>6, <1>7, <1>8, <1>9, <1>10, <1>11, <1>12 DEF ShownGood

(* The end of a process, however it comes *)
LEMMA EndInv ==
    ASSUME InteractionInv, ChannelInv, Exit \/ Close, End, ShownGood'
    PROVE  InteractionInv'
<1> USE DEF InteractionInv
<1>1. /\ UNCHANGED <<script, run, devVars, net>> /\ ret' = NoRet
      /\ pc' = "idle" /\ short' = FALSE
  BY DEF End, Exit, Close
<1>2. SentInv' /\ Kept
  <2>1. CASE Exit
    BY <1>1, <2>1, QuietKeeps DEF Exit
  <2>2. CASE Close
    <3>1. CloseReport \in WireMsgs /\ MayWrite(sc.key, CloseReport) /\ CloseReport.op = "status"
      BY DEF WireMsgs, MayWrite, CloseReport
    <3> QED BY <1>1, <2>2, <3>1, SelfSends, WriteKeeps DEF Close
  <2> QED BY <2>1, <2>2
<1>3. ControlInv'
  BY <1>1 DEF ControlInv, Waits
<1>4. RetInv'
  BY <1>1 DEF RetInv, NoRet
<1>5. run' \in 0 .. Len(script')
  BY <1>1 DEF TypeInv, InteractionTypeOK
<1> QED BY <1>1, <1>2, <1>3, <1>4, <1>5, ProgramStep

(* A request, a confirmation or an invoke *)
LEMMA SendInv ==
    ASSUME InteractionInv, ChannelInv, NEW m \in ControllerMsgs, Send(m), MayWrite(sc.key, m),
           UNCHANGED <<script, run, short, devVars>>, ShownGood',
           pc \in Waits \cup {"request"}, pc' \in Waits,
           pc' \in {"timed", "window"} => cmd = "open",
           pc' = "timed" => m.op # "invoke_req" /\ NoInvokeYet,
           m.op = "invoke_req" => NoInvokeYet /\ m.ex[1] = run
    PROVE  InteractionInv'
<1> USE DEF InteractionInv
<1>1. sc' = Bump(sc) /\ sent' = Written(sc, m) /\ ret' = NoRet /\ net' = net
  BY DEF Send
<1>2. sc \in Channels /\ sc'.key = sc.key
  BY <1>1, SelfSends DEF Bump, Channels
<1>3. m \in WireMsgs
  BY InteractionAssumption DEF WireMsgs
<1>4. /\ SentInv' /\ Kept
      /\ m.op # "invoke_req" /\ NoInvokeYet => NoInvokeYet'
  BY <1>1, <1>2, <1>3, WriteKeeps
<1>5. ControlInv'
  <2>1. run \in 1 .. Len(script) /\ \E g \in BOOLEAN : sc.key = SessionKey(run, g)
    BY DEF ControlInv, Waits
  <2>2. cmd' = cmd
    BY DEF cmd
  <2> QED BY <1>2, <1>4, <2>1, <2>2 DEF ControlInv, Waits
<1>6. RetInv'
  BY <1>1 DEF RetInv, NoRet
<1>7. run' \in 0 .. Len(script') /\ short' \in BOOLEAN
  BY DEF TypeInv, InteractionTypeOK
<1> QED BY <1>1, <1>4, <1>5, <1>6, <1>7, ProgramStep

LEMMA ReceiveInv ==
    ASSUME InteractionInv, ChannelInv, Receive
    PROVE  InteractionInv'
<1> USE DEF InteractionInv
<1>1. ReceiveStep /\ UNCHANGED <<script, run, pc, short, shown, handled, dev>> /\ pc \in Waits
  BY DEF Receive, InReceive, appVars, devVars
<1>2. /\ net' \subseteq net
      /\ sc'.key = sc.key
      /\ SentInv' /\ Kept
      /\ NoInvokeYet => NoInvokeYet'
      /\ RetInv'
  <2> USE DEF NoRet, ErrRet, PanicRet
  <2>1. CASE ReceiveTimeout
    BY <1>1, <2>1, QuietKeeps DEF ReceiveTimeout, RetInv
  <2>2. ASSUME NEW d \in net, ReceiveUnopenable(d) \/ ReceiveAck(d)
        PROVE  /\ net' \subseteq net /\ sc'.key = sc.key /\ SentInv' /\ Kept
               /\ NoInvokeYet => NoInvokeYet'
               /\ RetInv'
    BY <1>1, <2>2, QuietKeeps DEF ReceiveUnopenable, ReceiveAck, RetInv, Deliver
  <2>3. ASSUME NEW d \in net, ReceiveMessage(d) \/ ReceivePanic(d)
        PROVE  /\ net' \subseteq net /\ sc'.key = sc.key /\ SentInv' /\ Kept
               /\ NoInvokeYet => NoInvokeYet'
               /\ RetInv'
    <3>1. PICK m \in Opened(d) : ~IsAck(m) /\ Accept(d, m) /\ ret' \in {OkRet(m), PanicRet}
      BY <2>3 DEF ReceiveMessage, ReceivePanic
    <3>2. net' \subseteq net
      BY <2>3 DEF ReceiveMessage, ReceivePanic, Deliver
    <3>3. sc \in Channels /\ sc'.key = sc.key
      BY <3>1, SelfSends DEF Accept, Bump, Channels
    <3>4. /\ MayWrite(sc.key, ackGen(m, d.ctr)) /\ ackGen(m, d.ctr) \in WireMsgs
          /\ ackGen(m, d.ctr).op = "ack"
      BY OpenedType DEF MayWrite, ackGen
    <3>5. SentInv' /\ Kept /\ (NoInvokeYet => NoInvokeYet')
      BY <1>1, <3>1, <3>3, <3>4, WriteKeeps DEF Accept
    <3>6. sc.key # NoKey
      <4>1. PICK g \in BOOLEAN : sc.key = SessionKey(run, g)
        BY <1>1 DEF ControlInv
      <4> QED BY <1>1, <4>1, KeyFacts, RunType DEF Waits
    <3>7. RetInv'
      <4>1. SUFFICES ASSUME ret' = OkRet(m)
                     PROVE  RetInv'
        BY <3>1 DEF RetInv
      <4>2. m = d.msg /\ d.key = sc.key
        BY <3>6 DEF Opened
      <4>3. Heard(sc.key, m)
        BY <4>2 DEF NetInv
      <4> QED BY <1>1, <3>3, <4>1, <4>3 DEF RetInv, Heard, OkRet
    <3> QED BY <3>2, <3>3, <3>5, <3>7
  <2> QED BY <1>1, <2>1, <2>2, <2>3 DEF ReceiveStep
<1>3. ControlInv'
  BY <1>1, <1>2 DEF ControlInv, cmd
<1>4. run \in 0 .. Len(script) /\ short \in BOOLEAN /\ run \in Nat
  BY <1>1, RunType DEF TypeInv, InteractionTypeOK, Waits
<1>5. ShownGood'
  BY <1>1, <1>4, ShownStays
<1> QED BY <1>1, <1>2, <1>3, <1>4, <1>5, ProgramStep DEF devVars

LEMMA CloseReportOp == CloseReport.op = "status"
BY DEF CloseReport

(* What one step may show, and what stands behind it *)
LEMMA ShowsFounded ==
    ASSUME InteractionInv, UNCHANGED <<script, run, handled, dev>>, pc \in Waits, ret.st = "ok"
    PROVE  /\ IsReport(ret.msg) /\ Show("message", ret.msg, ret.msg.body) => ShownGood'
           /\ IsInvokeResponse(ret.msg) /\ Show("message", ret.msg, ret.msg.body) => ShownGood'
           /\ HasStatus(ret.msg) /\ Show("status", ret.msg, Status(ret.msg)) => ShownGood'
           /\ /\ pc = "window" /\ IsWindowAnswer(ret.msg)
              /\ Show("window", ret.msg, ParseImInvokeResponse(ret.msg))
              => ShownGood'
<1> DEFINE m == ret.msg
           s == [key |-> SessionKey(run, TRUE), msg |-> ret.msg]
<1>1. m \in DeviceMsgs /\ m.ex \in Exchanges
  BY OwnAnswer
<1>2. run \in Runs
  BY RunType DEF Waits
<1>3. m.op \in {"report", "invoke_rsp"} => m # CloseReport
  BY CloseReportOp
<1>4. ASSUME m.op \in {"report", "invoke_rsp"}, Show("message", m, m.body)
      PROVE  ShownGood'
  <2>1. Shown("message", m.ex, m.body) \in ShownItems
    BY <1>1, <1>2 DEF Shown, ShownItems
  <2>2. Founded(Shown("message", m.ex, m.body), s)
    BY DEF Founded, Shown
  <2> QED BY <1>3, <1>4, <2>1, <2>2, ShowKeeps
<1>5. ASSUME HasStatus(m), Show("status", m, Status(m))
      PROVE  ShownGood'
  <2>1. Status(m) \in {"success", "failure"} /\ m.op = "invoke_rsp"
    BY <1>5 DEF Status, HasStatus, IsInvokeResponse
  <2>2. Shown("status", m.ex, Status(m)) \in ShownItems
    BY <1>1, <1>2, <2>1 DEF Shown, ShownItems
  <2>3. Founded(Shown("status", m.ex, Status(m)), s)
    BY <2>1 DEF Founded, Shown
  <2> QED BY <1>3, <1>5, <2>1, <2>2, <2>3, ShowKeeps
<1>6. ASSUME pc = "window", IsWindowAnswer(m), Show("window", m, ParseImInvokeResponse(m))
      PROVE  ShownGood'
  <2>1. m.op = "invoke_rsp"
    BY <1>6 DEF IsWindowAnswer, IsInvokeResponse
  <2>2. /\ ParseImInvokeResponse(m) \in {"success", "busy", "pake parameter error", "unknown"}
        /\ ParseImInvokeResponse(m) = "success" <=> m.body \in {"status0", "cluster0"}
    BY DEF ParseImInvokeResponse
  <2>3. Shown("window", m.ex, ParseImInvokeResponse(m)) \in ShownItems
    BY <1>1, <1>2, <2>2 DEF Shown, ShownItems
  <2>4. script[run] = "open"
    BY <1>6 DEF InteractionInv, ControlInv, cmd
  <2>5. Founded(Shown("window", m.ex, ParseImInvokeResponse(m)), s)
    BY <2>1, <2>2, <2>4 DEF Founded, Shown
  <2> QED BY <1>3, <1>6, <2>1, <2>3, <2>5, ShowKeeps
<1> QED BY <1>4, <1>5, <1>6 DEF IsReport, IsInvokeResponse, HasStatus

LEMMA NothingShown ==
    ASSUME InteractionInv, UNCHANGED <<script, run, shown, handled, dev>>
    PROVE  ShownGood'
<1>1. run \in Nat
  BY InteractionAssumption DEF InteractionInv, TypeInv, InteractionTypeOK
<1> QED BY <1>1, ShownStays

Ends == ConnectFails \/ ShowAnswer \/ ReadAnswer \/ ShowWindow \/ Panics \/ Interrupt

LEMMA EndsInv ==
    ASSUME InteractionInv, ChannelInv, Ends
    PROVE  InteractionInv'
<1>1. (Exit \/ Close) /\ End
  BY DEF Ends, ConnectFails, ShowAnswer, ReadAnswer, ShowWindow, Panics, Interrupt
<1>2. UNCHANGED <<script, run, handled, dev>>
  BY <1>1 DEF End, devVars
<1> SUFFICES ShownGood'
  BY <1>1, EndInv
<1>3. CASE shown' = shown
  BY <1>2, <1>3, NothingShown
<1>4. CASE ShowAnswer
  <2>1. pc \in Waits /\ ret.st = "ok" /\ Takes(ret.msg)
    BY <1>4 DEF ShowAnswer, Got, Waits
  <2>2. CASE cmd = "invoke"
    <3>1. HasStatus(ret.msg) /\ Show("status", ret.msg, Status(ret.msg))
      BY <1>4, <2>1, <2>2 DEF ShowAnswer, Takes
    <3> QED BY <1>2, <2>1, <3>1, ShowsFounded
  <2>3. CASE cmd # "invoke"
    <3>1. /\ IsInvokeResponse(ret.msg) \/ IsReport(ret.msg)
          /\ Show("message", ret.msg, ret.msg.body)
      BY <1>4, <2>1, <2>3 DEF ShowAnswer, Takes, HasData
    <3> QED BY <1>2, <2>1, <3>1, ShowsFounded
  <2> QED BY <2>2, <2>3
<1>5. CASE ReadAnswer
  <2>1. pc \in Waits /\ ret.st = "ok"
    BY <1>5 DEF ReadAnswer, Got, Waits
  <2>2. \/ IsReport(ret.msg) /\ Show("message", ret.msg, ret.msg.body)
        \/ UNCHANGED shown
    BY <1>5 DEF ReadAnswer
  <2> QED BY <1>2, <1>3, <2>1, <2>2, ShowsFounded
<1>6. CASE ShowWindow
  <2>1. /\ pc \in Waits /\ ret.st = "ok" /\ pc = "window" /\ IsWindowAnswer(ret.msg)
        /\ Show("window", ret.msg, ParseImInvokeResponse(ret.msg))
    BY <1>6 DEF ShowWindow, Got, Waits
  <2> QED BY <1>2, <2>1, ShowsFounded
<1> QED BY <1>3, <1>4, <1>5, <1>6 DEF Ends, ConnectFails, Panics, Interrupt

Sends ==
    \/ InvokeRequest \/ ReadRequest \/ TimedRequest \/ SubscribeRequest
    \/ InvokeOpenWindow \/ SubscribeFirst \/ ShowEvent

(* Which requests an exchange of the current run may carry *)
LEMMA RequestsMayBeWritten ==
    ASSUME InteractionInv, pc \in Waits \cup {"request"}
    PROVE  /\ MayWrite(sc.key, EncodeIMReadRequest)
           /\ MayWrite(sc.key, EncodeIMSubscribeRequest)
           /\ MayWrite(sc.key, EncodeIMTimedRequest)
           /\ cmd # "open" => MayWrite(sc.key, EncodeIMInvokeRequest("command"))
           /\ \A b \in BOOLEAN : MayWrite(sc.key, EncodeIMInvokeRequest(OpenWindow(b)))
           /\ \A e \in Exchanges, b \in BOOLEAN : MayWrite(sc.key, EncodeIMStatusResponse(e, b))
<1>1. run \in Runs /\ run \in 1 .. run
  BY RunType DEF Waits
<1>2. sc.key.run = run
  <2>1. PICK g \in BOOLEAN : sc.key = SessionKey(run, g)
    BY DEF InteractionInv, ControlInv
  <2> QED BY <2>1 DEF SessionKey
<1>3. cmd = script[run]
  BY <1>1, InteractionAssumption DEF cmd, Runs
<1>4. \A b \in BOOLEAN : OpenWindow(b) \in {"open", "open_short"}
  BY DEF OpenWindow
<1> USE <1>1, RequestTypes DEF MayWrite
<1>5. /\ MayWrite(sc.key, EncodeIMReadRequest)
      /\ MayWrite(sc.key, EncodeIMSubscribeRequest)
      /\ MayWrite(sc.key, EncodeIMTimedRequest)
  BY DEF EncodeIMReadRequest, EncodeIMSubscribeRequest, EncodeIMTimedRequest, Message
<1>6. ASSUME NEW c \in {"command", "open", "open_short"}, c = "command" => cmd # "open"
      PROVE  MayWrite(sc.key, EncodeIMInvokeRequest(c))
  <2>1. EncodeIMInvokeRequest(c).ex[1] = run /\ EncodeIMInvokeRequest(c).body = c
    BY DEF EncodeIMInvokeRequest, Message, CommandExchange
  <2> QED BY <1>2, <1>3, <1>6, <2>1
<1>7. \A e \in Exchanges, b \in BOOLEAN : MayWrite(sc.key, EncodeIMStatusResponse(e, b))
  <2> SUFFICES ASSUME NEW e \in Exchanges, NEW b \in BOOLEAN
               PROVE  MayWrite(sc.key, EncodeIMStatusResponse(e, b))
    OBVIOUS
  <2>1. EncodeIMStatusResponse(e, b).op = "status_rsp"
    BY DEF EncodeIMStatusResponse, Message
  <2> QED BY <2>1
<1> QED BY <1>4, <1>5, <1>6, <1>7

(* A send of a request, in the form SendInv needs *)
SendsRequest(m) ==
    /\ m \in ControllerMsgs
    /\ Send(m) /\ MayWrite(sc.key, m)
    /\ UNCHANGED <<script, run, short, handled, dev>>
    /\ pc \in Waits \cup {"request"} /\ pc' \in Waits
    /\ pc' \in {"timed", "window"} => cmd = "open"
    /\ pc' = "timed" => m.op # "invoke_req" /\ NoInvokeYet
    /\ m.op = "invoke_req" => NoInvokeYet /\ m.ex[1] = run

LEMMA SendsWrite ==
    ASSUME InteractionInv, Sends
    PROVE  (\E m : SendsRequest(m)) /\ ShownGood'
<1> USE DEF Goto, devVars
<1>1. pc \in Waits \cup {"request"}
  BY DEF Sends, InvokeRequest, ReadRequest, TimedRequest, SubscribeRequest, SendRequest,
         InvokeOpenWindow, SubscribeFirst, ShowEvent, Got, Waits
<1>2. run \in Runs
  BY <1>1, RunType DEF Waits
<1>3. pc \in {"request", "timed"} => NoInvokeYet
  BY DEF InteractionInv, ControlInv
<1> USE <1>1, <1>2, <1>3, RequestTypes, RequestsMayBeWritten, NothingShown DEF SendsRequest, Waits
<1>4. CASE InvokeRequest
  <2> DEFINE q == EncodeIMInvokeRequest("command")
  <2>1. SendRequest(q, "answer") /\ cmd # "open"
    BY <1>4 DEF InvokeRequest
  <2>2. q.ex[1] = run
    BY DEF EncodeIMInvokeRequest, Message, CommandExchange
  <2>3. SendsRequest(q)
    BY <2>1, <2>2 DEF SendRequest
  <2> QED BY <2>1, <2>3 DEF SendRequest
<1>5. CASE ReadRequest
  <2> DEFINE q == EncodeIMReadRequest
  <2>1. SendRequest(q, "answer")
    BY <1>5 DEF ReadRequest
  <2>2. q.op = "read_req"
    BY DEF EncodeIMReadRequest, Message
  <2>3. SendsRequest(q)
    BY <2>1, <2>2 DEF SendRequest
  <2> QED BY <2>1, <2>3 DEF SendRequest
<1>6. CASE TimedRequest
  <2> DEFINE q == EncodeIMTimedRequest
  <2>1. SendRequest(q, "timed") /\ cmd = "open"
    BY <1>6 DEF TimedRequest
  <2>2. q.op = "timed_req"
    BY DEF EncodeIMTimedRequest, Message
  <2>3. SendsRequest(q)
    BY <2>1, <2>2 DEF SendRequest
  <2> QED BY <2>1, <2>3 DEF SendRequest
<1>7. CASE SubscribeRequest
  <2> DEFINE q == EncodeIMSubscribeRequest
  <2>1. SendRequest(q, "first")
    BY <1>7 DEF SubscribeRequest
  <2>2. q.op = "subsc_req"
    BY DEF EncodeIMSubscribeRequest, Message
  <2>3. SendsRequest(q)
    BY <2>1, <2>2 DEF SendRequest
  <2> QED BY <2>1, <2>3 DEF SendRequest
<1>8. CASE InvokeOpenWindow
  <2> DEFINE q == EncodeIMInvokeRequest(OpenWindow(short))
  <2>1. /\ Send(q) /\ pc = "timed" /\ pc' = "window" /\ shown' = shown
        /\ UNCHANGED <<script, run, short, handled, dev>>
    BY <1>8 DEF InvokeOpenWindow, Got
  <2>2. q.ex[1] = run /\ OpenWindow(short) \in {"open", "open_short"}
    BY DEF EncodeIMInvokeRequest, Message, CommandExchange, OpenWindow
  <2>3. short \in BOOLEAN /\ cmd = "open"
    BY <2>1 DEF InteractionInv, TypeInv, ControlInv
  <2>4. q \in ControllerMsgs /\ MayWrite(sc.key, q)
    BY <2>2, <2>3
  <2>5. SendsRequest(q)
    BY <2>1, <2>2, <2>3, <2>4
  <2> QED BY <2>1, <2>5
<1>9. CASE SubscribeFirst \/ ShowEvent
  <2>1. PICK b \in BOOLEAN : Send(EncodeIMStatusResponse(ret.msg.ex, b))
    BY <1>9 DEF SubscribeFirst, ShowEvent
  <2>2. /\ pc \in {"first", "listen"} /\ pc' = "listen" /\ ret.st = "ok"
        /\ UNCHANGED <<script, run, short, handled, dev>>
    BY <1>9 DEF SubscribeFirst, ShowEvent, Got
  <2> DEFINE q == EncodeIMStatusResponse(ret.msg.ex, b)
  <2>3. ret.msg.ex \in Exchanges
    BY <2>2, OwnAnswer
  <2>4. q \in ControllerMsgs /\ MayWrite(sc.key, q)
    BY <2>3
  <2>5. q.op = "status_rsp"
    BY DEF EncodeIMStatusResponse, Message
  <2>6. SendsRequest(q)
    BY <2>1, <2>2, <2>4, <2>5
  <2>7. \/ IsReport(ret.msg) /\ Show("message", ret.msg, ret.msg.body)
        \/ UNCHANGED shown
    BY <1>9 DEF SubscribeFirst, ShowEvent
  <2>8. ShownGood'
    BY <2>2, <2>7, ShowsFounded
  <2> QED BY <2>6, <2>8
<1> QED BY <1>4, <1>5, <1>6, <1>7, <1>8, <1>9 DEF Sends

LEMMA SendsInv ==
    ASSUME InteractionInv, ChannelInv, Sends
    PROVE  InteractionInv'
<1>1. PICK m : SendsRequest(m)
  BY SendsWrite
<1>2. ShownGood'
  BY SendsWrite
<1> QED BY <1>1, <1>2, SendInv DEF SendsRequest, devVars

-----------------------------------------------------------------------------
(* The invariant is inductive: the device *)

(* Whatever the device does, what it sends it has said *)
LEMMA DeviceKeeps ==
    ASSUME InteractionInv, ChannelInv,
           UNCHANGED <<sc, sent, ret, script, run, pc, short, shown>>,
           dev' \in DeviceStates, dev.said \subseteq dev'.said,
           dev'.opened \subseteq dev'.granted,
           handled' \subseteq 1 .. Len(sent),
           DeviceInv', AnswersInv',
           \A x \in net' : x \in net \/ (x.key # NoKey /\ Heard(x.key, x.msg)')
    PROVE  InteractionInv'
<1> USE DEF InteractionInv
<1>1. SentInv' /\ (NoInvokeYet => NoInvokeYet')
  BY QuietKeeps
<1>2. ControlInv'
  BY <1>1 DEF ControlInv, cmd
<1>3. NetInv' /\ RetInv'
  BY DEF NetInv, RetInv, Heard
<1>4. run' \in Nat /\ run <= run'
  BY InteractionAssumption DEF TypeInv, InteractionTypeOK
<1>5. ShownGood'
  BY <1>4, ShownStays
<1>6. TypeInv'
  <2>1. dev'.keys \subseteq SessionKeys /\ dev'.granted \subseteq CommandExchanges
    BY DEF DeviceStates
  <2> QED BY <1>5, <2>1 DEF TypeInv, InteractionTypeOK, ShownGood
<1> QED BY <1>1, <1>2, <1>3, <1>5, <1>6 DEF ShownGood

(* Nothing opened, and no invoke answered *)
LEMMA AnswersKept ==
    ASSUME InteractionInv, sent' = sent, handled \subseteq handled', dev'.opened = dev.opened,
           \A s \in dev'.said : s \in dev.said \/ s.msg.op # "invoke_rsp"
    PROVE  AnswersInv'
BY DEF InteractionInv, AnswersInv, Invokes

(* The device changes to d, says a under the key of datagram i, and has    *)
(* handled it                                                              *)
LEMMA ReplyKeeps ==
    ASSUME InteractionInv, ChannelInv, NEW i \in 1 .. Len(sent),
           NEW d \in DeviceStates, NEW opcode, NEW content, Reply(i, d, opcode, content),
           sent[i].key \in dev.keys,
           Message(opcode, FALSE, sent[i].msg.ex, content) \in DeviceMsgs,
           d.keys = dev.keys, d.said = dev.said, d.opened \subseteq d.granted,
           d.sub.st # "none" => d.sub.key \in SessionKeys /\ d.sub.key.good,
           \/ d.opened = dev.opened /\ opcode # "invoke_rsp"
           \/ AnswersInv'
    PROVE  InteractionInv'
<1> DEFINE k == sent[i].key
           a == Message(opcode, FALSE, sent[i].msg.ex, content)
           e == [key |-> k, msg |-> a]
<1>1. /\ PeerSend(k, a) /\ UNCHANGED <<script, run, pc, short, shown>>
      /\ handled' = handled \cup {i} /\ dev' = [d EXCEPT !.said = @ \cup {e}]
  BY DEF Reply, Say, Said, appVars
<1>2. k \in SessionKeys /\ k.good /\ dev.said \subseteq Statements
  BY DEF InteractionInv, TypeInv, DeviceStates, DeviceInv
<1>3. a \in DeviceMsgs /\ e \in Statements /\ a.op = opcode
  BY <1>2 DEF Statements, Message
<1>4. e.key = k /\ e.msg = a
  OBVIOUS
<1> HIDE DEF k, a, e
<1>5. /\ dev'.said = dev.said \cup {e} /\ dev'.keys = dev.keys
      /\ dev'.opened = d.opened /\ dev'.granted = d.granted /\ dev'.sub = d.sub
      /\ dev' \in DeviceStates
  BY <1>1, <1>2, <1>3 DEF DeviceStates
<1>6. /\ UNCHANGED <<sc, sent, ret>>
      /\ net' = net \cup {[key |-> k, ctr |-> pctr', msg |-> a]}
  BY <1>1 DEF PeerSend
<1>7. DeviceInv'
  BY <1>2, <1>4, <1>5 DEF InteractionInv, DeviceInv
<1>8. AnswersInv'
  <2>1. handled \subseteq handled'
    BY <1>1
  <2>2. CASE d.opened = dev.opened /\ opcode # "invoke_rsp"
    BY <1>3, <1>4, <1>5, <1>6, <2>1, <2>2, AnswersKept
  <2> QED BY <2>2
<1>9. ASSUME NEW x \in net'
      PROVE  x \in net \/ (x.key # NoKey /\ Heard(x.key, x.msg)')
  <2>1. CASE x = [key |-> k, ctr |-> pctr', msg |-> a]
    <3>1. x.key = k /\ x.msg = a /\ k # NoKey
      BY <1>2, <2>1, KeyFacts
    <3>2. [key |-> x.key, msg |-> x.msg] \in dev'.said
      BY <1>5, <3>1 DEF e
    <3> QED BY <3>1, <3>2 DEF Heard
  <2> QED BY <1>6, <2>1
<1>10. handled' \subseteq 1 .. Len(sent)
  BY <1>1 DEF InteractionInv, TypeInv, InteractionTypeOK
<1> QED BY <1>1, <1>5, <1>6, <1>7, <1>8, <1>9, <1>10, DeviceKeeps

(* An exchange whose invoke is still to be handled has no answer, and its  *)
(* window is closed                                                        *)
LEMMA FirstAnswer ==
    ASSUME InteractionInv, NEW i \in 1 .. Len(sent), i \notin handled,
           sent[i].msg.op = "invoke_req"
    PROVE  /\ sent[i].msg.ex \notin dev.opened
           /\ \A j \in handled : sent[j].msg.op = "invoke_req" => sent[j].msg.ex # sent[i].msg.ex
<1>1. \A j \in handled : sent[j].msg.op = "invoke_req" => sent[j].msg.ex # sent[i].msg.ex
  BY DEF InteractionInv, SentInv, TypeInv, InteractionTypeOK
<1> QED BY <1>1 DEF InteractionInv, AnswersInv

(* The answer to an invoke *)
LEMMA AnswerAdded ==
    ASSUME InteractionInv, NEW i \in 1 .. Len(sent), i \notin handled,
           sent[i].msg.op = "invoke_req", sent' = sent, handled' = handled \cup {i},
           NEW b,
           dev'.said = dev.said \cup
                         {[key |-> sent[i].key,
                           msg |-> Message("invoke_rsp", FALSE, sent[i].msg.ex, b)]},
           dev'.opened = IF sent[i].msg.body # "command" /\ b = "status0"
                         THEN dev.opened \cup {sent[i].msg.ex} ELSE dev.opened
    PROVE  AnswersInv'
<1> DEFINE q == sent[i].msg
           e == [key |-> sent[i].key, msg |-> Message("invoke_rsp", FALSE, q.ex, b)]
<1>1. /\ q.ex \notin dev.opened
      /\ \A j \in handled : sent[j].msg.op = "invoke_req" => sent[j].msg.ex # q.ex
  BY FirstAnswer
<1>2. e.key = sent[i].key /\ e.msg.ex = q.ex /\ e.msg.body = b
  BY DEF Message
<1>3. dev'.said = dev.said \cup {e}
  OBVIOUS
<1> HIDE DEF e
<1>4. ASSUME NEW s \in dev'.said, s.msg.op = "invoke_rsp"
      PROVE  \E j \in handled' :
               /\ Invokes(j, s)
               /\ sent[j].msg.body # "command" =>
                     (s.msg.body = "status0" <=> s.msg.ex \in dev'.opened)
  <2>1. CASE s = e
    <3>1. i \in handled' /\ Invokes(i, s)
      BY <1>2, <2>1 DEF Invokes
    <3>2. q.body # "command" => (b = "status0" <=> q.ex \in dev'.opened)
      BY <1>1
    <3> QED BY <1>2, <2>1, <3>1, <3>2
  <2>2. CASE s \in dev.said
    <3>1. PICK j \in handled :
            /\ Invokes(j, s)
            /\ sent[j].msg.body # "command" =>
                  (s.msg.body = "status0" <=> s.msg.ex \in dev.opened)
      BY <1>4, <2>2 DEF InteractionInv, AnswersInv
    <3>2. s.msg.ex # q.ex
      BY <1>1, <3>1 DEF Invokes
    <3>3. s.msg.ex \in dev'.opened <=> s.msg.ex \in dev.opened
      BY <3>2
    <3> QED BY <3>1, <3>3
  <2> QED BY <1>3, <1>4, <2>1, <2>2
<1>5. ASSUME NEW x \in dev'.opened
      PROVE  \E j \in handled' : sent[j].msg.op = "invoke_req" /\ sent[j].msg.ex = x
  <2>1. CASE x \in dev.opened
    BY <2>1 DEF InteractionInv, AnswersInv
  <2>2. CASE x = q.ex
    BY <2>2
  <2> QED BY <1>5, <2>1, <2>2
<1> QED BY <1>4, <1>5 DEF AnswersInv, Invokes

(* What the device takes up was requested by a command *)
LEMMA PendingFacts ==
    ASSUME InteractionInv, NEW i \in 1 .. Len(sent), NEW o, Pending(i, o),
           o \in {"read_req", "invoke_req", "timed_req", "subsc_req", "status_rsp"}
    PROVE  /\ i \notin handled /\ sent[i].msg.op = o
           /\ sent[i].key \in dev.keys /\ sent[i].key \in SessionKeys /\ sent[i].key.good
           /\ sent[i].msg \in ControllerMsgs
<1>1. i \notin handled /\ sent[i].msg.op = o /\ sent[i].key \in dev.keys
  BY DEF Pending
<1>2. sent[i].msg \in ControllerMsgs
  BY <1>1 DEF InteractionInv, SentInv, MayWrite
<1>3. sent[i].key \in SessionKeys /\ sent[i].key.good
  BY <1>1 DEF InteractionInv, TypeInv, DeviceStates, DeviceInv
<1> QED BY <1>1, <1>2, <1>3

LEMMA DeviceFacts ==
    ASSUME InteractionInv
    PROVE  /\ dev \in DeviceStates /\ dev.opened \subseteq dev.granted
           /\ dev.granted \subseteq CommandExchanges
           /\ dev.sub.st # "none" => dev.sub.key \in SessionKeys /\ dev.sub.key.good
BY DEF InteractionInv, TypeInv, InteractionTypeOK, DeviceInv

LEMMA DevReadInv ==
    ASSUME InteractionInv, ChannelInv, NEW i \in 1 .. Len(sent), DevRead(i)
    PROVE  InteractionInv'
<1>1. PICK o \in {"report", "status_rsp"}, b \in {"data", "no_data", "junk", "fail"} :
        /\ Reply(i, dev, o, b)
        /\ IF o = "report" THEN b # "fail" ELSE b = "fail"
  BY DEF DevRead
<1>2. sent[i].msg.ex = ZeroExchange /\ sent[i].key \in dev.keys
  BY PendingFacts, ControllerMsgShape DEF DevRead
<1>3. Message(o, FALSE, sent[i].msg.ex, b) \in DeviceMsgs
  BY <1>1, <1>2, DeviceMsgTypes
<1> QED BY <1>1, <1>2, <1>3, DeviceFacts, ReplyKeeps

LEMMA DevInvokeInv ==
    ASSUME InteractionInv, ChannelInv, NEW i \in 1 .. Len(sent), DevInvoke(i)
    PROVE  InteractionInv'
<1>1. /\ i \notin handled /\ sent[i].msg.op = "invoke_req" /\ sent[i].msg.body = "command"
      /\ sent[i].msg.ex \in CommandExchanges /\ sent[i].key \in dev.keys
  BY PendingFacts, ControllerMsgShape DEF DevInvoke
<1>2. CASE Reply(i, dev, "status_rsp", "fail")
  <2>1. Message("status_rsp", FALSE, sent[i].msg.ex, "fail") \in DeviceMsgs
    BY <1>1, DeviceMsgTypes
  <2> QED BY <1>1, <1>2, <2>1, DeviceFacts, ReplyKeeps
<1>3. ASSUME NEW b \in {"status0", "statusN", "cluster0", "fields"}, Reply(i, dev, "invoke_rsp", b)
      PROVE  InteractionInv'
  <2>1. Message("invoke_rsp", FALSE, sent[i].msg.ex, b) \in DeviceMsgs
    BY <1>1, DeviceMsgTypes DEF InvokeAnswers
  <2> DEFINE e == [key |-> sent[i].key, msg |-> Message("invoke_rsp", FALSE, sent[i].msg.ex, b)]
  <2>2. dev' = [dev EXCEPT !.said = @ \cup {e}] /\ handled' = handled \cup {i} /\ sent' = sent
    BY <1>3 DEF Reply, Said, Say, PeerSend
  <2>3. dev'.said = dev.said \cup {e} /\ dev'.opened = dev.opened
    BY <2>2, DeviceFacts DEF DeviceStates
  <2>4. AnswersInv'
    BY <1>1, <2>2, <2>3, AnswerAdded
  <2> QED BY <1>1, <1>3, <2>1, <2>4, DeviceFacts, ReplyKeeps
<1> QED BY <1>2, <1>3 DEF DevInvoke

LEMMA DevTimedInv ==
    ASSUME InteractionInv, ChannelInv, NEW i \in 1 .. Len(sent), DevTimed(i)
    PROVE  InteractionInv'
<1>1. sent[i].msg.ex \in CommandExchanges /\ sent[i].key \in dev.keys
  BY PendingFacts, ControllerMsgShape DEF DevTimed
<1>2. \A b \in {"ok", "fail", "bare"} : Message("status_rsp", FALSE, sent[i].msg.ex, b) \in DeviceMsgs
  BY <1>1, DeviceMsgTypes
<1>3. CASE \E b \in {"fail", "bare"} : Reply(i, dev, "status_rsp", b)
  BY <1>1, <1>2, <1>3, DeviceFacts, ReplyKeeps
<1>4. CASE Reply(i, [dev EXCEPT !.granted = @ \cup {sent[i].msg.ex}], "status_rsp", "ok")
  <2> DEFINE d == [dev EXCEPT !.granted = @ \cup {sent[i].msg.ex}]
  <2>1. /\ d \in DeviceStates /\ d.granted = dev.granted \cup {sent[i].msg.ex}
        /\ d.keys = dev.keys /\ d.said = dev.said /\ d.opened = dev.opened /\ d.sub = dev.sub
    BY <1>1, DeviceFacts DEF DeviceStates
  <2>2. Reply(i, d, "status_rsp", "ok")
    BY <1>4
  <2> HIDE DEF d
  <2> QED BY <1>1, <1>2, <2>1, <2>2, DeviceFacts, ReplyKeeps
<1> QED BY <1>3, <1>4 DEF DevTimed

LEMMA DevOpenWindowInv ==
    ASSUME InteractionInv, ChannelInv, NEW i \in 1 .. Len(sent), DevOpenWindow(i)
    PROVE  InteractionInv'
<1> DEFINE q == sent[i].msg
           open == [dev EXCEPT !.opened = @ \cup {q.ex}]
<1>1. /\ i \notin handled /\ q.op = "invoke_req" /\ q.body # "command"
      /\ q.ex \in CommandExchanges /\ sent[i].key \in dev.keys
  BY PendingFacts, ControllerMsgShape DEF DevOpenWindow
<1>2. PICK d, b :
        /\ Reply(i, d, "invoke_rsp", b)
        /\ \/ d = dev /\ b \in {"statusN", "busy", "pake", "cluster0"}
           \/ d = open /\ b = "status0" /\ q.ex \in dev.granted
  BY DEF DevOpenWindow
<1>3. /\ d \in DeviceStates
      /\ d.keys = dev.keys /\ d.said = dev.said /\ d.sub = dev.sub
      /\ d.opened \subseteq d.granted
      /\ d.opened = IF b = "status0" THEN dev.opened \cup {q.ex} ELSE dev.opened
  <2>1. CASE d = dev /\ b \in {"statusN", "busy", "pake", "cluster0"}
    BY <2>1, DeviceFacts
  <2>2. CASE d = open /\ b = "status0" /\ q.ex \in dev.granted
    <3>1. open \in DeviceStates /\ open.opened = dev.opened \cup {q.ex}
      BY <1>1, DeviceFacts DEF DeviceStates
    <3>2. /\ open.keys = dev.keys /\ open.said = dev.said /\ open.sub = dev.sub
          /\ open.granted = dev.granted
      BY DeviceFacts DEF DeviceStates
    <3> QED BY <2>2, <3>1, <3>2, DeviceFacts
  <2> QED BY <1>2, <2>1, <2>2
<1>4. Message("invoke_rsp", FALSE, q.ex, b) \in DeviceMsgs
  BY <1>1, <1>2, DeviceMsgTypes DEF InvokeAnswers
<1> DEFINE e == [key |-> sent[i].key, msg |-> Message("invoke_rsp", FALSE, q.ex, b)]
<1>5. dev' = [d EXCEPT !.said = @ \cup {e}] /\ handled' = handled \cup {i} /\ sent' = sent
  BY <1>2 DEF Reply, Said, Say, PeerSend
<1>6. dev'.said = dev.said \cup {e} /\ dev'.opened = d.opened
  BY <1>3, <1>5 DEF DeviceStates
<1>7. AnswersInv'
  BY <1>1, <1>3, <1>5, <1>6, AnswerAdded
<1> QED BY <1>1, <1>2, <1>3, <1>4, <1>7, DeviceFacts, ReplyKeeps

LEMMA DevSubscribeInv ==
    ASSUME InteractionInv, ChannelInv, NEW i \in 1 .. Len(sent), DevSubscribe(i)
    PROVE  InteractionInv'
<1>1. /\ sent[i].msg.ex = ZeroExchange
      /\ sent[i].key \in dev.keys /\ sent[i].key \in SessionKeys /\ sent[i].key.good
  BY PendingFacts, ControllerMsgShape DEF DevSubscribe
<1>2. CASE Reply(i, dev, "status_rsp", "fail")
  <2>1. Message("status_rsp", FALSE, sent[i].msg.ex, "fail") \in DeviceMsgs
    BY <1>1, DeviceMsgTypes
  <2> QED BY <1>1, <1>2, <2>1, DeviceFacts, ReplyKeeps
<1> DEFINE sub == [key |-> sent[i].key, event |-> 0, st |-> "report"]
           d == [dev EXCEPT !.sub = sub]
<1>3. CASE Reply(i, d, "report", "data")
  <2>1. Message("report", FALSE, sent[i].msg.ex, "data") \in DeviceMsgs
    BY <1>1, DeviceMsgTypes
  <2>2. sub \in [key : KeyOrNone, event : 0 .. MaxEvents, st : {"none", "report", "active"}]
    BY <1>1, KeyFacts, InteractionAssumption DEF KeyOrNone
  <2>3. sub.key = sent[i].key
    OBVIOUS
  <2> HIDE DEF sub
  <2>4. /\ d \in DeviceStates /\ d.sub = sub /\ d.granted = dev.granted
        /\ d.keys = dev.keys /\ d.said = dev.said /\ d.opened = dev.opened
    BY <2>2, DeviceFacts DEF DeviceStates
  <2> HIDE DEF d
  <2> QED BY <1>1, <1>3, <2>1, <2>3, <2>4, DeviceFacts, ReplyKeeps
<1> QED BY <1>2, <1>3 DEF DevSubscribe

LEMMA ConfirmedType ==
    ASSUME InteractionInv, NEW i \in 1 .. Len(sent), DevConfirmed(i)
    PROVE  /\ Confirmed(sent[i]) \in DeviceStates
           /\ Confirmed(sent[i]).keys = dev.keys
           /\ Confirmed(sent[i]).said = dev.said
           /\ Confirmed(sent[i]).opened = dev.opened
           /\ Confirmed(sent[i]).granted = dev.granted
           /\ Confirmed(sent[i]).sub.key \in SessionKeys /\ Confirmed(sent[i]).sub.key.good
<1> DEFINE c == [key |-> sent[i].key, ex |-> sent[i].msg.ex]
           u == [dev.sub EXCEPT !.st = "active"]
           v == dev.confirmed \cup {c}
<1>1. sent[i].key \in SessionKeys /\ sent[i].msg.ex \in Exchanges
  BY PendingFacts, ControllerMsgShape DEF DevConfirmed
<1>2. dev.sub.key \in SessionKeys /\ dev.sub.key.good
  BY DeviceFacts DEF DevConfirmed, Confirms
<1>3. v \in SUBSET [key : KeyOrNone, ex : Exchanges]
  BY <1>1, KeyFacts, DeviceFacts DEF KeyOrNone, DeviceStates
<1>4. /\ u \in [key : KeyOrNone, event : 0 .. MaxEvents, st : {"none", "report", "active"}]
      /\ u.key = dev.sub.key
  BY DeviceFacts DEF DeviceStates
<1>5. Confirmed(sent[i]) = [dev EXCEPT !.sub = u, !.confirmed = v]
  BY DeviceFacts DEF Confirmed, DeviceStates
<1> HIDE DEF c, u, v
<1>6. /\ Confirmed(sent[i]) \in DeviceStates
      /\ Confirmed(sent[i]).sub = u
  BY <1>3, <1>4, <1>5, DeviceFacts DEF DeviceStates
<1>7. /\ Confirmed(sent[i]).keys = dev.keys
      /\ Confirmed(sent[i]).said = dev.said
      /\ Confirmed(sent[i]).opened = dev.opened
      /\ Confirmed(sent[i]).granted = dev.granted
  BY <1>5, DeviceFacts DEF DeviceStates
<1> QED BY <1>2, <1>4, <1>6, <1>7

LEMMA DevConfirmedInv ==
    ASSUME InteractionInv, ChannelInv, NEW i \in 1 .. Len(sent), DevConfirmed(i)
    PROVE  InteractionInv'
<1> DEFINE d == Confirmed(sent[i])
<1>1. /\ d \in DeviceStates
      /\ d.keys = dev.keys /\ d.said = dev.said /\ d.opened = dev.opened
      /\ d.granted = dev.granted /\ d.sub.key \in SessionKeys /\ d.sub.key.good
  BY ConfirmedType
<1>2. sent[i].key \in dev.keys
  BY PendingFacts DEF DevConfirmed
<1>3. CASE dev.sub.event = 0
  <2>1. Reply(i, d, "subsc_rsp", "none") /\ sent[i].msg.ex = ZeroExchange
    BY <1>3 DEF DevConfirmed, Confirms
  <2>2. Message("subsc_rsp", FALSE, sent[i].msg.ex, "none") \in DeviceMsgs
    BY <2>1, DeviceMsgTypes
  <2> HIDE DEF d
  <2> QED BY <1>1, <1>2, <2>1, <2>2, DeviceFacts, ReplyKeeps
<1>4. CASE dev.sub.event # 0
  <2>1. /\ handled' = handled \cup {i} /\ dev' = d
        /\ UNCHANGED <<sc, sent, ret, net, script, run, pc, short, shown>>
    BY <1>4 DEF DevConfirmed, chanVars, appVars
  <2> HIDE DEF d
  <2>2. DeviceInv'
    BY <1>1, <2>1 DEF InteractionInv, DeviceInv
  <2>3. AnswersInv'
    BY <1>1, <2>1, AnswersKept
  <2>4. handled' \subseteq 1 .. Len(sent)
    BY <2>1 DEF InteractionInv, TypeInv, InteractionTypeOK
  <2> QED BY <1>1, <2>1, <2>2, <2>3, <2>4, DeviceFacts, DeviceKeeps
<1> QED BY <1>3, <1>4

LEMMA DevEventInv ==
    ASSUME InteractionInv, ChannelInv, DevEvent
    PROVE  InteractionInv'
<1> DEFINE n == dev.sub.event + 1
           k == dev.sub.key
           u == [dev.sub EXCEPT !.event = n, !.st = "report"]
<1>1. k \in SessionKeys /\ k.good /\ n \in 1 .. MaxEvents /\ n \in 0 .. MaxEvents
  <2>1. dev.sub.event \in 0 .. MaxEvents
    BY DeviceFacts DEF DeviceStates
  <2> QED BY <2>1, DeviceFacts, InteractionAssumption DEF DevEvent
<1>2. PICK b \in {"data", "junk"} :
        LET a == Message("report", TRUE, EventExchange(n), b) IN
        /\ dev' = Said([dev EXCEPT !.sub.event = @ + 1, !.sub.st = "report"], k, a)
        /\ Say(k, a)
  BY DEF DevEvent
<1> DEFINE a == Message("report", TRUE, EventExchange(n), b)
           e == [key |-> k, msg |-> a]
<1>3. a \in DeviceMsgs /\ a.op = "report"
  <2>1. EventExchange(n) \in EventExchanges
    BY <1>1 DEF EventExchange, EventExchanges
  <2> QED BY <2>1, DeviceMsgTypes DEF Message
<1>4. /\ u \in [key : KeyOrNone, event : 0 .. MaxEvents, st : {"none", "report", "active"}]
      /\ u.key = k
  BY <1>1, DeviceFacts DEF DeviceStates
<1>5. dev' = [dev EXCEPT !.sub = u, !.said = @ \cup {e}]
  BY <1>2, DeviceFacts DEF Said, DeviceStates
<1>6. e \in Statements /\ e.msg = a /\ e.key = k
  BY <1>1, <1>3 DEF Statements
<1>7. /\ UNCHANGED <<sc, sent, ret, script, run, pc, short, shown, handled>>
      /\ net' = net \cup {[key |-> k, ctr |-> pctr', msg |-> a]}
  BY <1>2 DEF Say, PeerSend, DevEvent, appVars
<1> HIDE DEF u, e, a
<1>8. /\ dev' \in DeviceStates /\ dev'.said = dev.said \cup {e} /\ dev'.sub = u
      /\ dev'.keys = dev.keys /\ dev'.opened = dev.opened /\ dev'.granted = dev.granted
  BY <1>4, <1>5, <1>6, DeviceFacts DEF DeviceStates
<1>9. DeviceInv'
  BY <1>1, <1>4, <1>6, <1>8 DEF InteractionInv, DeviceInv
<1>10. AnswersInv'
  BY <1>3, <1>6, <1>7, <1>8, AnswersKept
<1>11. ASSUME NEW x \in net'
       PROVE  x \in net \/ (x.key # NoKey /\ Heard(x.key, x.msg)')
  <2>1. CASE x = [key |-> k, ctr |-> pctr', msg |-> a]
    <3>1. x.key = k /\ x.msg = a /\ k # NoKey
      BY <1>1, <2>1, KeyFacts
    <3>2. [key |-> x.key, msg |-> x.msg] \in dev'.said
      BY <1>8, <3>1 DEF e
    <3> QED BY <3>1, <3>2 DEF Heard
  <2> QED BY <1>7, <2>1
<1>12. handled' \subseteq 1 .. Len(sent)
  BY <1>7 DEF InteractionInv, TypeInv, InteractionTypeOK
<1> QED BY <1>7, <1>8, <1>9, <1>10, <1>11, <1>12, DeviceFacts, DeviceKeeps

LEMMA DevClosesInv ==
    ASSUME InteractionInv, ChannelInv, DevCloses
    PROVE  InteractionInv'
<1>1. PICK k \in dev.keys :
        /\ dev' = [dev EXCEPT !.keys = @ \ {k},
                              !.sub = IF @.key = k THEN NoSubscription ELSE @]
        /\ Say(k, CloseReport)
        /\ UNCHANGED handled
  BY DEF DevCloses
<1> DEFINE u == IF dev.sub.key = k THEN NoSubscription ELSE dev.sub
<1>2. k \in SessionKeys /\ k # NoKey
  BY KeyFacts, DeviceFacts DEF DeviceStates
<1>3. /\ u \in [key : KeyOrNone, event : 0 .. MaxEvents, st : {"none", "report", "active"}]
      /\ u.st # "none" => u = dev.sub
  BY DeviceFacts, InteractionAssumption DEF DeviceStates, NoSubscription, KeyOrNone
<1>4. dev' = [dev EXCEPT !.keys = @ \ {k}, !.sub = u]
  BY <1>1
<1> HIDE DEF u
<1>5. /\ dev' \in DeviceStates /\ dev'.said = dev.said /\ dev'.sub = u
      /\ dev'.keys = dev.keys \ {k} /\ dev'.opened = dev.opened /\ dev'.granted = dev.granted
  BY <1>3, <1>4, DeviceFacts DEF DeviceStates
<1>6. /\ UNCHANGED <<sc, sent, ret, script, run, pc, short, shown, handled>>
      /\ net' = net \cup {[key |-> k, ctr |-> pctr', msg |-> CloseReport]}
  BY <1>1 DEF Say, PeerSend, appVars
<1>7. DeviceInv'
  BY <1>3, <1>5 DEF InteractionInv, DeviceInv
<1>8. AnswersInv'
  BY <1>5, <1>6, AnswersKept
<1>9. ASSUME NEW x \in net'
      PROVE  x \in net \/ (x.key # NoKey /\ Heard(x.key, x.msg)')
  BY <1>2, <1>6 DEF Heard
<1>10. handled' \subseteq 1 .. Len(sent)
  BY <1>6 DEF InteractionInv, TypeInv, InteractionTypeOK
<1> QED BY <1>5, <1>6, <1>7, <1>8, <1>9, <1>10, DeviceFacts, DeviceKeeps

LEMMA DeviceStepInv ==
    ASSUME InteractionInv, ChannelInv, Device
    PROVE  InteractionInv'
BY DevReadInv, DevInvokeInv, DevTimedInv, DevOpenWindowInv, DevSubscribeInv, DevConfirmedInv,
   DevEventInv, DevClosesInv DEF Device

-----------------------------------------------------------------------------
(* What each step does to the channel *)

(* The device sends under a key it shares, or keeps silent *)
LEMMA DeviceSends ==
    ASSUME InteractionInv, Device
    PROVE  \/ \E k \in KeyOrNone, m \in PeerMsgs : PeerSend(k, m)
           \/ UNCHANGED chanVars
<1>1. DeviceMsgs \subseteq PeerMsgs /\ SessionKeys \subseteq KeyOrNone
  BY InteractionAssumption DEF KeyOrNone
<1> USE DEF Reply, Say
<1>2. ASSUME NEW i \in 1 .. Len(sent),
             DevRead(i) \/ DevInvoke(i) \/ DevTimed(i) \/ DevOpenWindow(i) \/ DevSubscribe(i)
      PROVE  \E k \in SessionKeys, m \in DeviceMsgs : PeerSend(k, m)
  <2>1. sent[i].key \in SessionKeys
    BY <1>2, PendingFacts DEF DevRead, DevInvoke, DevTimed, DevOpenWindow, DevSubscribe
  <2>2. CASE DevRead(i)
    <3>1. sent[i].msg.ex = ZeroExchange
      BY <2>2, PendingFacts, ControllerMsgShape DEF DevRead
    <3> QED BY <2>1, <2>2, <3>1, DeviceMsgTypes DEF DevRead
  <2>3. CASE DevInvoke(i)
    <3>1. sent[i].msg.ex \in CommandExchanges
      BY <2>3, PendingFacts, ControllerMsgShape DEF DevInvoke
    <3> QED BY <2>1, <2>3, <3>1, DeviceMsgTypes DEF DevInvoke, InvokeAnswers
  <2>4. CASE DevTimed(i)
    <3>1. sent[i].msg.ex \in CommandExchanges
      BY <2>4, PendingFacts, ControllerMsgShape DEF DevTimed
    <3> QED BY <2>1, <2>4, <3>1, DeviceMsgTypes DEF DevTimed
  <2>5. CASE DevOpenWindow(i)
    <3>1. sent[i].msg.ex \in CommandExchanges
      BY <2>5, PendingFacts, ControllerMsgShape DEF DevOpenWindow
    <3> QED BY <2>1, <2>5, <3>1, DeviceMsgTypes DEF DevOpenWindow, InvokeAnswers
  <2>6. CASE DevSubscribe(i)
    <3>1. sent[i].msg.ex = ZeroExchange
      BY <2>6, PendingFacts, ControllerMsgShape DEF DevSubscribe
    <3> QED BY <2>1, <2>6, <3>1, DeviceMsgTypes DEF DevSubscribe
  <2> QED BY <1>2, <2>2, <2>3, <2>4, <2>5, <2>6
<1>3. ASSUME NEW i \in 1 .. Len(sent), DevConfirmed(i)
      PROVE  \/ \E k \in SessionKeys, m \in DeviceMsgs : PeerSend(k, m)
             \/ UNCHANGED chanVars
  <2>1. sent[i].key \in SessionKeys
    BY <1>3, PendingFacts DEF DevConfirmed
  <2>2. CASE dev.sub.event = 0
    <3>1. sent[i].msg.ex = ZeroExchange
      BY <1>3, <2>2 DEF DevConfirmed, Confirms
    <3> QED BY <1>3, <2>1, <2>2, <3>1, DeviceMsgTypes DEF DevConfirmed
  <2>3. CASE dev.sub.event # 0
    BY <1>3, <2>3 DEF DevConfirmed
  <2> QED BY <2>2, <2>3
<1>4. CASE DevEvent
  <2>1. dev.sub.key \in SessionKeys
    BY <1>4, DeviceFacts DEF DevEvent
  <2>2. dev.sub.event + 1 \in 1 .. MaxEvents
    <3>1. dev.sub.event \in 0 .. MaxEvents
      BY DeviceFacts DEF DeviceStates
    <3> QED BY <1>4, <3>1, InteractionAssumption DEF DevEvent
  <2>3. EventExchange(dev.sub.event + 1) \in EventExchanges
    BY <2>2 DEF EventExchange, EventExchanges
  <2> QED BY <1>1, <1>4, <2>1, <2>3, DeviceMsgTypes DEF DevEvent
<1>5. CASE DevCloses
  <2>1. CloseReport \in DeviceMsgs /\ dev.keys \subseteq SessionKeys
    BY DeviceMsgCases, DeviceFacts DEF DeviceStates
  <2> QED BY <1>1, <1>5, <2>1 DEF DevCloses
<1> QED BY <1>1, <1>2, <1>3, <1>4, <1>5 DEF Device

(* Every step is a step of the channel, or leaves it alone. *)
LEMMA StepIsChannelStep ==
    ASSUME InteractionInv, [Next]_vars
    PROVE  [ChannelNext]_chanVars
<1>1. CASE StartCommand
  <2>1. \E c \in 0 .. MaxCounter - 1 : StartSecureChannel(c)
    BY <1>1 DEF StartCommand, StartSecureChannel
  <2> QED BY <2>1 DEF ChannelNext
<1>2. CASE Connected
  <2>1. run \in Runs
    BY <1>2, RunType DEF Connected
  <2>2. \E k \in Keys : InstallCase(k)
    BY <1>2, <2>1, KeyFacts DEF Connected
  <2> QED BY <2>2 DEF ChannelNext
<1>3. CASE Sends
  <2>1. \E m \in ClientMsgs : Send(m)
    BY <1>3, SendsWrite, InteractionAssumption DEF SendsRequest
  <2> QED BY <2>1 DEF ChannelNext
<1>4. CASE Receive
  BY <1>4 DEF Receive, ChannelNext
<1>5. CASE Ends
  <2>1. Exit \/ Close
    BY <1>5 DEF Ends, ConnectFails, ShowAnswer, ReadAnswer, ShowWindow, Panics, Interrupt
  <2> QED BY <2>1 DEF ChannelNext
<1>6. CASE Device
  BY <1>6, DeviceSends DEF ChannelNext
<1>7. CASE UNCHANGED vars
  BY <1>7 DEF vars
<1> QED
  BY <1>1, <1>2, <1>3, <1>4, <1>5, <1>6, <1>7 DEF Next, Program, Sends, Ends

-----------------------------------------------------------------------------
(* Theorems *)

LEMMA InteractionInitInv == Init => InteractionInv /\ ChannelInv
<1> SUFFICES ASSUME Init PROVE InteractionInv /\ ChannelInv
  OBVIOUS
<1>1. ChannelInv
  BY InitInv DEF Init
<1>2. /\ sent = <<>> /\ net = {} /\ ret = NoRet
      /\ run = 0 /\ pc = "idle" /\ short = FALSE /\ shown = <<>> /\ handled = {}
      /\ script \in Scripts
  BY DEF Init, ChannelInit
<1>3. /\ dev.keys = {} /\ dev.granted = {} /\ dev.opened = {} /\ dev.said = {}
      /\ dev.sub.st = "none"
  BY DEF Init, NoSubscription
<1>4. dev \in DeviceStates
  BY InteractionAssumption DEF Init, NoSubscription, DeviceStates, KeyOrNone
<1>5. TypeInv
  <2>1. 0 \in 0 .. Len(script)
    BY <1>2, InteractionAssumption
  <2>2. InteractionTypeOK
    BY <1>2, <1>3, <2>1 DEF InteractionTypeOK
  <2>3. short \in BOOLEAN
    BY <1>2
  <2>4. shown \in Seq(ShownItems)
    BY <1>2
  <2> QED BY <1>2, <1>4, <2>2, <2>3, <2>4 DEF TypeInv
<1>6. SentInv /\ ControlInv /\ DeviceInv
  BY <1>2, <1>3 DEF SentInv, ControlInv, DeviceInv, Waits
<1>7. NetInv /\ RetInv /\ AnswersInv /\ ShownInv
  BY <1>2, <1>3 DEF NetInv, RetInv, AnswersInv, ShownInv, NoRet
<1> QED BY <1>1, <1>5, <1>6, <1>7 DEF InteractionInv

LEMMA InteractionStepInv ==
    InteractionInv /\ ChannelInv /\ [Next]_vars => InteractionInv' /\ ChannelInv'
<1> SUFFICES ASSUME InteractionInv, ChannelInv, [Next]_vars PROVE InteractionInv' /\ ChannelInv'
  OBVIOUS
<1>1. ChannelInv'
  BY StepIsChannelStep, StepInv
<1>2. CASE UNCHANGED vars
  <2>1. UNCHANGED <<sc, sent, net, ret, script, run, pc, short, shown, handled, dev>>
    BY <1>2 DEF vars, chanVars, appVars, devVars
  <2>2. dev' \in DeviceStates /\ handled' \subseteq 1 .. Len(sent)
    BY <2>1 DEF InteractionInv, TypeInv, InteractionTypeOK
  <2>3. DeviceInv' /\ AnswersInv'
    BY <2>1 DEF InteractionInv, DeviceInv, AnswersInv, Invokes
  <2>4. /\ dev.said \subseteq dev'.said /\ dev'.opened \subseteq dev'.granted
        /\ \A x \in net' : x \in net
    BY <2>1, DeviceFacts
  <2>5. InteractionInv'
    BY <2>1, <2>2, <2>3, <2>4, DeviceKeeps
  <2> QED BY <1>1, <2>5
<1>3. CASE Program \/ Interrupt
  BY <1>1, <1>3, ConnectedInv, SendsInv, ReceiveInv, EndsInv DEF Program, Sends, Ends
<1> QED BY <1>1, <1>2, <1>3, StartInv, DeviceStepInv DEF Next

(* The invariant holds in every state of every script. *)
THEOREM InteractionInvariant == Spec => [](InteractionInv /\ ChannelInv)
<1>1. Init => InteractionInv /\ ChannelInv
  BY InteractionInitInv
<1>2. (InteractionInv /\ ChannelInv) /\ [Next]_vars => (InteractionInv /\ ChannelInv)'
  BY InteractionStepInv
<1> QED BY <1>1, <1>2, PTL DEF Spec

(* The commands use the channel only through its operations: Interaction   *)
(* implements SecureChannel.                                               *)
THEOREM InteractionImplementsChannel == Spec => ImplementsChannel
<1>1. Init => ChannelInit
  BY DEF Init
<1>2. (InteractionInv /\ ChannelInv) /\ [Next]_vars => [ChannelNext]_chanVars
  BY StepIsChannelStep
<1> QED BY <1>1, <1>2, InteractionInvariant, PTL DEF Spec, ImplementsChannel, ChannelSpec

(* Types of the commands' and the device's state. *)
THEOREM InteractionTypeCorrect == Spec => []InteractionTypeOK
<1>1. InteractionInv => InteractionTypeOK
  BY DEF InteractionInv, TypeInv
<1> QED BY <1>1, InteractionInvariant, PTL

(* What a command shows, the device said in that command's session,        *)
(* whatever earlier commands left on the port.                             *)
THEOREM ShownTheorem == Spec => []ShownIsOwnAnswer
<1>1. InteractionInv => ShownIsOwnAnswer
  <2> SUFFICES ASSUME InteractionInv, NEW i \in 1 .. Len(shown)
               PROVE  \E s \in dev.said :
                        /\ s.key = SessionKey(shown[i].run, TRUE)
                        /\ s.msg.ex = shown[i].ex
                        /\ CASE shown[i].kind = "status" ->
                                   s.msg.op = "invoke_rsp" /\ Status(s.msg) = shown[i].value
                             [] shown[i].kind = "message" -> s.msg.body = shown[i].value
                             [] OTHER -> s.msg.op = "invoke_rsp"
    BY DEF ShownIsOwnAnswer
  <2>1. PICK s \in dev.said : Founded(shown[i], s)
    BY DEF InteractionInv, ShownInv
  <2>2. shown[i].kind \in {"status", "message", "window"}
    <3>1. shown[i] \in ShownItems
      BY DEF InteractionInv, TypeInv
    <3> QED BY <3>1 DEF ShownItems
  <2>3. CASE shown[i].kind = "status"
    BY <2>1, <2>3 DEF Founded
  <2>4. CASE shown[i].kind = "message"
    BY <2>1, <2>4 DEF Founded
  <2>5. CASE shown[i].kind = "window"
    BY <2>1, <2>5 DEF Founded
  <2> QED BY <2>2, <2>3, <2>4, <2>5
<1> QED BY <1>1, InteractionInvariant, PTL

(* open_commissioning reports success only when the device has opened the  *)
(* window for that command or has refused it with cluster status 0, and a  *)
(* failure only when the window was not opened.                            *)
THEOREM WindowTheorem == Spec => []WindowReportedTruly
<1>1. InteractionInv => WindowReportedTruly
  <2> SUFFICES ASSUME InteractionInv, NEW i \in 1 .. Len(shown), shown[i].kind = "window"
               PROVE  IF shown[i].value = "success"
                      THEN \/ shown[i].ex \in dev.opened
                           \/ RefusedWithClusterStatus0(shown[i].run, shown[i].ex)
                      ELSE shown[i].ex \notin dev.opened
    BY DEF WindowReportedTruly
  <2>1. PICK s \in dev.said :
          /\ s.key = SessionKey(shown[i].run, TRUE) /\ s.msg.ex = shown[i].ex
          /\ s.msg.op = "invoke_rsp"
          /\ script[shown[i].run] = "open"
          /\ shown[i].value = "success" <=> s.msg.body \in {"status0", "cluster0"}
    BY DEF InteractionInv, ShownInv, Founded
  <2>2. PICK j \in handled :
          /\ Invokes(j, s)
          /\ sent[j].msg.body # "command" =>
                (s.msg.body = "status0" <=> s.msg.ex \in dev.opened)
    BY <2>1 DEF InteractionInv, AnswersInv
  <2>3. j \in 1 .. Len(sent)
    BY DEF InteractionInv, TypeInv, InteractionTypeOK
  <2>4. sent[j].msg.body # "command"
    <3>1. /\ sent[j].key.run = sent[j].msg.ex[1]
          /\ sent[j].msg.body = "command" => script[sent[j].msg.ex[1]] # "open"
      BY <2>2, <2>3 DEF InteractionInv, SentInv, MayWrite, Invokes
    <3>2. sent[j].key.run = shown[i].run
      BY <2>1, <2>2 DEF Invokes, SessionKey
    <3> QED BY <2>1, <3>1, <3>2
  <2>5. s.msg.body = "status0" <=> shown[i].ex \in dev.opened
    BY <2>1, <2>2, <2>4
  <2>6. CASE s.msg.body = "cluster0"
    <3>1. RefusedWithClusterStatus0(shown[i].run, shown[i].ex)
      BY <2>1, <2>6 DEF RefusedWithClusterStatus0
    <3> QED BY <2>1, <2>6, <3>1
  <2>7. CASE s.msg.body # "cluster0"
    BY <2>1, <2>5, <2>7
  <2> QED BY <2>6, <2>7
<1> QED BY <1>1, InteractionInvariant, PTL

(* Every ack the commands' channel writes answers a datagram that Receive  *)
(* accepted, in order and under its key.                                   *)
THEOREM InteractionAckTheorem == Spec => []AcksAnswerAcceptedDatagrams
<1> QED BY InteractionImplementsChannel, AckTheorem, PTL DEF ImplementsChannel

-----------------------------------------------------------------------------
(* Events: the inductive invariant *)

Requests == {"read_req", "subsc_req", "timed_req", "invoke_req"}

(* Which requests a command c writes *)
Asks(c, o) ==
    /\ o = "read_req" => c \in {"lookup", "dump", "read"}
    /\ o = "subsc_req" => c = "subscribe"
    /\ o = "timed_req" => c = "open"
    /\ o = "invoke_req" => c \in {"invoke", "logs", "open"}

IsRequest(i) == sent[i].msg.op \in Requests

NoRequestYet == \A i \in 1 .. Len(sent) : IsRequest(i) => sent[i].key.run # run

(* A session has one request that is answered with a report, and no other  *)
RequestInv ==
    /\ \A i \in 1 .. Len(sent) :
         IsRequest(i) => sent[i].key.run \in 1 .. run /\ Asks(script[sent[i].key.run], sent[i].msg.op)
    /\ \A i, j \in 1 .. Len(sent) :
         /\ sent[i].msg.op \in {"read_req", "subsc_req"} /\ IsRequest(j)
         /\ sent[i].key.run = sent[j].key.run
         => i = j
    /\ pc \in {"exchange", "request"} => NoRequestYet

(* A confirmation is of something shown, or answers what is no report *)
Settled(d) ==
    \/ ShownIn(d.key.run, d.msg.ex, Len(shown))
    \/ d.msg.ini /\ \E m \in DeviceMsgs : ~IsReport(m) /\ m.ex = d.msg.ex /\ Heard(d.key, m)

StatusInv == \A i \in 1 .. Len(sent) : sent[i].msg.op = "status_rsp" => Settled(sent[i])

Asked(k, o) == \E i \in handled : sent[i].msg.op \in o /\ sent[i].key = k

(* The exchange of the report the device last sent in its subscription *)
SubExchange == IF dev.sub.event = 0 THEN ZeroExchange ELSE EventExchange(dev.sub.event)

SaidInv ==
    /\ \A s \in dev.said : Asked(s.key, Requests)
    /\ \A s \in dev.said : IsReport(s.msg) /\ s.msg.ex # ZeroExchange =>
         /\ s.msg.ex \in EventExchanges
         /\ [key |-> s.key, ex |-> Previous(s.msg.ex)] \in dev.confirmed

SubInv ==
    /\ dev.sub.st # "none" =>
         /\ Asked(dev.sub.key, {"subsc_req"})
         /\ \A s \in dev.said : s.key = dev.sub.key /\ s.msg.ex \in EventExchanges =>
              s.msg.ex[1] <= dev.sub.event
    /\ dev.sub.st = "report" /\ dev.sub.event = 0 =>
         \A s \in dev.said : s.key = dev.sub.key => IsReport(s.msg)
    /\ dev.sub.st = "active" => [key |-> dev.sub.key, ex |-> SubExchange] \in dev.confirmed

(* The network holds a report once *)
OnceInv ==
    \A x, y \in net : IsReport(x.msg) /\ IsReport(y.msg) /\ x.key = y.key /\ x.msg.ex = y.msg.ex => x = y

Answered(r, e) ==
    \E s \in dev.said :
        s.key = SessionKey(r, TRUE) /\ s.msg.ex = e /\ s.msg.op \in {"report", "invoke_rsp"}

MessagesInv ==
    /\ \A i \in 1 .. Len(shown) :
         shown[i].kind = "message" => Answered(shown[i].run, shown[i].ex)
    /\ pc \notin {"idle", "listen"} => \A i \in 1 .. Len(shown) : shown[i].run # run

(* Copies beyond the first: shown (Repeated), returned by Receive, or on   *)
(* their way                                                               *)
Seen(k, e) == ReportShown(k.run, e, Len(shown))
Held(k, e) == ret.st = "ok" /\ IsReport(ret.msg) /\ sc.key = k /\ ret.msg.ex = e
HeldAgain == ret.st = "ok" /\ IsReport(ret.msg) /\ Seen(sc.key, ret.msg.ex)
Stale == {d \in net : IsReport(d.msg) /\ (Seen(d.key, d.msg.ex) \/ Held(d.key, d.msg.ex))}

CountInv ==
    /\ IsFiniteSet(net)
    /\ Cardinality(Repeated) + Cardinality(Stale) + (IF HeldAgain THEN 1 ELSE 0) <= dups

OrderInv == RequestInv /\ StatusInv /\ SaidInv /\ SubInv /\ ConfirmedWasShown /\ EventsShownInOrder

CopyInv == OnceInv /\ MessagesInv /\ CountInv

EventInv == OrderInv /\ CopyInv

-----------------------------------------------------------------------------
(* Exchanges and sessions *)

LEMMA ExchangeFacts ==
    /\ ZeroExchange \notin EventExchanges /\ ZeroExchange \notin CommandExchanges
    /\ EventExchanges \cap CommandExchanges = {}
    /\ CloseReport.ex \notin EventExchanges /\ CloseReport.ex # ZeroExchange
    /\ CloseReport.ex \notin CommandExchanges
    /\ ~IsReport(CloseReport) /\ CloseReport.op # "invoke_rsp"
BY DEF ZeroExchange, EventExchanges, CommandExchanges, CloseReport, IsReport

LEMMA DeviceMsgExchange ==
    ASSUME NEW m \in DeviceMsgs
    PROVE  /\ IsReport(m) => m.ex \in {ZeroExchange} \cup EventExchanges
           /\ m.op = "invoke_rsp" => m.ex \in CommandExchanges
           /\ m.ex \in EventExchanges => IsReport(m)
           /\ m.ex \in CommandExchanges => ~IsReport(m)
<1> USE ExchangeFacts DEF MsgSet, IsReport
<1>1. CASE m \in MsgSet({"report"}, FALSE, {ZeroExchange}, {"data", "no_data", "junk"})
  BY <1>1
<1>2. CASE m \in MsgSet({"report"}, TRUE, EventExchanges, {"data", "junk"})
  BY <1>2
<1>3. CASE m \in MsgSet({"subsc_rsp"}, FALSE, {ZeroExchange}, {"none"})
  BY <1>3
<1>4. CASE m \in MsgSet({"status_rsp"}, FALSE, {ZeroExchange} \cup CommandExchanges, {"ok", "fail", "bare"})
  BY <1>4
<1>5. CASE m \in MsgSet({"invoke_rsp"}, FALSE, CommandExchanges, InvokeAnswers)
  BY <1>5
<1>6. CASE m = CloseReport
  BY <1>6
<1> QED BY <1>1, <1>2, <1>3, <1>4, <1>5, <1>6, DeviceMsgCases

LEMMA SessionOfKey ==
    ASSUME NEW k \in SessionKeys, k.good
    PROVE  k.run \in Runs /\ k = SessionKey(k.run, TRUE)
BY DEF SessionKeys, SessionKey

LEMMA CurrentKey ==
    ASSUME InteractionInv, pc \in Waits \cup {"request"}
    PROVE  sc.key.run = run /\ sc.key # NoKey /\ run \in 1 .. run /\ run \in Runs
<1>1. PICK g \in BOOLEAN : sc.key = SessionKey(run, g)
  BY DEF InteractionInv, ControlInv
<1>2. run \in Runs /\ run \in 1 .. run
  BY RunType DEF Waits
<1> QED BY <1>1, <1>2, KeyFacts DEF SessionKey

LEMMA SaidFacts ==
    ASSUME InteractionInv, NEW s \in dev.said
    PROVE  /\ s.msg \in DeviceMsgs /\ s.key \in SessionKeys
           /\ s.key = SessionKey(s.key.run, TRUE) /\ s.key.run \in Runs
<1>1. s \in Statements /\ s.key.good
  BY DeviceFacts DEF DeviceStates, InteractionInv, DeviceInv
<1>2. s.msg \in DeviceMsgs /\ s.key \in SessionKeys
  BY <1>1 DEF Statements
<1> QED BY <1>1, <1>2, SessionOfKey

-----------------------------------------------------------------------------
(* What is written *)

ShownGrows ==
    /\ Len(shown) \in Nat /\ Len(shown') \in Nat /\ Len(shown) <= Len(shown')
    /\ \A i \in 1 .. Len(shown) : shown'[i] = shown[i]

LEMMA SentType ==
    ASSUME ChannelInv
    PROVE  sent \in Seq(Sealed) /\ Len(sent) \in Nat
BY InvParts DEF WrittenInv

(* One datagram is written, or the socket is closed and none is *)
LEMMA WrittenShape ==
    ASSUME ChannelInv, NEW c \in Channels, NEW m \in WireMsgs, sent' = Written(c, m)
    PROVE  /\ Kept
           /\ \A i \in 1 .. Len(sent') :
                \/ i \in 1 .. Len(sent) /\ sent'[i] = sent[i]
                \/ i = Len(sent) + 1 /\ sent'[i].msg = m /\ sent'[i].key = c.key
<1> DEFINE d == Datagram(c, m)
           n == Len(sent)
<1>1. d \in Sealed /\ d.msg = m /\ d.key = c.key
  BY IncType DEF Datagram, Sealed, Channels
<1> HIDE DEF d
<1>2. CASE sent' = sent
  BY <1>2, SentType DEF Kept
<1>3. CASE sent' = Append(sent, d)
  <2>1. /\ Len(sent') = n + 1 /\ n \in Nat /\ sent'[n + 1] = d
        /\ \A i \in 1 .. n : sent'[i] = sent[i]
    BY <1>1, <1>3, SentType
  <2>2. \A i \in 1 .. n + 1 : i \in 1 .. n \/ i = n + 1
    BY <2>1
  <2> QED BY <1>1, <2>1, <2>2 DEF Kept
<1> QED BY <1>2, <1>3 DEF Written, d

(* A request goes out under the key of its run, the first of its session   *)
(* or the invoke that follows a timed request.                             *)
LEMMA RequestWrite ==
    ASSUME InteractionInv, ChannelInv, RequestInv, NEW c \in Channels, NEW m \in WireMsgs,
           sent' = Written(c, m), UNCHANGED <<script, run>>, pc' \notin {"exchange", "request"},
           m.op \in Requests =>
              /\ c.key.run = run /\ run \in 1 .. run /\ Asks(script[run], m.op)
              /\ \/ NoRequestYet
                 \/ m.op = "invoke_req" /\ script[run] = "open"
    PROVE  RequestInv'
<1>1. /\ Kept
      /\ \A i \in 1 .. Len(sent') :
           \/ i \in 1 .. Len(sent) /\ sent'[i] = sent[i]
           \/ i = Len(sent) + 1 /\ sent'[i].msg = m /\ sent'[i].key = c.key
  BY WrittenShape
<1>2. ASSUME NEW i \in 1 .. Len(sent'), sent'[i].msg.op \in Requests
      PROVE  sent'[i].key.run \in 1 .. run /\ Asks(script[sent'[i].key.run], sent'[i].msg.op)
  <2>1. CASE i \in 1 .. Len(sent) /\ sent'[i] = sent[i]
    BY <1>2, <2>1 DEF RequestInv, IsRequest
  <2>2. CASE sent'[i].msg = m /\ sent'[i].key = c.key
    BY <1>2, <2>2
  <2> QED BY <1>1, <2>1, <2>2
(* The new datagram is not in the run of another, unless it is an invoke   *)
(* after a timed request                                                   *)
<1>3. ASSUME NEW j \in 1 .. Len(sent), IsRequest(j), m.op \in Requests, sent[j].key.run = c.key.run
      PROVE  m.op = "invoke_req" /\ sent[j].msg.op \notin {"read_req", "subsc_req"}
  <2>1. sent[j].key.run = run /\ ~NoRequestYet
    BY <1>3 DEF NoRequestYet
  <2>2. m.op = "invoke_req" /\ script[run] = "open"
    BY <1>3, <2>1
  <2>3. Asks(script[run], sent[j].msg.op)
    BY <1>3, <2>1 DEF RequestInv
  <2> QED BY <2>2, <2>3 DEF Asks
<1>4. ASSUME NEW i \in 1 .. Len(sent'), NEW j \in 1 .. Len(sent'),
             sent'[i].msg.op \in {"read_req", "subsc_req"}, sent'[j].msg.op \in Requests,
             sent'[i].key.run = sent'[j].key.run
      PROVE  i = j
  <2>1. CASE i \in 1 .. Len(sent) /\ sent'[i] = sent[i] /\ j \in 1 .. Len(sent) /\ sent'[j] = sent[j]
    BY <1>4, <2>1 DEF RequestInv, IsRequest
  <2>2. CASE i \in 1 .. Len(sent) /\ sent'[i] = sent[i] /\ sent'[j].msg = m /\ sent'[j].key = c.key
    <3>1. IsRequest(i) /\ m.op \in Requests /\ sent[i].key.run = c.key.run
      BY <1>4, <2>2 DEF IsRequest, Requests
    <3> QED BY <1>3, <1>4, <2>2, <3>1
  <2>3. CASE sent'[i].msg = m /\ sent'[i].key = c.key /\ j \in 1 .. Len(sent) /\ sent'[j] = sent[j]
    <3>1. IsRequest(j) /\ m.op \in Requests /\ sent[j].key.run = c.key.run
      BY <1>4, <2>3 DEF IsRequest, Requests
    <3> QED BY <1>3, <1>4, <2>3, <3>1
  <2>4. CASE i = Len(sent) + 1 /\ j = Len(sent) + 1
    BY <2>4
  <2> QED BY <1>1, <2>1, <2>2, <2>3, <2>4
<1> QED BY <1>2, <1>4 DEF RequestInv, IsRequest

LEMMA RequestQuiet ==
    ASSUME RequestInv, sent' = sent, UNCHANGED <<script, run>>,
           pc' \in {"exchange", "request"} => pc \in {"exchange", "request"}
    PROVE  RequestInv'
BY DEF RequestInv, IsRequest, NoRequestYet

(* Confirmations stay settled, and a new one is                            *)
LEMMA StatusKept ==
    ASSUME StatusInv, Kept, ShownGrows, dev.said \subseteq dev'.said,
           \A i \in 1 .. Len(sent') :
              \/ i \in 1 .. Len(sent) /\ sent'[i] = sent[i]
              \/ sent'[i].msg.op # "status_rsp"
              \/ Settled(sent[i])'
    PROVE  StatusInv'
<1> SUFFICES ASSUME NEW i \in 1 .. Len(sent'), sent'[i].msg.op = "status_rsp"
             PROVE  Settled(sent[i])'
  BY DEF StatusInv
<1>1. CASE i \in 1 .. Len(sent) /\ sent'[i] = sent[i]
  <2>1. Settled(sent[i])
    BY <1>1 DEF StatusInv
  <2>2. CASE ShownIn(sent[i].key.run, sent[i].msg.ex, Len(shown))
    <3>1. PICK j \in 1 .. Len(shown) : shown[j].run = sent[i].key.run /\ shown[j].ex = sent[i].msg.ex
      BY <2>2 DEF ShownIn
    <3>2. j \in 1 .. Len(shown') /\ shown'[j] = shown[j]
      BY <3>1 DEF ShownGrows
    <3> QED BY <1>1, <3>1, <3>2 DEF Settled, ShownIn
  <2>3. CASE sent[i].msg.ini /\ \E m \in DeviceMsgs :
               ~IsReport(m) /\ m.ex = sent[i].msg.ex /\ Heard(sent[i].key, m)
    BY <1>1, <2>3 DEF Settled, Heard
  <2> QED BY <2>1, <2>2, <2>3 DEF Settled
<1> QED BY <1>1

(* The device's part, while the program runs *)
LEMMA ProgramOrder ==
    ASSUME InteractionInv, OrderInv, Kept, ShownGrows, UNCHANGED handled,
           dev'.said = dev.said, dev'.confirmed = dev.confirmed, dev'.sub = dev.sub,
           RequestInv', StatusInv', EventsShownInOrder'
    PROVE  OrderInv'
<1>1. \A i \in handled : i \in 1 .. Len(sent) /\ sent'[i] = sent[i]
  BY DEF InteractionInv, TypeInv, InteractionTypeOK, Kept
<1>2. \A k, o : Asked(k, o) => Asked(k, o)'
  BY <1>1 DEF Asked
<1>3. SaidInv'
  BY <1>1 DEF OrderInv, SaidInv, Asked
<1>4. SubInv'
  BY <1>1 DEF OrderInv, SubInv, Asked, SubExchange
<1>5. ConfirmedWasShown'
  <2> SUFFICES ASSUME NEW c \in dev.confirmed
               PROVE  \E j \in 1 .. Len(shown') : shown'[j].run = c.key.run /\ shown'[j].ex = c.ex
    BY DEF ConfirmedWasShown, ShownIn
  <2>1. PICK j \in 1 .. Len(shown) : shown[j].run = c.key.run /\ shown[j].ex = c.ex
    BY DEF OrderInv, ConfirmedWasShown, ShownIn
  <2>2. j \in 1 .. Len(shown') /\ shown'[j] = shown[j]
    BY DEF ShownGrows
  <2> QED BY <2>1, <2>2
<1> QED BY <1>3, <1>4, <1>5 DEF OrderInv

LEMMA ShownType ==
    ASSUME InteractionInv
    PROVE  shown \in Seq(ShownItems) /\ Len(shown) \in Nat
BY DEF InteractionInv, TypeInv

(* What is shown is shown once its predecessor was *)
LEMMA ShowOrder ==
    ASSUME InteractionInv, OrderInv, pc \in Waits, ret.st = "ok", NEW kind, NEW value,
           Show(kind, ret.msg, value)
    PROVE  /\ EventsShownInOrder' /\ ShownGrows
           /\ Len(shown') = Len(shown) + 1
           /\ shown'[Len(shown')].run = run /\ shown'[Len(shown')].ex = ret.msg.ex
           /\ shown'[Len(shown')].kind = kind
<1> DEFINE x == Shown(kind, ret.msg.ex, value)
           n == Len(shown)
<1>1. shown' = Append(shown, x) /\ x.run = run /\ x.ex = ret.msg.ex /\ x.kind = kind
  BY DEF Show, Shown
<1> HIDE DEF x
<1>2. /\ Len(shown') = n + 1 /\ n \in Nat /\ shown'[n + 1] = x
      /\ \A i \in 1 .. n : shown'[i] = shown[i]
  BY <1>1, ShownType
<1>3. ShownGrows
  BY <1>2 DEF ShownGrows
<1>4. ASSUME NEW i \in 1 .. n + 1, shown'[i].ex \in EventExchanges
      PROVE  \E j \in 1 .. i - 1 : shown'[j].run = shown'[i].run /\ shown'[j].ex = Previous(shown'[i].ex)
  <2>1. CASE i \in 1 .. n
    <3>1. PICK j \in 1 .. i - 1 : shown[j].run = shown[i].run /\ shown[j].ex = Previous(shown[i].ex)
      BY <1>2, <1>4, <2>1 DEF OrderInv, EventsShownInOrder, ShownIn
    <3>2. j \in 1 .. n
      BY <1>2, <2>1
    <3> QED BY <1>2, <2>1, <3>1, <3>2
  <2>2. CASE i = n + 1
    <3> DEFINE s == [key |-> SessionKey(run, TRUE), msg |-> ret.msg]
    <3>1. ret.msg.ex \in EventExchanges
      BY <1>1, <1>2, <1>4, <2>2
    <3>2. s \in dev.said /\ s.msg = ret.msg /\ s.key = SessionKey(run, TRUE) /\ IsReport(ret.msg)
      BY <3>1, OwnAnswer, ExchangeFacts, DeviceMsgExchange
    <3> HIDE DEF s
    <3>3. [key |-> SessionKey(run, TRUE), ex |-> Previous(ret.msg.ex)] \in dev.confirmed
      BY <3>1, <3>2, ExchangeFacts DEF OrderInv, SaidInv
    <3>4. PICK j \in 1 .. n : shown[j].run = run /\ shown[j].ex = Previous(ret.msg.ex)
      <4> DEFINE c == [key |-> SessionKey(run, TRUE), ex |-> Previous(ret.msg.ex)]
      <4>1. c.key.run = run /\ c.ex = Previous(ret.msg.ex)
        BY DEF SessionKey
      <4>2. ShownIn(c.key.run, c.ex, n)
        BY <3>3 DEF OrderInv, ConfirmedWasShown
      <4> QED BY <4>1, <4>2 DEF ShownIn
    <3> QED BY <1>1, <1>2, <2>2, <3>4
  <2> QED BY <1>2, <2>1, <2>2
<1>5. EventsShownInOrder'
  BY <1>2, <1>4 DEF EventsShownInOrder, ShownIn, Previous
<1> QED BY <1>1, <1>2, <1>3, <1>5

LEMMA NoShow ==
    ASSUME InteractionInv, OrderInv, shown' = shown
    PROVE  EventsShownInOrder' /\ ShownGrows
BY ShownType DEF OrderInv, EventsShownInOrder, ShownIn, ShownGrows

-----------------------------------------------------------------------------
(* The order of events: steps of the program *)

LEMMA StartOrder ==
    ASSUME InteractionInv, ChannelInv, OrderInv, StartCommand
    PROVE  OrderInv'
<1>1. /\ sent' = sent /\ run' = run + 1 /\ UNCHANGED <<script, shown, handled, dev>>
  BY DEF StartCommand, StartSecureChannel, devVars
<1>2. run \in Nat
  BY InteractionAssumption DEF InteractionInv, TypeInv, InteractionTypeOK
<1>3. Kept
  BY <1>1, SentType DEF Kept
<1>4. RequestInv'
  <2>1. \A i \in 1 .. Len(sent) : IsRequest(i) =>
           sent[i].key.run \in 1 .. run' /\ sent[i].key.run # run'
    BY <1>1, <1>2 DEF OrderInv, RequestInv
  <2> QED BY <1>1, <2>1 DEF OrderInv, RequestInv, IsRequest, NoRequestYet
<1>5. ShownGrows /\ EventsShownInOrder'
  BY <1>1, NoShow
<1>6. StatusInv'
  BY <1>1, <1>3, <1>5, StatusKept DEF OrderInv
<1> QED BY <1>1, <1>3, <1>4, <1>5, <1>6, ProgramOrder

LEMMA ConnectedOrder ==
    ASSUME InteractionInv, ChannelInv, OrderInv, Connected
    PROVE  OrderInv'
<1>1. /\ sent' = sent /\ UNCHANGED <<script, run, shown, handled>> /\ pc = "exchange"
      /\ dev'.said = dev.said /\ dev'.confirmed = dev.confirmed /\ dev'.sub = dev.sub
  BY DeviceFacts DEF Connected, InstallCase, Goto, DeviceStates
<1>2. Kept
  BY <1>1, SentType DEF Kept
<1>3. RequestInv'
  BY <1>1, RequestQuiet DEF OrderInv
<1>4. ShownGrows /\ EventsShownInOrder'
  BY <1>1, NoShow
<1>5. StatusInv'
  BY <1>1, <1>2, <1>4, StatusKept DEF OrderInv
<1> QED BY <1>1, <1>2, <1>3, <1>4, <1>5, ProgramOrder

(* A datagram that is neither a request nor a confirmation *)
LEMMA OtherWriteOrder ==
    ASSUME InteractionInv, ChannelInv, OrderInv, NEW c \in Channels, NEW m \in WireMsgs,
           sent' = Written(c, m), m.op \in {"ack", "status"}, UNCHANGED <<script, run, handled, dev>>,
           pc' \notin {"exchange", "request"}, ShownGrows, EventsShownInOrder'
    PROVE  OrderInv'
<1>1. /\ Kept
      /\ \A i \in 1 .. Len(sent') :
           \/ i \in 1 .. Len(sent) /\ sent'[i] = sent[i]
           \/ i = Len(sent) + 1 /\ sent'[i].msg = m /\ sent'[i].key = c.key
  BY WrittenShape
<1>2. m.op \notin Requests /\ m.op # "status_rsp"
  BY DEF Requests
<1>3. RequestInv'
  BY <1>2, RequestWrite DEF OrderInv
<1>4. StatusInv'
  BY <1>1, <1>2, StatusKept DEF OrderInv
<1> QED BY <1>1, <1>3, <1>4, ProgramOrder

LEMMA ReceiveOrder ==
    ASSUME InteractionInv, ChannelInv, OrderInv, Receive
    PROVE  OrderInv'
<1>1. /\ ReceiveStep /\ UNCHANGED <<script, run, pc, shown, handled, dev>>
      /\ pc \in Waits
  BY DEF Receive, InReceive, appVars, devVars
<1>2. ShownGrows /\ EventsShownInOrder'
  BY <1>1, NoShow
<1>3. CASE sent' = sent
  <2>1. Kept
    BY <1>3, SentType DEF Kept
  <2>2. RequestInv'
    BY <1>1, <1>3, RequestQuiet DEF OrderInv
  <2>3. StatusInv'
    BY <1>1, <1>2, <1>3, <2>1, StatusKept DEF OrderInv
  <2> QED BY <1>1, <1>2, <2>1, <2>2, <2>3, ProgramOrder
<1>4. ASSUME NEW d \in net, ReceiveMessage(d) \/ ReceivePanic(d)
      PROVE  OrderInv'
  <2>1. PICK m \in Opened(d) : Accept(d, m)
    BY <1>4 DEF ReceiveMessage, ReceivePanic
  <2>2. ackGen(m, d.ctr) \in WireMsgs /\ ackGen(m, d.ctr).op = "ack"
    BY OpenedType DEF ackGen
  <2>3. sent' = Written(sc, ackGen(m, d.ctr)) /\ sc \in Channels
    BY <2>1, SelfSends DEF Accept
  <2>4. pc' \notin {"exchange", "request"}
    BY <1>1 DEF Waits
  <2> QED BY <1>1, <1>2, <2>2, <2>3, <2>4, OtherWriteOrder
<1> QED BY <1>1, <1>3, <1>4
        DEF ReceiveStep, ReceiveTimeout, ReceiveUnopenable, ReceiveAck

(* What the end of a process may show *)
LEMMA EndShows ==
    ASSUME Ends
    PROVE  \/ shown' = shown
           \/ /\ pc \in Waits /\ ret.st = "ok"
              /\ \E kind, value : Show(kind, ret.msg, value)
<1>1. CASE ShowAnswer
  BY <1>1 DEF ShowAnswer, Got, Waits
<1>2. CASE ReadAnswer
  BY <1>2 DEF ReadAnswer, Got, Waits
<1>3. CASE ShowWindow
  BY <1>3 DEF ShowWindow, Got, Waits
<1> QED BY <1>1, <1>2, <1>3 DEF Ends, ConnectFails, Panics, Interrupt

LEMMA EndsOrder ==
    ASSUME InteractionInv, ChannelInv, OrderInv, Ends
    PROVE  OrderInv'
<1>1. /\ Exit \/ Close
      /\ UNCHANGED <<script, run, handled, dev>> /\ pc' = "idle"
  BY DEF Ends, ConnectFails, ShowAnswer, ReadAnswer, ShowWindow, Panics, Interrupt, End, devVars
<1>2. ShownGrows /\ EventsShownInOrder'
  BY EndShows, NoShow, ShowOrder
<1>3. CASE Exit
  <2>1. sent' = sent
    BY <1>3 DEF Exit
  <2>2. Kept
    BY <2>1, SentType DEF Kept
  <2>3. RequestInv'
    BY <1>1, <2>1, RequestQuiet DEF OrderInv
  <2>4. StatusInv'
    BY <1>1, <1>2, <2>1, <2>2, StatusKept DEF OrderInv
  <2> QED BY <1>1, <1>2, <2>2, <2>3, <2>4, ProgramOrder
<1>4. CASE Close
  <2>1. CloseReport \in WireMsgs /\ CloseReport.op = "status"
    BY DEF WireMsgs, CloseReport
  <2>2. sent' = Written(sc, CloseReport) /\ sc \in Channels
    BY <1>4, SelfSends DEF Close
  <2> QED BY <1>1, <1>2, <2>1, <2>2, OtherWriteOrder
<1> QED BY <1>1, <1>3, <1>4

(* A request of the command in its place *)
LEMMA RequestOrder ==
    ASSUME InteractionInv, ChannelInv, OrderInv, NEW m \in ControllerMsgs, Send(m),
           m.op \in Requests, Asks(cmd, m.op),
           pc = "request" \/ (pc = "timed" /\ m.op = "invoke_req"),
           UNCHANGED <<script, run, shown, handled, dev>>, pc' \notin {"exchange", "request"}
    PROVE  OrderInv'
<1>1. sent' = Written(sc, m) /\ sc \in Channels /\ m \in WireMsgs
  BY SelfSends, InteractionAssumption DEF Send, WireMsgs
<1>2. /\ Kept
      /\ \A i \in 1 .. Len(sent') :
           \/ i \in 1 .. Len(sent) /\ sent'[i] = sent[i]
           \/ i = Len(sent) + 1 /\ sent'[i].msg = m /\ sent'[i].key = sc.key
  BY <1>1, WrittenShape
<1>3. sc.key.run = run /\ run \in 1 .. run /\ cmd = script[run]
  <2>1. pc \in Waits \cup {"request"}
    BY DEF Waits
  <2>2. run \in Runs
    BY <2>1, CurrentKey
  <2> QED BY <2>1, <2>2, CurrentKey, InteractionAssumption DEF cmd, Runs
<1>4. NoRequestYet \/ (m.op = "invoke_req" /\ script[run] = "open")
  BY <1>3 DEF OrderInv, RequestInv, InteractionInv, ControlInv
<1>5. RequestInv'
  BY <1>1, <1>3, <1>4, RequestWrite DEF OrderInv
<1>6. ShownGrows /\ EventsShownInOrder'
  BY NoShow
<1>7. StatusInv'
  <2>1. m.op # "status_rsp"
    BY DEF Requests
  <2> QED BY <1>2, <1>6, <2>1, StatusKept DEF OrderInv
<1> QED BY <1>2, <1>5, <1>6, <1>7, ProgramOrder

(* A report is shown and confirmed; the first message of a subscription is *)
(* confirmed in any case                                                   *)
LEMMA ConfirmOrder ==
    ASSUME InteractionInv, ChannelInv, OrderInv, SubscribeFirst \/ ShowEvent
    PROVE  OrderInv'
<1>1. PICK b \in BOOLEAN :
        /\ Send(EncodeIMStatusResponse(ret.msg.ex, b))
        /\ \/ IsReport(ret.msg) /\ Show("message", ret.msg, ret.msg.body)
           \/ ~IsReport(ret.msg) /\ b = TRUE /\ UNCHANGED shown
  BY DEF SubscribeFirst, ShowEvent
<1>2. /\ pc \in Waits /\ ret.st = "ok" /\ pc' = "listen"
      /\ UNCHANGED <<script, run, handled, dev>>
  BY DEF SubscribeFirst, ShowEvent, Got, Goto, Waits, devVars
<1> DEFINE q == EncodeIMStatusResponse(ret.msg.ex, b)
<1>3. q.op = "status_rsp" /\ q.ex = ret.msg.ex /\ q.ini = b
  BY DEF EncodeIMStatusResponse, Message
<1>4. ret.msg.ex \in Exchanges /\ ret.msg \in DeviceMsgs
  BY <1>2, OwnAnswer
<1>5. q \in WireMsgs
  <2>1. run \in Runs
    BY <1>2, CurrentKey
  <2> QED BY <1>4, <2>1, RequestTypes, InteractionAssumption DEF WireMsgs
<1>6. sent' = Written(sc, q) /\ sc \in Channels
  BY <1>1, SelfSends DEF Send
<1> HIDE DEF q
<1>7. /\ Kept
      /\ \A i \in 1 .. Len(sent') :
           \/ i \in 1 .. Len(sent) /\ sent'[i] = sent[i]
           \/ i = Len(sent) + 1 /\ sent'[i].msg = q /\ sent'[i].key = sc.key
  BY <1>5, <1>6, WrittenShape
<1>8. ShownGrows /\ EventsShownInOrder'
  BY <1>1, <1>2, NoShow, ShowOrder
<1>9. RequestInv'
  <2>1. q.op \notin Requests /\ pc' \notin {"exchange", "request"}
    BY <1>2, <1>3 DEF Requests
  <2> QED BY <1>2, <1>5, <1>6, <2>1, RequestWrite DEF OrderInv
<1>10. StatusInv'
  <2>1. ASSUME NEW i \in 1 .. Len(sent'), sent'[i].msg = q, sent'[i].key = sc.key
        PROVE  Settled(sent[i])'
    <3>1. CASE IsReport(ret.msg) /\ Show("message", ret.msg, ret.msg.body)
      <4>1. /\ Len(shown') \in 1 .. Len(shown')
            /\ shown'[Len(shown')].run = run /\ shown'[Len(shown')].ex = ret.msg.ex
        BY <1>2, <3>1, ShowOrder, ShownType
      <4>2. sc.key.run = run
        BY <1>2, CurrentKey
      <4> QED BY <1>3, <2>1, <4>1, <4>2 DEF Settled, ShownIn
    <3>2. CASE ~IsReport(ret.msg) /\ b = TRUE
      <4>1. Heard(sc.key, ret.msg)
        BY <1>2 DEF InteractionInv, RetInv
      <4>2. dev' = dev /\ sent'[i].msg.ini = TRUE /\ sent'[i].msg.ex = ret.msg.ex
        BY <1>2, <1>3, <2>1, <3>2
      <4>3. \E m \in DeviceMsgs : ~IsReport(m) /\ m.ex = sent'[i].msg.ex
                 /\ (m = CloseReport \/ [key |-> sent'[i].key, msg |-> m] \in dev'.said)
        BY <1>4, <2>1, <3>2, <4>1, <4>2 DEF Heard
      <4> QED BY <4>2, <4>3 DEF Settled, Heard
    <3> QED BY <1>1, <3>1, <3>2
  <2>2. dev.said \subseteq dev'.said
    BY <1>2
  <2> QED BY <1>7, <1>8, <2>1, <2>2, StatusKept DEF OrderInv
<1> QED BY <1>2, <1>7, <1>8, <1>9, <1>10, ProgramOrder

LEMMA SendsOrder ==
    ASSUME InteractionInv, ChannelInv, OrderInv, Sends
    PROVE  OrderInv'
<1> USE DEF Goto, devVars, Requests, Asks
<1>1. CASE SubscribeFirst \/ ShowEvent
  BY <1>1, ConfirmOrder
<1>2. CASE ~(SubscribeFirst \/ ShowEvent)
  <2>1. pc \in Waits \cup {"request"}
    BY <1>2 DEF Sends, InvokeRequest, ReadRequest, TimedRequest, SubscribeRequest, SendRequest,
                InvokeOpenWindow, Got, Waits
  <2>2. run \in Runs
    BY <2>1, CurrentKey
  <2>3. /\ EncodeIMReadRequest.op = "read_req"
        /\ EncodeIMSubscribeRequest.op = "subsc_req"
        /\ EncodeIMTimedRequest.op = "timed_req"
        /\ \A c : EncodeIMInvokeRequest(c).op = "invoke_req"
    BY DEF EncodeIMReadRequest, EncodeIMSubscribeRequest, EncodeIMTimedRequest,
           EncodeIMInvokeRequest, Message
  <2>4. CASE InvokeRequest
    <3> DEFINE q == EncodeIMInvokeRequest("command")
    <3>1. q \in ControllerMsgs /\ q.op = "invoke_req"
      BY <2>2, <2>3, RequestTypes
    <3> HIDE DEF q
    <3>2. /\ Send(q) /\ pc = "request" /\ pc' = "answer" /\ cmd \in {"invoke", "logs"}
          /\ UNCHANGED <<script, run, shown, handled, dev>>
      BY <2>4 DEF InvokeRequest, SendRequest, q
    <3> QED BY <3>1, <3>2, RequestOrder
  <2>5. CASE ReadRequest
    <3>1. /\ Send(EncodeIMReadRequest) /\ pc = "request" /\ pc' = "answer"
          /\ cmd \in {"lookup", "dump", "read"}
          /\ UNCHANGED <<script, run, shown, handled, dev>>
      BY <2>5 DEF ReadRequest, SendRequest
    <3>2. EncodeIMReadRequest \in ControllerMsgs
      BY <2>2, RequestTypes
    <3> QED BY <2>3, <3>1, <3>2, RequestOrder
  <2>6. CASE TimedRequest
    <3>1. /\ Send(EncodeIMTimedRequest) /\ pc = "request" /\ pc' = "timed" /\ cmd = "open"
          /\ UNCHANGED <<script, run, shown, handled, dev>>
      BY <2>6 DEF TimedRequest, SendRequest
    <3>2. EncodeIMTimedRequest \in ControllerMsgs
      BY <2>2, RequestTypes
    <3> QED BY <2>3, <3>1, <3>2, RequestOrder
  <2>7. CASE SubscribeRequest
    <3>1. /\ Send(EncodeIMSubscribeRequest) /\ pc = "request" /\ pc' = "first" /\ cmd = "subscribe"
          /\ UNCHANGED <<script, run, shown, handled, dev>>
      BY <2>7 DEF SubscribeRequest, SendRequest
    <3>2. EncodeIMSubscribeRequest \in ControllerMsgs
      BY <2>2, RequestTypes
    <3> QED BY <2>3, <3>1, <3>2, RequestOrder
  <2>8. CASE InvokeOpenWindow
    <3> DEFINE q == EncodeIMInvokeRequest(OpenWindow(short))
    <3>1. q \in ControllerMsgs /\ q.op = "invoke_req"
      <4>1. OpenWindow(short) \in {"command", "open", "open_short"}
        BY DEF OpenWindow
      <4> QED BY <2>2, <2>3, <4>1, RequestTypes
    <3> HIDE DEF q
    <3>2. /\ Send(q) /\ pc = "timed" /\ pc' = "window"
          /\ UNCHANGED <<script, run, shown, handled, dev>>
      BY <2>8 DEF InvokeOpenWindow, Got, q
    <3>3. cmd = "open"
      BY <3>2 DEF InteractionInv, ControlInv
    <3> QED BY <3>1, <3>2, <3>3, RequestOrder
  <2> QED BY <1>2, <2>4, <2>5, <2>6, <2>7, <2>8 DEF Sends
<1> QED BY <1>1, <1>2

-----------------------------------------------------------------------------
(* The order of events: steps of the device *)

(* The device leaves what was sent and shown alone *)
LEMMA DeviceOrder ==
    ASSUME InteractionInv, ChannelInv, OrderInv,
           UNCHANGED <<sent, script, run, pc, shown>>, dev.said \subseteq dev'.said,
           SaidInv', SubInv', ConfirmedWasShown'
    PROVE  OrderInv'
<1>1. Kept
  BY SentType DEF Kept
<1>2. RequestInv'
  BY RequestQuiet DEF OrderInv
<1>3. ShownGrows /\ EventsShownInOrder'
  BY NoShow
<1>4. StatusInv'
  BY <1>1, <1>3, StatusKept DEF OrderInv
<1> QED BY <1>2, <1>3, <1>4 DEF OrderInv

(* What Reply changes *)
LEMMA ReplyFacts ==
    ASSUME InteractionInv, NEW i \in 1 .. Len(sent), NEW d \in DeviceStates,
           NEW o, NEW b, Reply(i, d, o, b)
    PROVE  /\ UNCHANGED <<sent, script, run, pc, shown, sc, ret, dups>>
           /\ handled' = handled \cup {i}
           /\ dev'.sub = d.sub /\ dev'.confirmed = d.confirmed
           /\ \E m :
                /\ m.ex = sent[i].msg.ex /\ (IsReport(m) <=> o = "report")
                /\ dev'.said = d.said \cup {[key |-> sent[i].key, msg |-> m]}
                /\ PeerSend(sent[i].key, m)
<1> DEFINE m == Message(o, FALSE, sent[i].msg.ex, b)
<1>1. /\ dev' = Said(d, sent[i].key, m)
      /\ handled' = handled \cup {i}
      /\ PeerSend(sent[i].key, m)
      /\ UNCHANGED <<script, run, pc, shown>>
  BY DEF Reply, Say, appVars
<1>2. m.ex = sent[i].msg.ex /\ (IsReport(m) <=> o = "report")
  BY DEF Message, IsReport
<1> HIDE DEF m
<1>3. UNCHANGED <<sent, sc, ret, dups>>
  BY <1>1 DEF PeerSend
<1>4. /\ dev'.said = d.said \cup {[key |-> sent[i].key, msg |-> m]}
      /\ dev'.sub = d.sub /\ dev'.confirmed = d.confirmed
  BY <1>1 DEF Said, DeviceStates
<1> QED BY <1>1, <1>2, <1>3, <1>4

(* A request of a session whose report request is handled is handled, and  *)
(* nothing is said in a session before a request of it is handled          *)
LEMMA OneRequest ==
    ASSUME InteractionInv, OrderInv, NEW i \in 1 .. Len(sent), i \notin handled, IsRequest(i)
    PROVE  /\ ~Asked(sent[i].key, {"subsc_req"})
           /\ sent[i].msg.op \in {"read_req", "subsc_req"} =>
                \A s \in dev.said : s.key # sent[i].key
<1>1. handled \subseteq 1 .. Len(sent)
  BY DEF InteractionInv, TypeInv, InteractionTypeOK
<1>2. ~Asked(sent[i].key, {"subsc_req"})
  BY <1>1 DEF OrderInv, RequestInv, Asked
<1>3. ASSUME sent[i].msg.op \in {"read_req", "subsc_req"}, NEW s \in dev.said
      PROVE  s.key # sent[i].key
  <2>1. PICK j \in handled : sent[j].msg.op \in Requests /\ sent[j].key = s.key
    BY DEF OrderInv, SaidInv, Asked
  <2> QED BY <1>1, <1>3, <2>1 DEF OrderInv, RequestInv, IsRequest
<1> QED BY <1>2, <1>3

(* An answer that leaves the subscription alone *)
LEMMA ReplyOrder ==
    ASSUME InteractionInv, ChannelInv, OrderInv, NEW i \in 1 .. Len(sent), i \notin handled,
           IsRequest(i), NEW d \in DeviceStates, NEW o, NEW b, Reply(i, d, o, b),
           d.said = dev.said, d.sub = dev.sub, d.confirmed = dev.confirmed,
           o = "report" => sent[i].msg.ex = ZeroExchange
    PROVE  OrderInv'
<1>0. PICK m :
        /\ m.ex = sent[i].msg.ex /\ (IsReport(m) <=> o = "report")
        /\ dev'.said = d.said \cup {[key |-> sent[i].key, msg |-> m]}
  BY ReplyFacts
<1> DEFINE e == [key |-> sent[i].key, msg |-> m]
<1>1. /\ UNCHANGED <<sent, script, run, pc, shown>> /\ handled' = handled \cup {i}
      /\ dev'.said = dev.said \cup {e} /\ dev'.sub = dev.sub /\ dev'.confirmed = dev.confirmed
  BY <1>0, ReplyFacts
<1>2. e.key = sent[i].key /\ (IsReport(e.msg) => e.msg.ex = ZeroExchange)
  BY <1>0
<1> HIDE DEF e
<1>3. SaidInv'
  <2>1. ASSUME NEW s \in dev'.said
        PROVE  /\ \E j \in handled' : sent[j].msg.op \in Requests /\ sent[j].key = s.key
               /\ IsReport(s.msg) /\ s.msg.ex # ZeroExchange =>
                    /\ s.msg.ex \in EventExchanges
                    /\ [key |-> s.key, ex |-> Previous(s.msg.ex)] \in dev.confirmed
    <3>1. CASE s = e
      BY <1>1, <1>2, <3>1 DEF IsRequest
    <3>2. CASE s \in dev.said
      BY <1>1, <3>2 DEF OrderInv, SaidInv, Asked
    <3> QED BY <1>1, <3>1, <3>2
  <2> QED BY <1>1, <2>1 DEF SaidInv, Asked
<1>4. SubInv'
  <2>1. dev.sub.st # "none" => dev.sub.key # e.key
    BY <1>2, OneRequest DEF OrderInv, SubInv
  <2> QED BY <1>1, <2>1 DEF OrderInv, SubInv, Asked, SubExchange
<1>5. ConfirmedWasShown'
  BY <1>1 DEF OrderInv, ConfirmedWasShown, ShownIn
<1> QED BY <1>1, <1>3, <1>4, <1>5, DeviceOrder

(* A subscription is taken up: nothing was said in its session before *)
LEMMA SubscribeOrder ==
    ASSUME InteractionInv, ChannelInv, OrderInv, NEW i \in 1 .. Len(sent), DevSubscribe(i)
    PROVE  OrderInv'
<1>1. /\ i \notin handled /\ sent[i].msg.op = "subsc_req" /\ sent[i].key \in SessionKeys
      /\ sent[i].msg.ex = ZeroExchange /\ IsRequest(i)
  BY PendingFacts, ControllerMsgShape DEF DevSubscribe, IsRequest, Requests
<1>2. CASE Reply(i, dev, "status_rsp", "fail")
  BY <1>1, <1>2, ReplyOrder, DeviceFacts
<1> DEFINE u == [key |-> sent[i].key, event |-> 0, st |-> "report"]
           d == [dev EXCEPT !.sub = u]
<1>3. CASE Reply(i, d, "report", "data")
  <2>1. /\ d \in DeviceStates /\ d.sub = u /\ d.said = dev.said /\ d.confirmed = dev.confirmed
    <3>1. u \in [key : KeyOrNone, event : 0 .. MaxEvents, st : {"none", "report", "active"}]
      BY <1>1, KeyFacts, InteractionAssumption DEF KeyOrNone
    <3> HIDE DEF u
    <3> QED BY <3>1, DeviceFacts DEF DeviceStates
  <2>2. u.key = sent[i].key /\ u.event = 0 /\ u.st = "report"
    OBVIOUS
  <2> HIDE DEF u, d
  <2>3. /\ UNCHANGED <<sent, script, run, pc, shown>> /\ handled' = handled \cup {i}
    BY <1>3, <2>1, ReplyFacts
  <2>r. PICK m :
          /\ m.ex = sent[i].msg.ex /\ IsReport(m)
          /\ dev'.said = d.said \cup {[key |-> sent[i].key, msg |-> m]}
    BY <1>3, <2>1, ReplyFacts
  <2> DEFINE e == [key |-> sent[i].key, msg |-> m]
  <2>4. dev'.said = dev.said \cup {e}
    BY <2>1, <2>r
  <2>5. dev'.sub = u /\ dev'.confirmed = dev.confirmed
    BY <1>3, <2>1, ReplyFacts
  <2>7. e.key = sent[i].key /\ e.msg.ex = ZeroExchange /\ IsReport(e.msg)
    BY <1>1, <2>r
  <2> HIDE DEF e
  <2>8. \A s \in dev.said : s.key # sent[i].key
    BY <1>1, OneRequest
  <2>9. SaidInv'
    <3>1. ASSUME NEW s \in dev'.said
          PROVE  /\ \E j \in handled' : sent[j].msg.op \in Requests /\ sent[j].key = s.key
                 /\ IsReport(s.msg) /\ s.msg.ex # ZeroExchange =>
                      /\ s.msg.ex \in EventExchanges
                      /\ [key |-> s.key, ex |-> Previous(s.msg.ex)] \in dev.confirmed
      <4>1. CASE s = e
        BY <1>1, <2>3, <2>7, <4>1 DEF IsRequest
      <4>2. CASE s \in dev.said
        BY <2>3, <4>2 DEF OrderInv, SaidInv, Asked
      <4> QED BY <2>4, <4>1, <4>2
    <3> QED BY <2>3, <2>5, <3>1 DEF SaidInv, Asked
  <2>10. SubInv'
    <3>1. \A s \in dev'.said : s.key = u.key => IsReport(s.msg) /\ s.msg.ex \notin EventExchanges
      BY <2>2, <2>4, <2>7, <2>8, ExchangeFacts
    <3>2. \E j \in handled' : sent[j].msg.op \in {"subsc_req"} /\ sent[j].key = u.key
      BY <1>1, <2>2, <2>3
    <3> QED BY <2>2, <2>3, <2>5, <3>1, <3>2 DEF SubInv, Asked
  <2>11. ConfirmedWasShown'
    BY <2>3, <2>5 DEF OrderInv, ConfirmedWasShown, ShownIn
  <2> QED BY <2>3, <2>4, <2>9, <2>10, <2>11, DeviceOrder
<1> QED BY <1>2, <1>3 DEF DevSubscribe

(* The device takes a report for confirmed *)
LEMMA ConfirmedOrder ==
    ASSUME InteractionInv, ChannelInv, OrderInv, NEW i \in 1 .. Len(sent), DevConfirmed(i)
    PROVE  OrderInv'
<1> DEFINE k == sent[i].key
           c == [key |-> k, ex |-> sent[i].msg.ex]
           d == Confirmed(sent[i])
<1>1. /\ sent[i].msg.op = "status_rsp" /\ dev.sub.st = "report" /\ k = dev.sub.key
      /\ sent[i].msg.ex = SubExchange
      /\ sent[i].msg.ini <=> dev.sub.event = 0
  BY DEF DevConfirmed, Pending, Confirms, SubExchange
<1>2. /\ d \in DeviceStates /\ d.said = dev.said
  BY ConfirmedType
<1>3. /\ d.sub.key = k /\ d.sub.event = dev.sub.event /\ d.sub.st = "active"
      /\ d.confirmed = dev.confirmed \cup {c}
  BY <1>1, DeviceFacts DEF Confirmed, DeviceStates
<1> HIDE DEF d
<1>4. /\ UNCHANGED <<sent, script, run, pc, shown>> /\ handled' = handled \cup {i}
      /\ dev'.sub = d.sub /\ dev'.confirmed = dev.confirmed \cup {c}
  <2>1. CASE dev.sub.event = 0
    <3>1. Reply(i, d, "subsc_rsp", "none")
      BY <2>1 DEF DevConfirmed, d
    <3>2. UNCHANGED <<sent, script, run, pc, shown>> /\ handled' = handled \cup {i}
      BY <1>2, <3>1, ReplyFacts
    <3>3. dev'.sub = d.sub /\ dev'.confirmed = d.confirmed
      BY <1>2, <3>1, ReplyFacts
    <3> QED BY <1>3, <3>2, <3>3
  <2>2. CASE dev.sub.event # 0
    <3>1. handled' = handled \cup {i} /\ dev' = d /\ UNCHANGED <<chanVars, appVars>>
      BY <2>2 DEF DevConfirmed, d
    <3> QED BY <1>3, <3>1 DEF chanVars, appVars
  <2> QED BY <2>1, <2>2
<1>5. PICK e :
        /\ e.key = k /\ e.msg.ex = sent[i].msg.ex /\ ~IsReport(e.msg)
        /\ dev'.said = dev.said \/ dev'.said = dev.said \cup {e}
  <2>1. CASE dev.sub.event = 0
    <3>1. Reply(i, d, "subsc_rsp", "none")
      BY <2>1 DEF DevConfirmed, d
    <3>2. PICK m :
            /\ m.ex = sent[i].msg.ex /\ (IsReport(m) <=> "subsc_rsp" = "report")
            /\ dev'.said = d.said \cup {[key |-> sent[i].key, msg |-> m]}
      BY <1>2, <3>1, ReplyFacts
    <3> QED BY <1>2, <3>2
  <2>2. CASE dev.sub.event # 0
    <3>1. dev' = d
      BY <2>2 DEF DevConfirmed, d
    <3>2. \E m : m.ex = sent[i].msg.ex /\ ~IsReport(m)
      <4>1. [ex |-> sent[i].msg.ex, op |-> "none"].op # "report"
        OBVIOUS
      <4> QED BY <4>1 DEF IsReport
    <3>3. PICK m : m.ex = sent[i].msg.ex /\ ~IsReport(m)
      BY <3>2
    <3>4. [key |-> k, msg |-> m].key = k /\ [key |-> k, msg |-> m].msg = m
      OBVIOUS
    <3> QED BY <1>2, <3>1, <3>3, <3>4
  <2> QED BY <2>1, <2>2
<1>6. e.key = k /\ e.msg.ex = sent[i].msg.ex /\ ~IsReport(e.msg) /\ c.key = k /\ c.ex = sent[i].msg.ex
  BY <1>5
(* What is confirmed was shown: what else the device may have said in      *)
(* exchange 0 of this session is a report                                  *)
<1>7. ShownIn(k.run, sent[i].msg.ex, Len(shown))
  <2>1. Settled(sent[i])
    BY <1>1 DEF OrderInv, StatusInv
  <2>2. ASSUME sent[i].msg.ini, NEW x \in DeviceMsgs, ~IsReport(x), x.ex = sent[i].msg.ex, Heard(k, x)
        PROVE  FALSE
    <3>1. dev.sub.event = 0 /\ x.ex = ZeroExchange
      BY <1>1, <2>2 DEF SubExchange
    <3>2. [key |-> k, msg |-> x] \in dev.said
      BY <2>2, <3>1, ExchangeFacts DEF Heard
    <3> QED BY <1>1, <2>2, <3>1, <3>2 DEF OrderInv, SubInv
  <2> QED BY <2>1, <2>2 DEF Settled
<1>8. Asked(k, {"subsc_req"})
  BY <1>1 DEF OrderInv, SubInv
<1>9. SaidInv'
  <2>1. ASSUME NEW s \in dev'.said
        PROVE  /\ \E j \in handled' : sent[j].msg.op \in Requests /\ sent[j].key = s.key
               /\ IsReport(s.msg) /\ s.msg.ex # ZeroExchange =>
                    /\ s.msg.ex \in EventExchanges
                    /\ [key |-> s.key, ex |-> Previous(s.msg.ex)] \in dev'.confirmed
    <3>1. CASE s = e
      BY <1>4, <1>6, <1>8, <3>1 DEF Asked, Requests
    <3>2. CASE s \in dev.said
      BY <1>4, <3>2 DEF OrderInv, SaidInv, Asked
    <3> QED BY <1>5, <3>1, <3>2
  <2> QED BY <1>4, <2>1 DEF SaidInv, Asked
<1>10. SubInv'
  <2>1. \E j \in handled' : sent[j].msg.op \in {"subsc_req"} /\ sent[j].key = k
    BY <1>4, <1>8 DEF Asked
  <2>2. ASSUME NEW s \in dev'.said, s.key = k, s.msg.ex \in EventExchanges
        PROVE  s.msg.ex[1] <= dev.sub.event
    <3>1. CASE s \in dev.said
      BY <1>1, <2>2, <3>1 DEF OrderInv, SubInv
    <3>2. CASE s = e
      <4>1. dev.sub.event \in Nat
        BY DeviceFacts, InteractionAssumption DEF DeviceStates
      <4>2. s.msg.ex = EventExchange(dev.sub.event)
        BY <1>1, <1>6, <2>2, <3>2, ExchangeFacts DEF SubExchange
      <4> QED BY <4>1, <4>2 DEF EventExchange
    <3> QED BY <1>5, <2>2, <3>1, <3>2
  <2>3. c = [key |-> dev'.sub.key, ex |-> SubExchange']
    BY <1>1, <1>3, <1>4 DEF SubExchange
  <2>4. [key |-> dev'.sub.key, ex |-> SubExchange'] \in dev'.confirmed
    BY <1>4, <2>3
  <2> QED BY <1>3, <1>4, <2>1, <2>2, <2>4 DEF SubInv, Asked
<1>11. ConfirmedWasShown'
  <2>1. ASSUME NEW x \in dev'.confirmed PROVE ShownIn(x.key.run, x.ex, Len(shown))
    BY <1>4, <1>6, <1>7, <2>1 DEF OrderInv, ConfirmedWasShown
  <2> QED BY <1>4, <2>1 DEF ConfirmedWasShown, ShownIn
<1>12. dev.said \subseteq dev'.said
  BY <1>5
<1> QED BY <1>4, <1>9, <1>10, <1>11, <1>12, DeviceOrder

(* An event is reported once the report before it is confirmed *)
LEMMA NewEvent ==
    ASSUME InteractionInv, DevEvent
    PROVE  LET n == dev.sub.event + 1 IN
           /\ dev.sub.st = "active" /\ n \in 1 .. MaxEvents
           /\ UNCHANGED <<sent, script, run, pc, shown, handled, sc, ret, dups>>
           /\ dev'.confirmed = dev.confirmed
           /\ dev'.sub.key = dev.sub.key /\ dev'.sub.event = n /\ dev'.sub.st = "report"
           /\ \E m :
                /\ m.ex = EventExchange(n) /\ IsReport(m)
                /\ dev'.said = dev.said \cup {[key |-> dev.sub.key, msg |-> m]}
                /\ PeerSend(dev.sub.key, m)
<1> DEFINE n == dev.sub.event + 1
<1>1. PICK b \in {"data", "junk"} :
        LET a == Message("report", TRUE, EventExchange(n), b) IN
        /\ dev' = Said([dev EXCEPT !.sub.event = @ + 1, !.sub.st = "report"], dev.sub.key, a)
        /\ Say(dev.sub.key, a)
  BY DEF DevEvent
<1> DEFINE m == Message("report", TRUE, EventExchange(n), b)
<1>2. dev.sub.st = "active" /\ n \in 1 .. MaxEvents
  <2>1. dev.sub.event \in 0 .. MaxEvents
    BY DeviceFacts DEF DeviceStates
  <2> QED BY <2>1, InteractionAssumption DEF DevEvent
<1>3. PeerSend(dev.sub.key, m) /\ UNCHANGED <<sent, script, run, pc, shown, handled, sc, ret, dups>>
  BY <1>1 DEF Say, appVars, PeerSend, DevEvent
<1>4. dev' = Said([dev EXCEPT !.sub.event = @ + 1, !.sub.st = "report"], dev.sub.key, m)
  BY <1>1
<1>5. m.ex = EventExchange(n) /\ IsReport(m)
  BY DEF Message, IsReport
<1> HIDE DEF m
<1>6. /\ dev'.said = dev.said \cup {[key |-> dev.sub.key, msg |-> m]}
      /\ dev'.confirmed = dev.confirmed
      /\ dev'.sub.key = dev.sub.key /\ dev'.sub.event = n /\ dev'.sub.st = "report"
  BY <1>4, DeviceFacts DEF Said, DeviceStates
<1> QED BY <1>2, <1>3, <1>5, <1>6

LEMMA EventOrder ==
    ASSUME InteractionInv, ChannelInv, OrderInv, DevEvent
    PROVE  OrderInv'
<1> DEFINE n == dev.sub.event + 1
           k == dev.sub.key
<1>1. PICK m :
        /\ m.ex = EventExchange(n) /\ IsReport(m)
        /\ dev'.said = dev.said \cup {[key |-> k, msg |-> m]}
  BY NewEvent
<1> DEFINE e == [key |-> k, msg |-> m]
<1>2. /\ dev.sub.st = "active" /\ n \in 1 .. MaxEvents
      /\ UNCHANGED <<sent, script, run, pc, shown, handled>>
      /\ dev'.said = dev.said \cup {e} /\ dev'.confirmed = dev.confirmed
      /\ dev'.sub.key = k /\ dev'.sub.event = n /\ dev'.sub.st = "report"
  BY <1>1, NewEvent
<1>4. e.key = k /\ e.msg.ex = EventExchange(n) /\ IsReport(e.msg)
  BY <1>1
<1> HIDE DEF e
<1>5. /\ EventExchange(n) \in EventExchanges /\ EventExchange(n)[1] = n
      /\ Previous(EventExchange(n)) = SubExchange
  <2>1. dev.sub.event \in Nat /\ n \in Nat
    BY DeviceFacts, InteractionAssumption DEF DeviceStates
  <2> QED BY <1>2, <2>1 DEF EventExchange, EventExchanges, Previous, SubExchange
<1>6. Asked(k, {"subsc_req"}) /\ [key |-> k, ex |-> SubExchange] \in dev.confirmed
  BY <1>2 DEF OrderInv, SubInv
<1>7. SaidInv'
  <2>1. ASSUME NEW s \in dev'.said
        PROVE  /\ \E j \in handled' : sent[j].msg.op \in Requests /\ sent[j].key = s.key
               /\ IsReport(s.msg) /\ s.msg.ex # ZeroExchange =>
                    /\ s.msg.ex \in EventExchanges
                    /\ [key |-> s.key, ex |-> Previous(s.msg.ex)] \in dev.confirmed
    <3>1. CASE s = e
      BY <1>2, <1>4, <1>5, <1>6, <3>1 DEF Asked, Requests
    <3>2. CASE s \in dev.said
      BY <1>2, <3>2 DEF OrderInv, SaidInv, Asked
    <3> QED BY <1>2, <3>1, <3>2
  <2> QED BY <1>2, <2>1 DEF SaidInv, Asked
<1>8. SubInv'
  <2>1. \E j \in handled' : sent[j].msg.op \in {"subsc_req"} /\ sent[j].key = k
    BY <1>2, <1>6 DEF Asked
  <2>2. ASSUME NEW s \in dev'.said, s.key = k, s.msg.ex \in EventExchanges
        PROVE  s.msg.ex[1] <= n
    <3>1. dev.sub.event \in Nat /\ n \in Nat
      BY DeviceFacts, InteractionAssumption DEF DeviceStates
    <3>2. CASE s = e
      BY <1>4, <1>5, <3>1, <3>2
    <3>3. CASE s \in dev.said
      <4>1. s.msg.ex[1] <= dev.sub.event
        BY <1>2, <2>2, <3>3 DEF OrderInv, SubInv
      <4>2. s.msg.ex[1] \in Nat
        BY <2>2 DEF EventExchanges
      <4> QED BY <3>1, <4>1, <4>2
    <3> QED BY <1>2, <2>2, <3>2, <3>3
  <2>3. n # 0
    BY <1>2
  <2> QED BY <1>2, <2>1, <2>2, <2>3 DEF SubInv, Asked
<1>9. ConfirmedWasShown'
  BY <1>2 DEF OrderInv, ConfirmedWasShown, ShownIn
<1>10. dev.said \subseteq dev'.said
  BY <1>2
<1> QED BY <1>2, <1>7, <1>8, <1>9, <1>10, DeviceOrder

LEMMA ClosesOrder ==
    ASSUME InteractionInv, ChannelInv, OrderInv, DevCloses
    PROVE  OrderInv'
<1>1. /\ UNCHANGED <<sent, script, run, pc, shown, handled>>
      /\ dev'.said = dev.said /\ dev'.confirmed = dev.confirmed
      /\ dev'.sub = dev.sub \/ dev'.sub = NoSubscription
  BY DeviceFacts DEF DevCloses, Say, PeerSend, appVars, DeviceStates
<1>2. SaidInv' /\ ConfirmedWasShown'
  BY <1>1 DEF OrderInv, SaidInv, Asked, ConfirmedWasShown, ShownIn
<1>3. SubInv'
  <2>1. CASE dev'.sub = dev.sub
    BY <1>1, <2>1 DEF OrderInv, SubInv, Asked, SubExchange
  <2>2. CASE dev'.sub = NoSubscription
    BY <2>2 DEF SubInv, NoSubscription
  <2> QED BY <1>1, <2>1, <2>2
<1> QED BY <1>1, <1>2, <1>3, DeviceOrder

(* The answers that leave the subscription alone, in the form of           *)
(* ReplyOrder                                                              *)
LEMMA PlainReply ==
    ASSUME InteractionInv, NEW i \in 1 .. Len(sent),
           DevRead(i) \/ DevInvoke(i) \/ DevTimed(i) \/ DevOpenWindow(i)
    PROVE  /\ i \notin handled /\ IsRequest(i)
           /\ \E d \in DeviceStates : \E o, b :
                /\ Reply(i, d, o, b)
                /\ d.said = dev.said /\ d.sub = dev.sub /\ d.confirmed = dev.confirmed
                /\ o = "report" => sent[i].msg.op = "read_req" /\ sent[i].msg.ex = ZeroExchange
<1>1. dev \in DeviceStates
  BY DeviceFacts
<1>2. CASE DevRead(i)
  <2>1. i \notin handled /\ sent[i].msg.op = "read_req" /\ sent[i].msg.ex = ZeroExchange
    BY <1>2, PendingFacts, ControllerMsgShape DEF DevRead
  <2>2. \E o, b : Reply(i, dev, o, b)
    BY <1>2 DEF DevRead
  <2> QED BY <1>1, <2>1, <2>2 DEF IsRequest, Requests
<1>3. CASE DevInvoke(i)
  <2>1. i \notin handled /\ sent[i].msg.op = "invoke_req"
    BY <1>3, PendingFacts DEF DevInvoke
  <2>2. \E o, b : Reply(i, dev, o, b) /\ o # "report"
    BY <1>3 DEF DevInvoke
  <2> QED BY <1>1, <2>1, <2>2 DEF IsRequest, Requests
<1>4. CASE DevTimed(i)
  <2>1. /\ i \notin handled /\ sent[i].msg.op = "timed_req"
        /\ sent[i].msg.ex \in CommandExchanges
    BY <1>4, PendingFacts, ControllerMsgShape DEF DevTimed
  <2> DEFINE d == [dev EXCEPT !.granted = @ \cup {sent[i].msg.ex}]
  <2>2. /\ d \in DeviceStates
        /\ d.said = dev.said /\ d.sub = dev.sub /\ d.confirmed = dev.confirmed
    BY <1>1, <2>1 DEF DeviceStates
  <2>3. (\E b : Reply(i, d, "status_rsp", b)) \/ (\E b : Reply(i, dev, "status_rsp", b))
    BY <1>4 DEF DevTimed
  <2> HIDE DEF d
  <2> QED BY <1>1, <2>1, <2>2, <2>3 DEF IsRequest, Requests
<1>5. CASE DevOpenWindow(i)
  <2>1. /\ i \notin handled /\ sent[i].msg.op = "invoke_req"
        /\ sent[i].msg.ex \in CommandExchanges
    BY <1>5, PendingFacts, ControllerMsgShape DEF DevOpenWindow
  <2> DEFINE d == [dev EXCEPT !.opened = @ \cup {sent[i].msg.ex}]
  <2>2. /\ d \in DeviceStates
        /\ d.said = dev.said /\ d.sub = dev.sub /\ d.confirmed = dev.confirmed
    BY <1>1, <2>1 DEF DeviceStates
  <2>3. (\E b : Reply(i, d, "invoke_rsp", b)) \/ (\E b : Reply(i, dev, "invoke_rsp", b))
    BY <1>5 DEF DevOpenWindow
  <2> HIDE DEF d
  <2> QED BY <1>1, <2>1, <2>2, <2>3 DEF IsRequest, Requests
<1> QED BY <1>2, <1>3, <1>4, <1>5

LEMMA OrderStep ==
    ASSUME InteractionInv, ChannelInv, OrderInv, [Next]_vars
    PROVE  OrderInv'
<1>1. CASE Device
  <2>1. ASSUME NEW i \in 1 .. Len(sent),
               DevRead(i) \/ DevInvoke(i) \/ DevTimed(i) \/ DevOpenWindow(i)
        PROVE  OrderInv'
    BY <2>1, PlainReply, ReplyOrder
  <2> QED BY <1>1, <2>1, SubscribeOrder, ConfirmedOrder, EventOrder, ClosesOrder DEF Device
<1>2. CASE UNCHANGED vars
  <2>1. UNCHANGED <<sent, script, run, pc, shown, handled, dev>>
    BY <1>2 DEF vars, chanVars, appVars, devVars
  <2>2. SaidInv' /\ SubInv' /\ ConfirmedWasShown'
    BY <2>1 DEF OrderInv, SaidInv, Asked, SubInv, SubExchange, ConfirmedWasShown, ShownIn
  <2>3. dev.said \subseteq dev'.said
    BY <2>1
  <2> QED BY <2>1, <2>2, <2>3, DeviceOrder
<1>3. CASE Program \/ Interrupt
  BY <1>3, ConnectedOrder, SendsOrder, ReceiveOrder, EndsOrder DEF Program, Sends, Ends
<1> QED BY <1>1, <1>2, <1>3, StartOrder DEF Next

-----------------------------------------------------------------------------
(* The count of copies *)

Weight == IF HeldAgain THEN 1 ELSE 0

LEMMA DupsType ==
    ASSUME ChannelInv
    PROVE  dups \in Nat
BY ChannelAssumption DEF ChannelInv, ChannelTypeOK

(* The sets that are counted are finite *)
LEMMA FiniteCopies ==
    ASSUME InteractionInv, CountInv
    PROVE  /\ IsFiniteSet(Stale) /\ Cardinality(Stale) \in Nat
           /\ IsFiniteSet(Repeated) /\ Cardinality(Repeated) \in Nat
           /\ Repeated \subseteq 1 .. Len(shown)
           /\ Cardinality(Repeated) + Cardinality(Stale) + Weight <= dups
<1>1. Stale \subseteq net /\ IsFiniteSet(net)
  BY DEF Stale, CountInv
<1>2. Repeated \subseteq 1 .. Len(shown) /\ Len(shown) \in Nat
  BY ShownType DEF Repeated
<1>3. IsFiniteSet(1 .. Len(shown))
  BY <1>2, FS_Interval
<1>4. IsFiniteSet(Stale) /\ IsFiniteSet(Repeated)
  BY <1>1, <1>2, <1>3, FS_Subset
<1> QED BY <1>2, <1>4, FS_CardinalityType DEF CountInv, Weight

(* Nothing more is shown, held or stale: the count stays *)
LEMMA CountKept ==
    ASSUME InteractionInv, ChannelInv, CountInv, dups' \in Nat, dups <= dups',
           shown' = shown, IsFiniteSet(net'), Stale' \subseteq Stale, HeldAgain' => HeldAgain
    PROVE  CountInv'
<1>1. Repeated' = Repeated
  BY DEF Repeated, ReportShown
<1>2. Cardinality(Stale') \in Nat /\ Cardinality(Stale') <= Cardinality(Stale)
  BY FiniteCopies, FS_Subset, FS_CardinalityType
<1>3. Weight' \in {0, 1} /\ Weight \in {0, 1} /\ Weight' <= Weight
  BY DEF Weight
<1>4. Cardinality(Repeated) + Cardinality(Stale') + Weight' <= dups'
  BY <1>2, <1>3, FiniteCopies, DupsType
<1>5. Cardinality(Repeated') + Cardinality(Stale') + Weight' <= dups'
  BY <1>1, <1>4
<1> QED BY <1>5 DEF CountInv, Weight

(* What was seen stays seen when nothing is shown *)
LEMMA SeenSame ==
    ASSUME shown' = shown, NEW r, NEW e
    PROVE  ReportShown(r, e, Len(shown))' <=> ReportShown(r, e, Len(shown))
BY DEF ReportShown

LEMMA MessagesKept ==
    ASSUME MessagesInv, dev.said \subseteq dev'.said, UNCHANGED <<shown, run>>,
           pc' \notin {"idle", "listen"} => pc \notin {"idle", "listen"}
    PROVE  MessagesInv'
<1>1. \A r, e : Answered(r, e) => Answered(r, e)'
  BY DEF Answered
<1> QED BY <1>1 DEF MessagesInv

(* The network keeps what it has, or loses a datagram *)
LEMMA OnceKept ==
    ASSUME OnceInv, net' \subseteq net
    PROVE  OnceInv'
BY DEF OnceInv

(* A step that shows nothing and takes what Receive returned *)
LEMMA QuietCopies ==
    ASSUME InteractionInv, ChannelInv, CopyInv, UNCHANGED <<shown, net, dups>>,
           (ret' = ret /\ sc' = sc) \/ ret' = NoRet, MessagesInv'
    PROVE  CopyInv'
<1>1. Stale' \subseteq Stale
  <2>1. ASSUME NEW d \in Stale' PROVE d \in Stale
    <3>1. d \in net /\ IsReport(d.msg)
      BY DEF Stale
    <3>2. CASE ReportShown(d.key.run, d.msg.ex, Len(shown))'
      BY <3>1, <3>2, SeenSame DEF Stale, Seen
    <3>3. CASE ret'.st = "ok" /\ IsReport(ret'.msg) /\ sc'.key = d.key /\ ret'.msg.ex = d.msg.ex
      BY <3>1, <3>3 DEF Stale, Held, NoRet
    <3> QED BY <3>2, <3>3 DEF Stale, Seen, Held
  <2> QED BY <2>1
<1>2. HeldAgain' => HeldAgain
  <2> SUFFICES ASSUME HeldAgain' PROVE HeldAgain
    OBVIOUS
  <2>1. ret'.st = "ok" /\ IsReport(ret'.msg)
    BY DEF HeldAgain
  <2>2. ret' = ret /\ sc' = sc
    BY <2>1 DEF NoRet
  <2> QED BY <2>2 DEF HeldAgain, Seen, ReportShown
<1>3. dups' \in Nat /\ dups <= dups' /\ IsFiniteSet(net')
  BY DupsType DEF CopyInv, CountInv
<1>4. CountInv'
  BY <1>1, <1>2, <1>3, CountKept DEF CopyInv
<1>5. OnceInv'
  BY OnceKept DEF CopyInv
<1> QED BY <1>4, <1>5 DEF CopyInv

(* What is shown counts again when a report of its exchange was seen *)
LEMMA ShowRepeats ==
    ASSUME InteractionInv, OrderInv, pc \in Waits, ret.st = "ok", NEW kind, NEW value,
           Show(kind, ret.msg, value)
    PROVE  /\ \A r, e : ReportShown(r, e, Len(shown))' =>
                \/ ReportShown(r, e, Len(shown))
                \/ kind = "message" /\ r = run /\ e = ret.msg.ex
           /\ Repeated' \subseteq Repeated \cup {Len(shown) + 1}
           /\ Len(shown) + 1 \in Repeated' =>
                kind = "message" /\ ReportShown(run, ret.msg.ex, Len(shown))
<1> DEFINE n == Len(shown)
           e0 == ret.msg.ex
<1>1. /\ n \in Nat /\ Len(shown') = n + 1
      /\ \A i \in 1 .. n : shown'[i] = shown[i]
      /\ shown'[n + 1].run = run /\ shown'[n + 1].ex = e0 /\ shown'[n + 1].kind = kind
  BY ShowOrder, ShownType DEF ShownGrows
<1> HIDE DEF n, e0
<1>2. \A j \in 1 .. n + 1 : j \in 1 .. n \/ j = n + 1
  BY <1>1
<1>3. ASSUME NEW r, NEW e,
             \E j \in 1 .. n + 1 : shown'[j].kind = "message" /\ shown'[j].run = r /\ shown'[j].ex = e
      PROVE  \/ \E j \in 1 .. n : shown[j].kind = "message" /\ shown[j].run = r /\ shown[j].ex = e
             \/ kind = "message" /\ r = run /\ e = e0
  <2>1. PICK j \in 1 .. n + 1 : shown'[j].kind = "message" /\ shown'[j].run = r /\ shown'[j].ex = e
    BY <1>3
  <2> QED BY <1>1, <1>2, <2>1
<1>4. ASSUME NEW i \in 1 .. n, shown'[i].kind = "message",
             \E j \in 1 .. i - 1 : /\ shown'[j].kind = "message"
                                   /\ shown'[j].run = shown'[i].run /\ shown'[j].ex = shown'[i].ex
      PROVE  i \in Repeated
  <2>1. \A j \in 1 .. i - 1 : j \in 1 .. n
    BY <1>1
  <2> QED BY <1>1, <1>4, <2>1 DEF Repeated, ReportShown, n
<1>5. ASSUME n + 1 \in Repeated'
      PROVE  /\ kind = "message"
             /\ \E j \in 1 .. n : shown[j].kind = "message" /\ shown[j].run = run /\ shown[j].ex = e0
  <2>1. /\ shown'[n + 1].kind = "message"
        /\ \E j \in 1 .. (n + 1) - 1 :
              /\ shown'[j].kind = "message"
              /\ shown'[j].run = shown'[n + 1].run /\ shown'[j].ex = shown'[n + 1].ex
    BY <1>5 DEF Repeated, ReportShown
  <2>2. (n + 1) - 1 = n
    BY <1>1
  <2> QED BY <1>1, <2>1, <2>2
<1>6. Repeated' \subseteq Repeated \cup {n + 1}
  BY <1>1, <1>2, <1>4 DEF Repeated, ReportShown
<1>7. \A r, e : ReportShown(r, e, Len(shown))' =>
         ReportShown(r, e, n) \/ (kind = "message" /\ r = run /\ e = e0)
  BY <1>1, <1>3 DEF ReportShown
<1>8. n + 1 \in Repeated' => kind = "message" /\ ReportShown(run, e0, n)
  BY <1>5 DEF ReportShown
<1> QED BY <1>6, <1>7, <1>8 DEF n, e0

(* A report on its way was said by the device *)
LEMMA SaidNet ==
    ASSUME InteractionInv, NEW d \in net, IsReport(d.msg)
    PROVE  /\ [key |-> d.key, msg |-> d.msg] \in dev.said
           /\ d.msg \in DeviceMsgs /\ d.key = SessionKey(d.key.run, TRUE)
<1> DEFINE s == [key |-> d.key, msg |-> d.msg]
<1>1. s \in dev.said
  BY ExchangeFacts DEF InteractionInv, NetInv, Heard
<1>2. s.msg \in DeviceMsgs /\ s.key = SessionKey(s.key.run, TRUE)
  BY <1>1, SaidFacts
<1>3. s.key = d.key /\ s.msg = d.msg
  OBVIOUS
<1> QED BY <1>1, <1>2, <1>3

(* Two reports of one session and exchange travel under one key *)
LEMMA SameSession ==
    ASSUME InteractionInv, pc \in Waits, ret.st = "ok", IsReport(ret.msg),
           NEW d \in net, IsReport(d.msg), d.key.run = run
    PROVE  d.key = sc.key
<1> DEFINE t == [key |-> sc.key, msg |-> ret.msg]
<1>1. t \in dev.said
  BY ExchangeFacts DEF InteractionInv, RetInv, Heard
<1>2. t.key = SessionKey(t.key.run, TRUE) /\ t.key = sc.key
  BY <1>1, SaidFacts
<1>3. sc.key.run = run
  BY CurrentKey
<1> HIDE DEF t
<1> QED BY <1>2, <1>3, SaidNet

(* A report that is shown was held, so the copies on their way were stale  *)
(* already; and what is shown again was held again.                        *)
LEMMA ShowCopies ==
    ASSUME InteractionInv, ChannelInv, OrderInv, CopyInv, pc \in Waits, ret.st = "ok",
           NEW kind, NEW value, Show(kind, ret.msg, value),
           kind = "message" =>
              IsReport(ret.msg) \/ (ret.msg.op = "invoke_rsp" /\ pc # "listen"),
           UNCHANGED <<net, dups, dev, run>>, ret' = NoRet, pc' \in {"idle", "listen"}
    PROVE  CopyInv'
<1> DEFINE e == ret.msg.ex
<1>1. OnceInv'
  BY OnceKept DEF CopyInv
<1>2. /\ ret.msg \in DeviceMsgs
      /\ kind = "message" => ret.msg # CloseReport /\ [key |-> SessionKey(run, TRUE), msg |-> ret.msg] \in dev.said
  BY OwnAnswer, ExchangeFacts
<1>3. MessagesInv'
  <2>1. kind = "message" => Answered(run, e)
    BY <1>2 DEF Answered, IsReport
  <2>2. ASSUME NEW i \in 1 .. Len(shown'), shown'[i].kind = "message"
        PROVE  Answered(shown'[i].run, shown'[i].ex)
    <3>1. CASE i \in 1 .. Len(shown)
      BY <2>2, <3>1, ShowOrder DEF ShownGrows, CopyInv, MessagesInv
    <3>2. CASE i = Len(shown')
      BY <2>1, <2>2, <3>2, ShowOrder
    <3>3. i \in 1 .. Len(shown) \/ i = Len(shown')
      BY ShowOrder, ShownType
    <3> QED BY <3>1, <3>2, <3>3
  <2> QED BY <2>2 DEF MessagesInv, Answered
<1>4. /\ \A r, x : ReportShown(r, x, Len(shown))' =>
            ReportShown(r, x, Len(shown)) \/ (kind = "message" /\ r = run /\ x = e)
      /\ Repeated' \subseteq Repeated \cup {Len(shown) + 1}
      /\ Len(shown) + 1 \in Repeated' => kind = "message" /\ ReportShown(run, e, Len(shown))
  BY ShowRepeats
<1>5. Stale' \subseteq Stale
  <2>1. ASSUME NEW d \in Stale' PROVE d \in Stale
    <3>1. d \in net /\ IsReport(d.msg)
      BY <2>1 DEF Stale
    <3>2. ReportShown(d.key.run, d.msg.ex, Len(shown))'
      BY <2>1 DEF Stale, Seen, Held, NoRet
    <3>3. CASE ReportShown(d.key.run, d.msg.ex, Len(shown))
      BY <3>1, <3>3 DEF Stale, Seen
    <3>4. CASE kind = "message" /\ d.key.run = run /\ d.msg.ex = e
      <4>1. d.msg \in DeviceMsgs
        BY <3>1, SaidNet
      <4>2. IsReport(ret.msg)
        BY <1>2, <3>1, <3>4, <4>1, DeviceMsgExchange
      <4>3. d.key = sc.key
        BY <3>1, <3>4, <4>2, SameSession
      <4> QED BY <3>1, <3>4, <4>2, <4>3 DEF Stale, Held
    <3> QED BY <1>4, <3>2, <3>3, <3>4
  <2> QED BY <2>1
<1>6. Len(shown) + 1 \in Repeated' => HeldAgain
  <2> SUFFICES ASSUME Len(shown) + 1 \in Repeated' PROVE HeldAgain
    OBVIOUS
  <2>1. kind = "message" /\ ReportShown(run, e, Len(shown))
    BY <1>4
  <2>2. \E j \in 1 .. Len(shown) : shown[j].run = run
    BY <2>1 DEF ReportShown
  <2>3. IsReport(ret.msg)
    BY <2>1, <2>2 DEF CopyInv, MessagesInv, Waits
  <2>4. sc.key.run = run
    BY CurrentKey
  <2> QED BY <2>1, <2>3, <2>4 DEF HeldAgain, Seen
<1>7. CountInv'
  <2>1. IsFiniteSet(Repeated) /\ Cardinality(Repeated) \in Nat
    BY FiniteCopies DEF CopyInv
  <2>2. Cardinality(Repeated') \in Nat /\ Cardinality(Repeated') <= Cardinality(Repeated) + Weight
    <3>1. CASE Len(shown) + 1 \in Repeated'
      <4>1. Weight = 1
        BY <1>6, <3>1 DEF Weight
      <4>2. /\ IsFiniteSet(Repeated \cup {Len(shown) + 1})
            /\ Cardinality(Repeated \cup {Len(shown) + 1}) <= Cardinality(Repeated) + 1
        BY <2>1, FS_AddElement
      <4>3. IsFiniteSet(Repeated') /\ Cardinality(Repeated') <= Cardinality(Repeated \cup {Len(shown) + 1})
        BY <1>4, <4>2, FS_Subset
      <4>4. Cardinality(Repeated') \in Nat /\ Cardinality(Repeated \cup {Len(shown) + 1}) \in Nat
        BY <4>2, <4>3, FS_CardinalityType
      <4> QED BY <2>1, <4>1, <4>2, <4>3, <4>4
    <3>2. CASE Len(shown) + 1 \notin Repeated'
      <4>1. Repeated' \subseteq Repeated
        BY <1>4, <3>2
      <4>2. IsFiniteSet(Repeated') /\ Cardinality(Repeated') <= Cardinality(Repeated)
        BY <2>1, <4>1, FS_Subset
      <4>3. Cardinality(Repeated') \in Nat /\ Weight \in {0, 1}
        BY <4>2, FS_CardinalityType DEF Weight
      <4> QED BY <2>1, <4>2, <4>3
    <3> QED BY <3>1, <3>2
  <2>3. Cardinality(Stale') \in Nat /\ Cardinality(Stale') <= Cardinality(Stale)
    BY <1>5, FiniteCopies, FS_Subset, FS_CardinalityType DEF CopyInv
  <2>4. Weight' = 0 /\ Weight \in {0, 1}
    BY DEF Weight, HeldAgain, NoRet
  <2>5. Cardinality(Repeated) + Cardinality(Stale) + Weight <= dups /\ Cardinality(Stale) \in Nat
    BY FiniteCopies DEF CopyInv
  <2>6. Cardinality(Repeated') + Cardinality(Stale') + Weight' <= dups'
    BY <2>1, <2>2, <2>3, <2>4, <2>5, DupsType
  <2>7. IsFiniteSet(net')
    BY DEF CopyInv, CountInv
  <2> QED BY <2>6, <2>7 DEF CountInv, Weight
<1> QED BY <1>1, <1>3, <1>7 DEF CopyInv

(* A datagram leaves the network, or a repetition is counted *)
LEMMA Delivered ==
    ASSUME ChannelInv, CountInv, NEW d, Deliver(d)
    PROVE  /\ net' \subseteq net /\ IsFiniteSet(net')
           /\ dups' \in Nat
           /\ \/ d \notin net' /\ dups' = dups
              \/ dups' = dups + 1
<1>1. net' \subseteq net
  BY DEF Deliver
<1>2. IsFiniteSet(net')
  BY <1>1, FS_Subset DEF CountInv
<1> QED BY <1>1, <1>2, DupsType DEF Deliver

(* Receive returns no report: it did not hold one either *)
LEMMA NoReportReceived ==
    ASSUME InteractionInv, ChannelInv, CountInv, InReceive, shown' = shown,
           net' \subseteq net, IsFiniteSet(net'), dups' \in Nat, dups <= dups',
           ret'.st # "ok" \/ ~IsReport(ret'.msg)
    PROVE  CountInv'
<1>1. Stale' \subseteq Stale
  <2>1. ASSUME NEW d \in Stale' PROVE d \in Stale
    <3>1. d \in net /\ IsReport(d.msg) /\ ReportShown(d.key.run, d.msg.ex, Len(shown))'
      BY DEF Stale, Seen, Held
    <3> QED BY <3>1, SeenSame DEF Stale, Seen
  <2> QED BY <2>1
<1>2. ~HeldAgain'
  BY DEF HeldAgain
<1> QED BY <1>1, <1>2, CountKept

(* Receive returns report d: the copies of it that are still on their way  *)
(* are copies of d itself, and d was stale if the report was seen.         *)
LEMMA ReportReceived ==
    ASSUME InteractionInv, ChannelInv, OnceInv, CountInv, InReceive,
           NEW d \in net, IsReport(d.msg), d.key = sc.key, Deliver(d),
           ret' = OkRet(d.msg), sc'.key = sc.key, shown' = shown
    PROVE  CountInv'
<1>1. ~(ret.st = "ok" /\ IsReport(ret.msg))
  BY DEF InReceive, PassedOver, Waits
<1>2. ~HeldAgain /\ Weight = 0
  BY <1>1 DEF HeldAgain, Weight
<1>3. /\ net' \subseteq net /\ IsFiniteSet(net') /\ dups' \in Nat
      /\ (d \notin net' /\ dups' = dups) \/ dups' = dups + 1
  BY Delivered
<1>4. ret'.st = "ok" /\ ret'.msg = d.msg
  BY DEF OkRet
<1>5. ASSUME NEW x \in Stale' PROVE x \in Stale \/ x = d
  <2>1. x \in net /\ x \in net' /\ IsReport(x.msg)
    BY <1>3, <1>5 DEF Stale
  <2>2. CASE ReportShown(x.key.run, x.msg.ex, Len(shown))'
    BY <2>1, <2>2, SeenSame DEF Stale, Seen
  <2>3. CASE sc'.key = x.key /\ ret'.msg.ex = x.msg.ex
    BY <1>4, <2>1, <2>3 DEF OnceInv
  <2> QED BY <1>5, <2>2, <2>3 DEF Stale, Seen, Held
<1>6. d \in Stale \/ ~HeldAgain'
  <2> SUFFICES ASSUME HeldAgain' PROVE d \in Stale
    OBVIOUS
  <2>1. ReportShown(sc'.key.run, ret'.msg.ex, Len(shown))
    BY DEF HeldAgain, Seen, ReportShown
  <2> QED BY <1>4, <2>1 DEF Stale, Seen
<1>7. /\ IsFiniteSet(Stale) /\ Cardinality(Stale) \in Nat
      /\ Cardinality(Repeated) \in Nat
      /\ Cardinality(Repeated) + Cardinality(Stale) + Weight <= dups
  BY FiniteCopies
<1>8. Weight' \in {0, 1} /\ (~HeldAgain' => Weight' = 0)
  BY DEF Weight
(* The stale copies and the one returned exceed the stale copies before by *)
(* at most the repetition that was counted                                 *)
<1>9. Cardinality(Stale') \in Nat /\ Cardinality(Stale') + Weight' <= Cardinality(Stale) + (dups' - dups)
  <2>1. CASE d \in Stale
    <3>1. /\ IsFiniteSet(Stale \ {d}) /\ Cardinality(Stale \ {d}) = Cardinality(Stale) - 1
      BY <1>7, <2>1, FS_RemoveElement
    <3>2. CASE d \notin net' /\ dups' = dups
      <4>1. Stale' \subseteq Stale \ {d}
        BY <1>5, <3>2 DEF Stale
      <4>2. Cardinality(Stale') \in Nat /\ Cardinality(Stale') <= Cardinality(Stale \ {d})
        BY <3>1, <4>1, FS_Subset, FS_CardinalityType
      <4>3. Cardinality(Stale') \in Nat /\ Cardinality(Stale') <= Cardinality(Stale) - 1
        BY <3>1, <4>2
      <4> QED BY <1>7, <1>8, <3>2, <4>3, DupsType
    <3>3. CASE dups' = dups + 1
      <4>1. Stale' \subseteq Stale
        BY <1>5, <2>1
      <4>2. Cardinality(Stale') \in Nat /\ Cardinality(Stale') <= Cardinality(Stale)
        BY <1>7, <4>1, FS_Subset, FS_CardinalityType
      <4> QED BY <1>7, <1>8, <3>3, <4>2, DupsType
    <3> QED BY <1>3, <3>2, <3>3
  <2>2. CASE d \notin Stale
    <3>0. Weight' = 0
      BY <1>6, <1>8, <2>2
    <3>1. /\ IsFiniteSet(Stale \cup {d}) /\ Cardinality(Stale \cup {d}) = Cardinality(Stale) + 1
      BY <1>7, <2>2, FS_AddElement
    <3>2. CASE d \notin net' /\ dups' = dups
      <4>1. Stale' \subseteq Stale
        BY <1>5, <3>2 DEF Stale
      <4>2. Cardinality(Stale') \in Nat /\ Cardinality(Stale') <= Cardinality(Stale)
        BY <1>7, <4>1, FS_Subset, FS_CardinalityType
      <4> QED BY <1>7, <3>0, <3>2, <4>2, DupsType
    <3>3. CASE dups' = dups + 1
      <4>1. Stale' \subseteq Stale \cup {d}
        BY <1>5
      <4>2. Cardinality(Stale') \in Nat /\ Cardinality(Stale') <= Cardinality(Stale \cup {d})
        BY <3>1, <4>1, FS_Subset, FS_CardinalityType
      <4>3. Cardinality(Stale') \in Nat /\ Cardinality(Stale') <= Cardinality(Stale) + 1
        BY <3>1, <4>2
      <4> QED BY <1>7, <3>0, <3>3, <4>3, DupsType
    <3> QED BY <1>3, <3>2, <3>3
  <2> QED BY <2>1, <2>2
<1>10. Repeated' = Repeated
  BY DEF Repeated, ReportShown
<1>11. Cardinality(Repeated) + Cardinality(Stale') + Weight' <= dups'
  BY <1>2, <1>3, <1>7, <1>8, <1>9, DupsType
<1>12. Cardinality(Repeated') + Cardinality(Stale') + Weight' <= dups'
  BY <1>10, <1>11
<1> QED BY <1>3, <1>12 DEF CountInv, Weight

LEMMA ReceiveCopies ==
    ASSUME InteractionInv, ChannelInv, CopyInv, Receive
    PROVE  CopyInv'
<1>1. /\ InReceive /\ ReceiveStep /\ UNCHANGED <<script, run, pc, shown, dev>> /\ pc \in Waits
  BY DEF Receive, InReceive, appVars, devVars
<1>2. MessagesInv'
  BY <1>1, MessagesKept DEF CopyInv
<1>3. CASE ReceiveTimeout
  <2>1. UNCHANGED <<net, dups>> /\ ret'.st # "ok"
    BY <1>3 DEF ReceiveTimeout, ErrRet
  <2>2. OnceInv' /\ IsFiniteSet(net') /\ dups' \in Nat /\ dups <= dups' /\ net' \subseteq net
    BY <2>1, OnceKept, DupsType DEF CopyInv, CountInv
  <2>3. CountInv'
    BY <1>1, <2>1, <2>2, NoReportReceived DEF CopyInv
  <2> QED BY <1>2, <2>2, <2>3 DEF CopyInv
<1>4. ASSUME NEW d \in net,
             ReceiveUnopenable(d) \/ ReceiveAck(d) \/ ReceiveMessage(d) \/ ReceivePanic(d)
      PROVE  CopyInv'
  <2>1. Deliver(d)
    BY <1>4 DEF ReceiveUnopenable, ReceiveAck, ReceiveMessage, ReceivePanic
  <2>2. /\ net' \subseteq net /\ IsFiniteSet(net') /\ dups' \in Nat /\ dups <= dups'
    BY <2>1, Delivered, DupsType DEF CopyInv
  <2>3. OnceInv'
    BY <2>2, OnceKept DEF CopyInv
  <2>4. CASE ret'.st # "ok" \/ ~IsReport(ret'.msg)
    BY <1>1, <1>2, <2>2, <2>3, <2>4, NoReportReceived DEF CopyInv
  <2>5. CASE ret'.st = "ok" /\ IsReport(ret'.msg)
    <3>1. ReceiveMessage(d)
      BY <1>4, <2>5 DEF ReceiveUnopenable, ReceiveAck, ReceivePanic, ErrRet, NoRet, PanicRet
    <3>2. PICK m \in Opened(d) : Accept(d, m) /\ ret' = OkRet(m)
      BY <3>1 DEF ReceiveMessage
    <3>3. d.key = sc.key /\ m = d.msg
      BY <1>1, <3>2, CurrentKey DEF Opened
    <3>4. sc'.key = sc.key
      BY <3>2, SelfSends DEF Accept, Bump, Channels
    <3>5. IsReport(d.msg)
      BY <2>5, <3>2, <3>3 DEF OkRet
    <3>6. CountInv'
      BY <1>1, <2>1, <3>2, <3>3, <3>4, <3>5, ReportReceived DEF CopyInv
    <3> QED BY <1>2, <2>3, <3>6 DEF CopyInv
  <2> QED BY <2>4, <2>5
<1> QED BY <1>1, <1>3, <1>4 DEF ReceiveStep

(* The device sends: no report, or one nobody has seen *)
LEMMA SentCopies ==
    ASSUME InteractionInv, ChannelInv, CopyInv, NEW k, NEW m, PeerSend(k, m), shown' = shown, MessagesInv',
           IsReport(m) =>
              /\ ~Seen(k, m.ex) /\ ~Held(k, m.ex)
              /\ \A x \in net : IsReport(x.msg) /\ x.key = k => x.msg.ex # m.ex
    PROVE  CopyInv'
<1> DEFINE d == [key |-> k, ctr |-> pctr', msg |-> m]
<1>1. /\ net' = net \cup {d} /\ d.key = k /\ d.msg = m
      /\ UNCHANGED <<sc, ret, dups>>
  BY DEF PeerSend
<1> HIDE DEF d
<1>2. OnceInv'
  BY <1>1 DEF CopyInv, OnceInv
<1>3. IsFiniteSet(net')
  BY <1>1, FS_AddElement DEF CopyInv, CountInv
<1>4. Stale' \subseteq Stale
  <2>1. ASSUME NEW x \in Stale' PROVE x \in Stale
    <3>1. x \in net \cup {d} /\ IsReport(x.msg) /\ (Seen(x.key, x.msg.ex) \/ Held(x.key, x.msg.ex))
      BY <1>1, <2>1 DEF Stale, Seen, Held, ReportShown
    <3> QED BY <1>1, <3>1 DEF Stale
  <2> QED BY <2>1
<1>5. HeldAgain' => HeldAgain
  BY <1>1 DEF HeldAgain, Seen, ReportShown
<1>6. CountInv'
  BY <1>1, <1>3, <1>4, <1>5, CountKept, DupsType DEF CopyInv
<1> QED BY <1>2, <1>6 DEF CopyInv

LEMMA NewReportCopies ==
    ASSUME InteractionInv, ChannelInv, CopyInv, NEW k, NEW m, PeerSend(k, m), shown' = shown, MessagesInv',
           k \in SessionKeys, k.good, m.ex \notin CommandExchanges,
           \A s \in dev.said : IsReport(s.msg) /\ s.key = k => s.msg.ex # m.ex
    PROVE  CopyInv'
<1>1. k = SessionKey(k.run, TRUE)
  BY SessionOfKey
<1>2. ~Seen(k, m.ex)
  <2> SUFFICES ASSUME Seen(k, m.ex) PROVE FALSE
    OBVIOUS
  <2>1. Answered(k.run, m.ex)
    BY DEF Seen, ReportShown, CopyInv, MessagesInv
  <2>2. PICK s \in dev.said :
          s.key = SessionKey(k.run, TRUE) /\ s.msg.ex = m.ex /\ s.msg.op \in {"report", "invoke_rsp"}
    BY <2>1 DEF Answered
  <2>3. s.msg.op = "invoke_rsp"
    BY <1>1, <2>2 DEF IsReport
  <2> QED BY <2>2, <2>3, SaidFacts, DeviceMsgExchange
<1>3. ~Held(k, m.ex)
  <2> SUFFICES ASSUME Held(k, m.ex) PROVE FALSE
    OBVIOUS
  <2>1. ret.st = "ok" /\ IsReport(ret.msg) /\ sc.key = k /\ ret.msg.ex = m.ex
    BY DEF Held
  <2>2. [key |-> k, msg |-> ret.msg] \in dev.said
    BY <2>1, ExchangeFacts DEF InteractionInv, RetInv, Heard
  <2> QED BY <2>1, <2>2
<1>4. ASSUME NEW x \in net, IsReport(x.msg), x.key = k
      PROVE  x.msg.ex # m.ex
  <2>1. [key |-> x.key, msg |-> x.msg] \in dev.said
    BY <1>4, SaidNet
  <2> QED BY <1>4, <2>1
<1> QED BY <1>2, <1>3, <1>4, SentCopies

-----------------------------------------------------------------------------
(* The count of copies: steps *)

LEMMA StartCopies ==
    ASSUME InteractionInv, ChannelInv, CopyInv, StartCommand
    PROVE  CopyInv'
<1>1. UNCHANGED <<shown, net, dups, dev>> /\ ret' = NoRet /\ run' = run + 1
  BY DEF StartCommand, StartSecureChannel, devVars
<1>2. MessagesInv'
  <2>1. \A i \in 1 .. Len(shown) : shown[i].run \in 1 .. run
    BY DEF InteractionInv, TypeInv, InteractionTypeOK
  <2>2. run \in Nat
    BY InteractionAssumption DEF InteractionInv, TypeInv, InteractionTypeOK
  <2>3. \A i \in 1 .. Len(shown) : shown[i].run # run'
    BY <1>1, <2>1, <2>2
  <2> QED BY <1>1, <2>3 DEF CopyInv, MessagesInv, Answered
<1> QED BY <1>1, <1>2, QuietCopies

LEMMA ConnectedCopies ==
    ASSUME InteractionInv, ChannelInv, CopyInv, Connected
    PROVE  CopyInv'
<1>1. /\ UNCHANGED <<shown, run, net, dups>> /\ ret' = NoRet /\ pc = "exchange"
      /\ dev'.said = dev.said
  BY DeviceFacts DEF Connected, InstallCase, Goto, DeviceStates
<1>2. MessagesInv'
  BY <1>1, MessagesKept DEF CopyInv
<1> QED BY <1>1, <1>2, QuietCopies

LEMMA EndsCopies ==
    ASSUME InteractionInv, ChannelInv, OrderInv, CopyInv, Ends
    PROVE  CopyInv'
<1>1. /\ UNCHANGED <<run, net, dups, dev>> /\ ret' = NoRet /\ pc' = "idle"
  BY DEF Ends, ConnectFails, ShowAnswer, ReadAnswer, ShowWindow, Panics, Interrupt, End, Exit, Close, devVars
<1>2. CASE shown' = shown
  <2>1. MessagesInv'
    BY <1>1, <1>2, MessagesKept DEF CopyInv
  <2> QED BY <1>1, <1>2, <2>1, QuietCopies
<1>3. ASSUME NEW kind, NEW value, Show(kind, ret.msg, value), pc \in Waits, ret.st = "ok",
             kind = "message" => IsReport(ret.msg) \/ (ret.msg.op = "invoke_rsp" /\ pc # "listen")
      PROVE  CopyInv'
  BY <1>1, <1>3, ShowCopies
<1>4. \/ shown' = shown
      \/ /\ pc \in Waits /\ ret.st = "ok"
         /\ \E kind, value :
              /\ Show(kind, ret.msg, value)
              /\ kind = "message" => IsReport(ret.msg) \/ (ret.msg.op = "invoke_rsp" /\ pc # "listen")
  <2>1. CASE ShowAnswer
    <3>1. pc = "answer" /\ ret.st = "ok" /\ Takes(ret.msg)
      BY <2>1 DEF ShowAnswer, Got
    <3>2. CASE cmd = "invoke"
      BY <2>1, <3>1, <3>2 DEF ShowAnswer, Waits
    <3>3. CASE cmd # "invoke"
      <4>1. IsReport(ret.msg) \/ ret.msg.op = "invoke_rsp"
        BY <3>1, <3>3 DEF Takes, IsInvokeResponse, HasData
      <4>2. Show("message", ret.msg, ret.msg.body)
        BY <2>1, <3>3 DEF ShowAnswer
      <4> QED BY <3>1, <4>1, <4>2 DEF Waits
    <3> QED BY <3>2, <3>3
  <2>2. CASE ReadAnswer
    BY <2>2 DEF ReadAnswer, Got, Waits
  <2>3. CASE ShowWindow
    BY <2>3 DEF ShowWindow, Got, Waits
  <2> QED BY <2>1, <2>2, <2>3 DEF Ends, ConnectFails, Panics, Interrupt
<1> QED BY <1>2, <1>3, <1>4

LEMMA SendsCopies ==
    ASSUME InteractionInv, ChannelInv, OrderInv, CopyInv, Sends
    PROVE  CopyInv'
<1>1. UNCHANGED <<run, net, dups, dev>> /\ ret' = NoRet
  BY DEF Sends, InvokeRequest, ReadRequest, TimedRequest, SubscribeRequest, SendRequest,
         InvokeOpenWindow, SubscribeFirst, ShowEvent, Send, Goto, devVars
<1>2. CASE shown' = shown
  <2>1. pc \notin {"idle", "listen"} \/ pc' = "listen"
    BY DEF Sends, InvokeRequest, ReadRequest, TimedRequest, SubscribeRequest, SendRequest,
           InvokeOpenWindow, SubscribeFirst, ShowEvent, Got, Goto
  <2>2. MessagesInv'
    BY <1>1, <1>2, <2>1, MessagesKept DEF CopyInv
  <2> QED BY <1>1, <1>2, <2>2, QuietCopies
<1>3. CASE /\ SubscribeFirst \/ ShowEvent
           /\ IsReport(ret.msg) /\ Show("message", ret.msg, ret.msg.body)
  <2>1. pc \in Waits /\ ret.st = "ok" /\ pc' = "listen"
    BY <1>3 DEF SubscribeFirst, ShowEvent, Got, Goto, Waits
  <2> QED BY <1>1, <1>3, <2>1, ShowCopies
<1> QED BY <1>2, <1>3
        DEF Sends, InvokeRequest, ReadRequest, TimedRequest, SubscribeRequest, SendRequest,
            InvokeOpenWindow, SubscribeFirst, ShowEvent

(* The device answers with a report only the one request of a session *)
LEMMA ReplyCopies ==
    ASSUME InteractionInv, ChannelInv, OrderInv, CopyInv, NEW i \in 1 .. Len(sent), i \notin handled,
           NEW d \in DeviceStates, NEW o, NEW b, Reply(i, d, o, b), d.said = dev.said,
           o = "report" =>
              /\ IsRequest(i) /\ sent[i].msg.op \in {"read_req", "subsc_req"}
              /\ sent[i].msg.ex = ZeroExchange
              /\ sent[i].key \in SessionKeys /\ sent[i].key.good
    PROVE  CopyInv'
<1>1. UNCHANGED <<run, pc, shown>>
  BY ReplyFacts
<1>2. PICK m :
        /\ m.ex = sent[i].msg.ex /\ (IsReport(m) <=> o = "report")
        /\ dev'.said = d.said \cup {[key |-> sent[i].key, msg |-> m]}
        /\ PeerSend(sent[i].key, m)
  BY ReplyFacts
<1>3. MessagesInv'
  BY <1>1, <1>2, MessagesKept DEF CopyInv
<1>4. CASE o = "report"
  BY <1>1, <1>2, <1>3, <1>4, OneRequest, NewReportCopies, ExchangeFacts
<1>5. CASE o # "report"
  BY <1>1, <1>2, <1>3, <1>5, SentCopies
<1> QED BY <1>4, <1>5

LEMMA SubscribeCopies ==
    ASSUME InteractionInv, ChannelInv, OrderInv, CopyInv, NEW i \in 1 .. Len(sent), DevSubscribe(i)
    PROVE  CopyInv'
<1>1. /\ i \notin handled /\ sent[i].msg.op = "subsc_req"
      /\ sent[i].key \in SessionKeys /\ sent[i].key.good
      /\ sent[i].msg.ex = ZeroExchange /\ IsRequest(i)
  BY PendingFacts, ControllerMsgShape DEF DevSubscribe, IsRequest, Requests
<1> DEFINE u == [key |-> sent[i].key, event |-> 0, st |-> "report"]
           d == [dev EXCEPT !.sub = u]
<1>2. d \in DeviceStates /\ d.said = dev.said
  <2>1. u \in [key : KeyOrNone, event : 0 .. MaxEvents, st : {"none", "report", "active"}]
    BY <1>1, KeyFacts, InteractionAssumption DEF KeyOrNone
  <2> HIDE DEF u
  <2> QED BY <2>1, DeviceFacts DEF DeviceStates
<1>3. Reply(i, d, "report", "data") \/ Reply(i, dev, "status_rsp", "fail")
  BY DEF DevSubscribe
<1> HIDE DEF d
<1> QED BY <1>1, <1>2, <1>3, DeviceFacts, ReplyCopies

LEMMA ConfirmedCopies ==
    ASSUME InteractionInv, ChannelInv, OrderInv, CopyInv, NEW i \in 1 .. Len(sent), DevConfirmed(i)
    PROVE  CopyInv'
<1> DEFINE d == Confirmed(sent[i])
<1>1. d \in DeviceStates /\ d.said = dev.said
  BY ConfirmedType
<1>2. i \notin handled
  BY DEF DevConfirmed, Pending
<1>3. \/ Reply(i, d, "subsc_rsp", "none")
      \/ dev' = d /\ UNCHANGED <<chanVars, appVars>>
  BY DEF DevConfirmed
<1> HIDE DEF d
<1>4. CASE Reply(i, d, "subsc_rsp", "none")
  BY <1>1, <1>2, <1>4, ReplyCopies
<1>5. CASE dev' = d /\ UNCHANGED <<chanVars, appVars>>
  <2>1. UNCHANGED <<sc, net, dups, ret, shown, run, pc>> /\ dev'.said = dev.said
    BY <1>1, <1>5 DEF chanVars, appVars
  <2>2. MessagesInv'
    BY <2>1, MessagesKept DEF CopyInv
  <2> QED BY <2>1, <2>2, QuietCopies
<1> QED BY <1>3, <1>4, <1>5

(* The next event is one the device has not reported yet *)
LEMMA EventCopies ==
    ASSUME InteractionInv, ChannelInv, OrderInv, CopyInv, DevEvent
    PROVE  CopyInv'
<1> DEFINE n == dev.sub.event + 1
           k == dev.sub.key
<1>1. /\ dev.sub.st = "active" /\ n \in 1 .. MaxEvents
      /\ UNCHANGED <<run, pc, shown>>
  BY NewEvent
<1>2. PICK m :
        /\ m.ex = EventExchange(n) /\ IsReport(m)
        /\ dev'.said = dev.said \cup {[key |-> k, msg |-> m]}
        /\ PeerSend(k, m)
  BY NewEvent
<1>3. MessagesInv'
  BY <1>1, <1>2, MessagesKept DEF CopyInv
<1>4. dev.sub.event \in Nat
  BY DeviceFacts, InteractionAssumption DEF DeviceStates
<1>5. EventExchange(n) \in EventExchanges /\ EventExchange(n)[1] = n
  BY <1>1 DEF EventExchange, EventExchanges
<1>6. \A s \in dev.said : IsReport(s.msg) /\ s.key = k => s.msg.ex # m.ex
  <2> SUFFICES ASSUME NEW s \in dev.said, s.key = k, s.msg.ex = m.ex PROVE FALSE
    OBVIOUS
  <2>1. s.msg.ex[1] = n /\ s.msg.ex \in EventExchanges
    BY <1>2, <1>5
  <2>2. s.msg.ex[1] <= dev.sub.event
    BY <1>1, <2>1 DEF OrderInv, SubInv
  <2> QED BY <1>4, <2>1, <2>2
<1>7. k \in SessionKeys /\ k.good /\ m.ex \notin CommandExchanges
  BY <1>1, <1>2, <1>5, DeviceFacts, ExchangeFacts
<1> QED BY <1>1, <1>2, <1>3, <1>6, <1>7, NewReportCopies

LEMMA ClosesCopies ==
    ASSUME InteractionInv, ChannelInv, CopyInv, DevCloses
    PROVE  CopyInv'
<1>1. PICK k \in dev.keys : Say(k, CloseReport)
  BY DEF DevCloses
<1>2. PeerSend(k, CloseReport) /\ UNCHANGED <<run, pc, shown>> /\ dev'.said = dev.said
  BY <1>1, DeviceFacts DEF DevCloses, Say, appVars, DeviceStates
<1>3. MessagesInv'
  BY <1>2, MessagesKept DEF CopyInv
<1> QED BY <1>2, <1>3, ExchangeFacts, SentCopies

LEMMA CopyStep ==
    ASSUME InteractionInv, ChannelInv, OrderInv, CopyInv, [Next]_vars
    PROVE  CopyInv'
<1>1. CASE Device
  <2>1. ASSUME NEW i \in 1 .. Len(sent),
               DevRead(i) \/ DevInvoke(i) \/ DevTimed(i) \/ DevOpenWindow(i)
        PROVE  CopyInv'
    <3>1. i \notin handled /\ IsRequest(i)
      BY <2>1, PlainReply
    <3>2. PICK d \in DeviceStates : \E o, b :
            /\ Reply(i, d, o, b)
            /\ d.said = dev.said
            /\ o = "report" => sent[i].msg.op = "read_req" /\ sent[i].msg.ex = ZeroExchange
      BY <2>1, PlainReply
    <3>3. sent[i].key \in SessionKeys /\ sent[i].key.good
      BY <2>1, PendingFacts DEF DevRead, DevInvoke, DevTimed, DevOpenWindow
    <3> QED BY <3>1, <3>2, <3>3, ReplyCopies
  <2> QED BY <1>1, <2>1, SubscribeCopies, ConfirmedCopies, EventCopies, ClosesCopies DEF Device
<1>2. CASE UNCHANGED vars
  <2>1. UNCHANGED <<sc, net, dups, ret, run, pc, shown, dev>>
    BY <1>2 DEF vars, chanVars, appVars, devVars
  <2>2. MessagesInv'
    BY <2>1, MessagesKept DEF CopyInv
  <2> QED BY <2>1, <2>2, QuietCopies
<1>3. CASE Program \/ Interrupt
  BY <1>3, ConnectedCopies, SendsCopies, ReceiveCopies, EndsCopies DEF Program, Sends, Ends
<1> QED BY <1>1, <1>2, <1>3, StartCopies DEF Next

-----------------------------------------------------------------------------
LEMMA EventInit == Init => EventInv
<1> SUFFICES ASSUME Init PROVE EventInv
  OBVIOUS
<1>1. /\ sent = <<>> /\ net = {} /\ ret = NoRet /\ dups = 0
      /\ pc = "idle" /\ shown = <<>> /\ handled = {}
      /\ dev.said = {} /\ dev.confirmed = {} /\ dev.sub.st = "none"
  BY DEF Init, ChannelInit, NoSubscription
<1>2. Len(sent) = 0 /\ Len(shown) = 0
  BY <1>1
<1>3. \A i : i \notin 1 .. Len(sent) /\ i \notin 1 .. Len(shown)
  BY <1>2
<1>4. RequestInv /\ StatusInv /\ SaidInv /\ SubInv
  BY <1>1, <1>3 DEF RequestInv, StatusInv, SaidInv, SubInv
<1>5. ConfirmedWasShown /\ EventsShownInOrder
  BY <1>1, <1>3 DEF ConfirmedWasShown, EventsShownInOrder
<1>6. OnceInv /\ MessagesInv
  BY <1>1, <1>3 DEF OnceInv, MessagesInv
<1>7. CountInv
  <2>1. Repeated = {} /\ Stale = {} /\ ~HeldAgain
    BY <1>1, <1>3 DEF Repeated, Stale, HeldAgain, NoRet
  <2> QED BY <1>1, <2>1, FS_EmptySet DEF CountInv
<1> QED BY <1>4, <1>5, <1>6, <1>7 DEF EventInv, OrderInv, CopyInv

(* The argument of this module, as an invariant of every state. *)
THEOREM EventInvariant == Spec => []EventInv
<1>1. Init => EventInv
  BY EventInit
<1>2. (InteractionInv /\ ChannelInv) /\ EventInv /\ [Next]_vars => EventInv'
  BY OrderStep, CopyStep DEF EventInv
<1> QED BY <1>1, <1>2, InteractionInvariant, PTL DEF Spec

(* Reports the device holds for confirmed were shown, events in order, and *)
(* nothing more often than the network repeated a datagram.                *)
THEOREM EventTheorem == Spec => []EventsReachTheUser
<1>1. (InteractionInv /\ ChannelInv) /\ EventInv => EventsReachTheUser
  <2> SUFFICES ASSUME InteractionInv, ChannelInv, EventInv PROVE EventsReachTheUser
    OBVIOUS
  <2>1. /\ Cardinality(Repeated) \in Nat /\ Cardinality(Stale) \in Nat
        /\ Cardinality(Repeated) + Cardinality(Stale) + Weight <= dups
    BY FiniteCopies DEF EventInv, CopyInv
  <2>2. Cardinality(Repeated) <= dups
    BY <2>1, DupsType DEF Weight
  <2> QED BY <2>2 DEF EventInv, OrderInv, EventsReachTheUser
<1> QED BY <1>1, InteractionInvariant, EventInvariant, PTL
=============================================================================
