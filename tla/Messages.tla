------------------------------ MODULE Messages -------------------------------
(***************************************************************************)
(* Bytes of a Matter message (messages.go; Send and Receive of             *)
(* securechannel.go): the message header, which is also the additional     *)
(* data of the encryption, the protocol header, acks, status reports, the  *)
(* requests of the interaction model and the lookups in the answers        *)
(* (mattertlv/tlvdec.go).                                                  *)
(*                                                                         *)
(* Flags, opcodes, protocol ids and tags keep their values; integers of    *)
(* several bytes are written in base Base, 256 in the code.                *)
(***************************************************************************)
EXTENDS Tlv

CONSTANTS
    Requests,  \* what the controller sends: session, counter, exchange, content
    Answers    \* what a device sends: header, protocol header, content

VARIABLES
    request,  \* the message the controller sends, in a set
    answer    \* the message a device sends, in a set

messageVars == <<request, answer>>

(* Numbers that n bytes can hold, and what an octet of an element can *)
Fitting(n) == 0 .. Power[n] - 1
Short == 0 .. Base - 1

(* A node id, or none of the sizes a header leaves room for *)
NodeIds(sizes) == {s \in Seq(Nat) : Len(s) \in sizes}

(* The integers and octet strings of a command *)
Fields ==
    [tag : Short, type : TYPE_UINT \cup {tOctets1}, int : Nat, oct : Seq(Short)]

ASSUME MessageAssumption ==
    /\ \A r \in Requests :
        /\ r.kind \in {"invoke", "read", "subscribe", "timed", "status"}
        /\ r.session \in Fitting(2) /\ r.counter \in Fitting(4) /\ r.exchange \in Fitting(2)
        /\ r.endpoint \in Fitting(2) /\ r.cluster \in Fitting(4)
        /\ r.id \in Fitting(IF r.kind = "timed" THEN 2 ELSE 4)
        /\ r.timed \in BOOLEAN
        /\ r.fields \in Seq(Fields)
        /\ \A i \in 1 .. Len(r.fields) :
             /\ r.fields[i].type \in TYPE_UINT => r.fields[i].int \in Fitting(Width(r.fields[i].type))
             /\ Len(r.fields[i].oct) < Power[2]
    /\ \A a \in Answers :
        /\ a.kind \in {"status", "command", "csr", "report"}
        /\ a.value \in Short /\ a.clustered \in BOOLEAN /\ a.cluster \in Short
        /\ a.octets \in Seq(Short) /\ Len(a.octets) < Power[2]
        /\ a.header.session \in Fitting(2) /\ a.header.counter \in Fitting(4)
        /\ a.header.source \in NodeIds({0, 8}) /\ a.header.destination \in NodeIds({0, 2, 8})
        /\ a.protocol.flags \in Nat /\ a.protocol.opcode \in Nat
        /\ a.protocol.exchange \in Fitting(2) /\ a.protocol.protocol \in Fitting(2)
        /\ a.ack \in Fitting(4)

-----------------------------------------------------------------------------
(* Message header *)

Bit(n, i) == (n \div Powers(2)[i]) % 2 = 1

(* Mutant of calcMessageFlags: the two sizes of a destination are swapped *)
calcMessageFlagsSwapped(h) ==
    (IF Len(h.source) = 8 THEN 4 ELSE 0)
    + (IF Len(h.destination) = 2 THEN 1 ELSE IF Len(h.destination) = 8 THEN 2 ELSE 0)

calcMessageFlags(h) ==
    (IF Len(h.source) = 8 THEN 4 ELSE 0)
    + (IF Len(h.destination) = 2 THEN 2 ELSE IF Len(h.destination) = 8 THEN 1 ELSE 0)

EncodeHeader(h) ==
    <<calcMessageFlags(h)>> \o LittleEndian(2, h.session) \o <<0>>
    \o LittleEndian(4, h.counter)
    \o (IF Len(h.source) = 8 THEN h.source ELSE <<>>) \o h.destination

(* MessageHeader.Decode of a whole datagram, and how many bytes it took *)
DecodeHeader(b) ==
    LET sourceSize == IF Bit(b[1], 2) THEN 8 ELSE 0
        destinationSize == CASE b[1] % 4 = 1 -> 8 [] b[1] % 4 = 2 -> 2 [] OTHER -> 0
    IN [session |-> ReadNumber(b, 2, 2), counter |-> ReadNumber(b, 5, 4),
        source |-> Bytes(b, 9, sourceSize),
        destination |-> Bytes(b, 9 + sourceSize, destinationSize),
        size |-> 8 + sourceSize + destinationSize]

-----------------------------------------------------------------------------
(* Protocol header *)

EncodeProtocol(p) ==
    <<p.flags, p.opcode>> \o LittleEndian(2, p.exchange) \o LittleEndian(2, p.protocol)

(* ProtocolMessageHeader.Decode: the counter of an ack may be piggybacked *)
DecodeProtocol(b) ==
    LET acks == Bit(b[1], 1) IN
    [flags |-> b[1], opcode |-> b[2], exchange |-> ReadNumber(b, 3, 2),
     protocol |-> ReadNumber(b, 5, 2), ack |-> IF acks THEN ReadNumber(b, 7, 4) ELSE 0,
     size |-> IF acks THEN 10 ELSE 6]

Initiator(flags) == Bit(flags, 0)

(* The ack of a message with protocol header p *)
ackGen(p, counter) ==
    EncodeProtocol([flags |-> IF Initiator(p.flags) THEN 2 ELSE 3, opcode |-> 16,
                    exchange |-> p.exchange, protocol |-> 0])
    \o LittleEndian(4, counter)

(* EncodeStatusReport, in exchange x *)
EncodeStatusReport(code, x) ==
    EncodeProtocol([flags |-> 5, opcode |-> 64, exchange |-> x, protocol |-> 0])
    \o LittleEndian(2, code.general) \o LittleEndian(4, code.protocol)
    \o LittleEndian(2, code.code)

ReadStatusReport(payload) ==
    [general |-> ReadNumber(payload, 1, 2), protocol |-> ReadNumber(payload, 3, 4),
     code |-> ReadNumber(payload, 7, 2)]

(* Send: header, then the protocol message, sealed or not *)
Send(session, counter, message) ==
    LET h == EncodeHeader([session |-> session, counter |-> counter,
                           source |-> <<1, 2, 3, 4, 5, 6, 7, 8>>, destination |-> <<>>])
    IN h \o message

(* What Receive (or the device) makes of a datagram; `aad` is what the     *)
(* encryption authenticates beside the protocol message.                   *)
Parse(b) ==
    LET h == DecodeHeader(b)
        proto == SubSeq(b, h.size + 1, Len(b))
        p == DecodeProtocol(proto)
    IN [header |-> h, aad |-> SubSeq(b, 1, h.size), protocol |-> p,
        payload |-> SubSeq(proto, p.size + 1, Len(proto))]

-----------------------------------------------------------------------------
(* Requests of the interaction model *)

AnonStruct(content) == <<tStruct>> \o content \o <<tEnd>>
AnonList(content) == <<tList>> \o content \o <<tEnd>>
Container(tag, tp, content) == Header(tag, tp) \o content \o <<tEnd>>

UInt8(tag, v) == EncUInt(tag, 4, v)
UInt16(tag, v) == EncUInt(tag, 5, v)
UInt32(tag, v) == EncUInt(tag, 6, v)
Revision == UInt8(255, 10)

(* Byte strings one behind the other *)
Joined(s) ==
    LET upto[n \in 0 .. Len(s)] == IF n = 0 THEN <<>> ELSE upto[n - 1] \o s[n]
    IN upto[Len(s)]

(* The fields of a command as the callers write them *)
FieldBytes(f) ==
    IF f.type \in TYPE_UINT THEN EncUInt(f.tag, f.type, f.int) ELSE EncOctetString(f.tag, f.oct)

CommandFields(r) == Joined([i \in 1 .. Len(r.fields) |-> FieldBytes(r.fields[i])])

(* Every encoder of a request: protocol header and payload *)
InteractionMessage(flags, opcode, exchange, payload) ==
    EncodeProtocol([flags |-> flags, opcode |-> opcode, exchange |-> exchange, protocol |-> 1])
    \o AnonStruct(payload)

(* Mutant of EncodeIMInvokeRequest: the list of the path is not closed *)
EncodeIMInvokeRequestOpen(r) ==
    InteractionMessage(5, 8, r.exchange,
        EncBool(0, FALSE) \o EncBool(1, r.timed)
        \o Container(2, tArray, AnonStruct(
             Header(0, tList) \o UInt16(0, r.endpoint) \o UInt32(1, r.cluster) \o UInt32(2, r.id)
             \o Container(1, tStruct, CommandFields(r))))
        \o Revision)

EncodeIMInvokeRequest(r) ==
    InteractionMessage(5, 8, r.exchange,
        EncBool(0, FALSE) \o EncBool(1, r.timed)
        \o Container(2, tArray, AnonStruct(
             Container(0, tList,
                 UInt16(0, r.endpoint) \o UInt32(1, r.cluster) \o UInt32(2, r.id))
             \o Container(1, tStruct, CommandFields(r))))
        \o Revision)

EncodeIMReadRequest(r) ==
    InteractionMessage(5, 2, 0,
        Container(0, tArray,
            AnonList(UInt16(2, r.endpoint) \o UInt32(3, r.cluster) \o UInt32(4, r.id)))
        \o EncBool(3, TRUE) \o Revision)

EncodeIMSubscribeRequest(r) ==
    InteractionMessage(5, 3, 0,
        EncBool(0, FALSE) \o UInt16(1, 10) \o UInt16(2, 50)
        \o Container(4, tArray,
             AnonList(UInt16(1, r.endpoint) \o UInt32(2, r.cluster) \o UInt32(3, r.id)
                      \o EncBool(4, TRUE)))
        \o EncBool(7, FALSE) \o Revision)

EncodeIMTimedRequest(r) ==
    InteractionMessage(5, 10, r.exchange, UInt16(0, r.id) \o Revision)

EncodeIMStatusResponse(r) ==
    InteractionMessage(IF r.timed THEN 5 ELSE 4, 1, r.exchange, UInt8(0, 0))

Encode(r) ==
    CASE r.kind = "invoke" -> EncodeIMInvokeRequest(r)
      [] r.kind = "read" -> EncodeIMReadRequest(r)
      [] r.kind = "subscribe" -> EncodeIMSubscribeRequest(r)
      [] r.kind = "timed" -> EncodeIMTimedRequest(r)
      [] r.kind = "status" -> EncodeIMStatusResponse(r)

-----------------------------------------------------------------------------
(* Lookups in an answer *)

Child(item, tag) ==
    LET matching == {i \in 1 .. Len(item.list) : item.list[i].tag = tag} IN
    IF item.type = "list" /\ matching # {} THEN item.list[Min(matching)] ELSE NoItem

(* GetItemRec: the first item with each tag of the path, level by level *)
GetItemRec(item, path) ==
    LET found[n \in 0 .. Len(path)] == IF n = 0 THEN item ELSE Child(found[n - 1], path[n])
    IN found[Len(path)]

Found(item) == item # NoItem

(* Mutant of ParseImInvokeResponse: the cluster status alone decides *)
ParseImInvokeResponseCluster(item) ==
    LET status == GetItemRec(item, <<1, 0, 1, 1, 0>>)
        cluster == GetItemRec(item, <<1, 0, 1, 1, 1>>)
    IN IF ~Found(status) THEN -1 ELSE cluster.int

ParseImInvokeResponse(item) ==
    LET status == GetItemRec(item, <<1, 0, 1, 1, 0>>)
        cluster == GetItemRec(item, <<1, 0, 1, 1, 1>>)
    IN CASE ~Found(status) -> -1
         [] Found(status) /\ status.int = 0 -> 0
         [] Found(status) /\ status.int # 0 /\ Found(cluster) -> cluster.int
         [] OTHER -> -1

(* The device's answers (external).  A status has a cluster status or not, *)
(* of any value: 0 as well.                                                *)
AnswerPath == Container(0, tList, UInt16(0, 1) \o UInt32(1, 6) \o UInt32(2, 0))

InvokeResponse(content) ==
    AnonStruct(EncBool(0, FALSE) \o Container(1, tArray, AnonStruct(content)) \o Revision)

AnswerPayload(a) ==
    CASE a.kind = "status" ->
           InvokeResponse(Container(1, tStruct, AnswerPath \o
               Container(1, tStruct, UInt8(0, a.value) \o
                   (IF a.clustered THEN UInt8(1, a.cluster) ELSE <<>>))))
      [] a.kind = "command" ->
           InvokeResponse(Container(0, tStruct, AnswerPath \o
               Container(1, tStruct, UInt8(0, a.value))))
      [] a.kind = "csr" ->
           InvokeResponse(Container(0, tStruct, AnswerPath \o
               Container(1, tStruct, EncOctetString(0, a.octets))))
      [] a.kind = "report" ->
           AnonStruct(Container(1, tArray, AnonStruct(Container(1, tStruct,
               UInt32(0, 7) \o Container(1, tList, UInt16(2, 0))
               \o Container(2, tArray, <<4, a.value>>))))
               \o EncBool(4, TRUE) \o Revision)

(* Datagram of a device: any node ids, an ack piggybacked or not *)
AnswerDatagram(a) ==
    EncodeHeader(a.header) \o EncodeProtocol(a.protocol)
    \o (IF Bit(a.protocol.flags, 1) THEN LittleEndian(4, a.ack) ELSE <<>>)
    \o AnswerPayload(a)

-----------------------------------------------------------------------------
SendRequest == request = {} /\ \E r \in Requests : request' = {r}
TakeAnswer == answer = {} /\ \E a \in Answers : answer' = {a}

MessageInit == request = {} /\ answer = {}

MessageNext ==
    \/ SendRequest /\ UNCHANGED answer
    \/ TakeAnswer /\ UNCHANGED request

MessageSpec == MessageInit /\ [][MessageNext]_messageVars

-----------------------------------------------------------------------------
(* Properties *)

(* What a field is for the device *)
FieldItem(f) ==
    IF f.type \in TYPE_UINT THEN IntItem(f.tag, f.int) ELSE OctetsItem(f.tag, f.oct)

(* What Send writes for a request a device reads back: the header, which   *)
(* is exactly what the encryption authenticates, the exchange and role,    *)
(* and in the payload the path, the fields and the timed flag at the       *)
(* places the interaction model has for them; a status report, as Close    *)
(* sends it, reads back as its codes.                                      *)
RequestsReadBack ==
    \A r \in request :
        LET m == Parse(Send(r.session, r.counter, Encode(r)))
            item == Decode(m.payload)
            number(path) == GetItemRec(item, path).int
            path == CASE r.kind = "invoke" -> <<number(<<2,0,0,0>>), number(<<2,0,0,1>>), number(<<2,0,0,2>>)>>
                      [] r.kind = "read" -> <<number(<<0,0,2>>), number(<<0,0,3>>), number(<<0,0,4>>)>>
                      [] r.kind = "subscribe" -> <<number(<<4,0,1>>), number(<<4,0,2>>), number(<<4,0,3>>)>>
                      [] OTHER -> <<r.endpoint, r.cluster, r.id>>
            code == [general |-> 0, protocol |-> r.id, code |-> r.endpoint]
            report == Parse(Send(r.session, r.counter, EncodeStatusReport(code, r.exchange)))
        IN /\ m.aad = Send(r.session, r.counter, <<>>)
           /\ m.header.session = r.session /\ m.header.counter = r.counter
           /\ m.protocol.exchange = IF r.kind \in {"read", "subscribe"} THEN 0 ELSE r.exchange
           /\ Initiator(m.protocol.flags) = (r.kind # "status" \/ r.timed)
           /\ path = <<r.endpoint, r.cluster, r.id>>
           /\ r.kind = "timed" => number(<<0>>) = r.id
           /\ r.kind = "invoke" =>
                /\ number(<<1>>) = IF r.timed THEN 1 ELSE 0
                /\ GetItemRec(item, <<2, 0, 1>>).list =
                     [i \in 1 .. Len(r.fields) |-> FieldItem(r.fields[i])]
           /\ r.kind # "status" => Found(GetItemRec(item, <<255>>))
           /\ ReadStatusReport(report.payload) = code

(* What a device answers, with any node ids in the header and an ack       *)
(* piggybacked or not, Receive takes apart at the right places, and the    *)
(* lookups tell the answers apart: a command's field is never taken for a  *)
(* status nor a status for a field, and an octet string in the place of a  *)
(* code reads as 0.  ParseImInvokeResponse returns 0 for a success and for *)
(* a failure whose cluster status is 0, and for nothing else; the cluster  *)
(* status of any other failure; and -1 for a failure without one, as for   *)
(* an answer that is no status.  Receive's ack names the datagram in its   *)
(* exchange, in the other role.                                            *)
AnswersReadBack ==
    \A a \in answer :
        LET m == Parse(AnswerDatagram(a))
            item == Decode(m.payload)
            status == GetItemRec(item, <<1, 0, 1, 1, 0>>)
            field == GetItemRec(item, <<1, 0, 0, 1, 0>>)
            ack == Parse(Send(0, 0, ackGen(m.protocol, m.header.counter)))
        IN /\ m.aad = EncodeHeader(a.header) /\ m.payload = AnswerPayload(a)
           /\ m.header.counter = a.header.counter
           /\ m.protocol.ack = IF Bit(a.protocol.flags, 1) THEN a.ack ELSE 0
           /\ Found(status) = (a.kind = "status") /\ status.int = IF a.kind = "status" THEN a.value ELSE 0
           /\ Found(field) = (a.kind \in {"command", "csr"})
           /\ field.int = IF a.kind = "command" THEN a.value ELSE 0
           /\ field.oct = IF a.kind = "csr" THEN a.octets ELSE <<>>
           /\ ParseImInvokeResponse(item) =
                CASE a.kind = "status" /\ a.value = 0 -> 0
                  [] a.kind = "status" /\ a.value # 0 /\ a.clustered -> a.cluster
                  [] OTHER -> -1
           /\ a.kind = "report" => GetItemRec(item, <<1, 0, 1, 2>>).list[1].int = a.value
           /\ ack.protocol.ack = a.header.counter /\ ack.protocol.exchange = a.protocol.exchange
           /\ Initiator(ack.protocol.flags) # Initiator(a.protocol.flags)
=============================================================================
