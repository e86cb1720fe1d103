------------------------------ MODULE MCCodecs ------------------------------
(* The byte formats, with integers of several bytes in base 4: a run of    *)
(* the TLV writer, or one label, request, answer, sealed packet,           *)
(* certificate or transcript.                                              *)
EXTENDS Tlv, Onboarding, Messages, Ccm, Credentials

MCOctets == {<<>>, <<1, 0, 3>>, <<0, 3, 2, 1>>}

MCPayloads ==
    [version : {0, 7}, vendor : {0, 65521}, product : {32768, 65535}, flow : {0, 3},
     discovery : {0, 255}, discriminator : {0, 255, 3840, 4095},
     passcode : {1, 16383, 123456, 99999998, 134217727}]

(* Command fields: none, an integer, an octet string in the long form *)
MCFields ==
    LET number == [tag |-> 0, type |-> 5, int |-> 7, oct |-> <<>>]
        octets == [tag |-> 1, type |-> tOctets1, int |-> 0, oct |-> <<3, 2, 1, 0>>]
    IN {<<>>, <<number>>, <<octets, number>>}

MCRequests ==
    [kind : {"invoke", "read", "subscribe", "timed", "status"},
     session : {0, 15}, counter : {0, 255}, exchange : {0, 14},
     endpoint : {0, 15}, cluster : {6, 255}, id : {0, 9},
     timed : BOOLEAN, fields : MCFields]

NodeId == <<8, 7, 6, 5, 4, 3, 2, 1>>

MCAnswers ==
    [kind : {"status", "command", "csr", "report"}, value : {0, 1, 3},
     clustered : BOOLEAN, cluster : {0, 2},
     octets : {<<1, 3, 0, 2>>},
     header : [session : {9}, counter : {0, 254}, source : {<<>>, NodeId},
               destination : {<<>>, <<2, 1>>, NodeId}],
     protocol : [flags : {2, 4, 5, 6, 7}, opcode : {9}, exchange : {13}, protocol : {1}],
     ack : {77}]

(* Stands for AES: every byte of the result depends on the whole block.    *)
(* Concatenation with <<>> makes TLC evaluate a block once.                *)
MCEncrypt(b) ==
    LET block == b \o <<>>
        sum == FoldLeft(LAMBDA acc, x : (acc * 7 + x) % 65521, 1, block)
    IN [i \in 1 .. 16 |->
            (167 * block[i] + 13 * block[((i + 4) % 16) + 1] + (sum \div i) + 29 * i) % 256] \o <<>>

Ramp(n, k) == [i \in 1 .. n |-> (k + 11 * i) % 256]

(* Texts and additional data around the block boundaries *)
Packet(n, t, a, m) == [nonce |-> Ramp(n, 3), text |-> Ramp(t, 5), adata |-> Ramp(a, 0), M |-> m]

MCPackets ==
    {Packet(13, t, 8, 16) : t \in {0, 1, 15, 16, 17}}
    \cup {Packet(13, 1, a, 16) : a \in {0, 13, 14, 15, 30, 31}}
    \cup {Packet(12, 16, 14, 8), Packet(11, 2, 1, 4), Packet(14, 1, 1, 8), Packet(13, 1, 1, 7)}

Attribute(type, text) == [type |-> type, text |-> text]

(* Dates at and beyond both ends of what fits; R and S with and without a  *)
(* leading zero                                                            *)
MCCertificates ==
    [serial : {<<2, 0>>}, isCA : BOOLEAN, keyUsage : {3, 4}, extKeyUsage : {<<>>, <<2, 1>>, <<1>>},
     issuer : {<<Attribute("rcac", 65535)>>, <<Attribute("rcac", 1), Attribute("other", 1)>>},
     subject : {<<Attribute("node", 4), Attribute("fabric", 7)>>,
                <<Attribute("fabric", 7), Attribute("node", 4)>>, <<Attribute("node", NotHex)>>},
     notBefore : {Epoch - 1, Epoch}, notAfter : {Epoch + 255, Epoch + 256},
     publicKey : {<<1, 2, 3, 0>>}, subjectKeyId : {<<3>>}, caKeyHash : {<<0, 1>>},
     r : {<<1, 0, 2>>, <<0, 3, 1>>}, s : {<<3, 0, 0>>, <<0, 0, 1>>}]

(* Parts whose plain concatenations coincide *)
MCTranscripts ==
    [context : {<<1>>, <<1, 2>>}, X : {<<2>>, <<2, 1>>}, Y : {<<1, 2>>, <<2>>}, Z : {<<3>>},
     V : {<<3>>, <<3, 2>>}, w0 : {<<2, 1, 3>>, <<0, 1, 3>>, <<0, 0, 3>>}]

MCmbin == <<3, 0>>
MCnbin == <<0>>

others == <<label, messageVars, packet, credentialVars>>

Unused ==
    /\ label = {} /\ request = {} /\ answer = {} /\ packet = {}
    /\ certificate = {} /\ transcript = {}

Init == TlvInit /\ Unused

Next ==
    /\ Unused
    /\ \/ TlvNext /\ UNCHANGED others
       \/ /\ data = <<>> /\ UNCHANGED tlvVars
          /\ \/ ReadLabel /\ UNCHANGED <<messageVars, packet, credentialVars>>
             \/ MessageNext /\ UNCHANGED <<label, packet, credentialVars>>
             \/ SealPacket /\ UNCHANGED <<label, messageVars, credentialVars>>
             \/ CredentialNext /\ UNCHANGED <<label, messageVars, packet>>

Spec == Init /\ [][Next]_<<tlvVars, others>>
=============================================================================
