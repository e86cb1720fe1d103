------------------------------- MODULE MCFlows -------------------------------
(* Small instances of Flows: one or two library calls against one device. *)
EXTENDS Flows

MCKeys == SessionKeys
MCNoKey == [kind |-> "none", call |-> 0, good |-> FALSE]

MCClientMsgs == ControllerMsgs
MCPeerMsgs == DeviceMsgs

(* Ciphertext of an earlier session read as plain text: the opcode byte    *)
(* may come out as a status report's or an ack's, the protocol id hardly   *)
(* ever as the secure channel's, and the payload is no TLV.                *)
MCGarbled ==
    [op : {"status", "other"}, sec : {FALSE}, ini : {FALSE},
     ex : {<<0, "junk">>}, body : {"junk"}, ack : {0}]
=============================================================================
