---------------------------- MODULE MCInteraction ----------------------------
(* One or two commands, one after the other, against one device. *)
EXTENDS Interaction

MCKeys == SessionKeys
MCNoKey == [run |-> 0, good |-> FALSE]

MCClientMsgs == ControllerMsgs
MCPeerMsgs == DeviceMsgs

(* No message is read without keys once SigmaExchange is one step *)
MCGarbled == {}

(* Alone, and followed by a command that meets late datagrams of the first *)
MCScripts == {<<"subscribe">>, <<"dump">>, <<"open", "invoke">>,
              <<"lookup", "read">>, <<"logs", "invoke">>}

MCOpenScripts == {<<"open">>}
=============================================================================
