--------------------------- MODULE MCSecureChannel ---------------------------
(* A small instance of SecureChannel: any caller, any peer, two sessions. *)
EXTENDS SecureChannel, TLC

(* Which of the two fresh keys is used first makes no difference. *)
KeySymmetry == Permutations(Keys)

Msg(op, sec, ini, ex, body) ==
    [op |-> op, sec |-> sec, ini |-> ini, ex |-> ex, body |-> body, ack |-> 0]

MCClientMsgs == {Msg("request", FALSE, TRUE, <<1, "x">>, "data")}

MCPeerMsgs ==
    { Msg("ack", TRUE, FALSE, <<1, "x">>, "none"),
      Msg("answer", FALSE, FALSE, <<1, "x">>, "data") }

(* Ciphertext read as plain text: any opcode, and a payload that is no TLV *)
MCGarbled ==
    { Msg("other", FALSE, TRUE, <<0, "junk">>, "junk"),
      Msg("ack", TRUE, TRUE, <<0, "junk">>, "junk") }
=============================================================================
