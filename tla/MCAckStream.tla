----------------------------- MODULE MCAckStream -----------------------------
(* The small instance of Flows with one Commission call and endless acks. *)
EXTENDS MCFlows, AckStream
=============================================================================
