---------------------------- MODULE MCCertManager ----------------------------
(* Small instances of CertManager: two processes at the same time, with    *)
(* users of their own and one device, or one process that only bootstraps. *)
EXTENDS CertManager

OneUser == [p \in Procs |-> {"u1"}]
OneDevice == [p \in Procs |-> {"d1"}]
NoIds == [p \in Procs |-> {}]

(* Each process works on a user of its own; both sign for the same device *)
OwnUser == [p \in Procs |-> {p}]

(* p1 founds the CA, however often it crashes over it, before p2 begins:   *)
(* two bootstraps at the same time break the CA (README.md, section 5).    *)
OneFounder == booted \/ UNCHANGED proc["p2"]
OneFounderSpec == Init /\ [][Next /\ OneFounder]_vars
=============================================================================
