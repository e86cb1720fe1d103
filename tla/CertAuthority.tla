---------------------------- MODULE CertAuthority ----------------------------
(***************************************************************************)
(* What a CertificateManager (certmanager.go) promises, without files,     *)
(* processes or crashes: the fabric's CA key is established once and for   *)
(* all, and the key and certificate that can be retrieved for a node       *)
(* always belong together and are signed with that CA key.  A node's       *)
(* credential may be replaced or become unavailable at any time.           *)
(***************************************************************************)
EXTENDS Naturals

CONSTANTS Nodes

VARIABLES
    ca,    \* the CA key, 0 before it is established
    cred   \* for each node: its key and the key its certificate is signed with

None == [key |-> 0, iss |-> 0]

Init == ca \in Nat /\ cred = [n \in Nodes |-> None]

(* BootstrapCa *)
Establish == ca = 0 /\ ca' \in Nat \ {0} /\ UNCHANGED cred

(* CreateUser: only node n changes, to a pair under the CA's key *)
Issue(n) ==
    /\ ca # 0
    /\ cred'[n].iss = ca
    /\ cred' = [cred EXCEPT ![n] = cred'[n]]
    /\ UNCHANGED ca

(* While it is replaced, or when its replacement was cut short *)
Withdraw(n) == cred' = [cred EXCEPT ![n] = None] /\ UNCHANGED ca

Next == Establish \/ \E n \in Nodes : Issue(n) \/ Withdraw(n)

Spec == Init /\ [][Next]_<<ca, cred>>
=============================================================================
