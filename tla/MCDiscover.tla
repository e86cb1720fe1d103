----------------------------- MODULE MCDiscover -----------------------------
(* Two interfaces and three answers: one device with two instances (it is  *)
(* on two fabrics), and a device with an open commissioning window.        *)
EXTENDS Discover

MCEntries ==
    { [name |-> "fabric1-node1", host |-> "h1", svc |-> "matter", v4 |-> TRUE, v6 |-> TRUE],
      [name |-> "fabric2-node7", host |-> "h1", svc |-> "matter", v4 |-> FALSE, v6 |-> TRUE],
      [name |-> "window", host |-> "h2", svc |-> "matterc", v4 |-> TRUE, v6 |-> FALSE] }
=============================================================================
