------------------------------ MODULE AckStream ------------------------------
(***************************************************************************)
(* Flows against a device that may send standalone acks without end.       *)
(*                                                                         *)
(* Receive calls itself after every standalone ack (securechannel.go:126), *)
(* and the call sets a new read deadline (line 81).  The datagrams of      *)
(* Flows are counted, so the stream is a step of its own here: Receive     *)
(* reads one more ack, and all that changes is the deadline.               *)
(***************************************************************************)
EXTENDS Flows

VARIABLE
    deadline  \* the read deadlines Receive has set anew, modulo 2

streamVars == <<vars, deadline>>

-----------------------------------------------------------------------------
(* An ack that Receive can open, in the clear or under its session: it is  *)
(* skipped, and the next read has 3 s again.                               *)
RenewDeadline ==
    /\ InReceive /\ Reading
    /\ sc.key \in dev.keys \cup {NoKey}
    /\ deadline' = 1 - deadline
    /\ UNCHANGED vars

StreamInit == Init /\ deadline = 0

StreamNext == (Next /\ UNCHANGED deadline) \/ RenewDeadline

(* The process is scheduled, and ReadFrom comes back at its deadline if    *)
(* not before: as long as no ack sets a new one again and again.  Nobody   *)
(* promises that: an ack every two seconds is fair.                        *)
StreamSpec ==
    /\ StreamInit
    /\ [][StreamNext]_streamVars
    /\ \/ WF_streamVars(Controller /\ UNCHANGED deadline)
       \/ []<><<RenewDeadline>>_streamVars

-----------------------------------------------------------------------------
(* Properties *)

(* Every library call returns, whatever is lost, late, repeated, garbled   *)
(* or refused, unless standalone acks come in for ever: they are the only  *)
(* thing that can keep a Receive waiting, for no call sets a deadline as a *)
(* whole.                                                                  *)
EveryCallReturns ==
    \/ pc # "idle" ~> pc = "idle"
    \/ []<><<RenewDeadline>>_streamVars
=============================================================================
