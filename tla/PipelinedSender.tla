---------------------------- MODULE PipelinedSender ----------------------------
(***************************************************************************)
(* What stage 4 promises for one connection: of the messages received, in   *)
(* the order in which they were received, some are sent back, each at most  *)
(* once and never an older one after a younger.  Any number of sends may be *)
(* under way, and any of them may be lost.                                  *)
(***************************************************************************)
EXTENDS Naturals, Sequences

CONSTANT Messages

VARIABLES received,     \* the messages received by the server, in order
          delivered     \* the messages sent on this connection, in order

vars == <<received, delivered>>

Init == /\ received = << >>
        /\ delivered = << >>

Receive == \E m \in Messages : /\ received' = Append(received, m)
                               /\ UNCHANGED delivered

(* The place in received of the last message delivered. *)
Reached == IF delivered = << >>
           THEN 0
           ELSE CHOOSE i \in DOMAIN received : received[i] = delivered[Len(delivered)]

Deliver == /\ \E i \in Reached + 1 .. Len(received) : delivered' = Append(delivered, received[i])
           /\ UNCHANGED received

Next == Receive \/ Deliver

Spec == Init /\ [][Next]_vars
==============================================================================
