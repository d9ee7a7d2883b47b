---------------------------- MODULE OrderedSender ----------------------------
(***************************************************************************)
(* What the per-session send queue promises to the code above it           *)
(* (stClientInfo::SendMsg in stages 6 and 7 of the server): messages        *)
(* handed over for one session reach the peer one at a time, in the order   *)
(* they were handed over, none skipped and none repeated.  Nothing is said  *)
(* about how far the delivery gets: a dead connection may stop it anywhere. *)
(***************************************************************************)
EXTENDS Naturals, Sequences

CONSTANT Messages

VARIABLES submitted,    \* the messages handed to SendMsg, in order
          delivered     \* the messages the network has taken, in order

vars == <<submitted, delivered>>

Init == /\ submitted = << >>
        /\ delivered = << >>

Submit == \E m \in Messages :
              /\ submitted' = Append(submitted, m)
              /\ UNCHANGED delivered

Deliver == /\ Len(delivered) < Len(submitted)
           /\ delivered' = Append(delivered, submitted[Len(delivered) + 1])
           /\ UNCHANGED submitted

Next == Submit \/ Deliver

Spec == Init /\ [][Next]_vars
==============================================================================
