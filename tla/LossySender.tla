----------------------------- MODULE LossySender -----------------------------
(***************************************************************************)
(* What the double send buffer of stage 5 promises to the code above it:    *)
(* packets handed to SendMsg are collected and sent in batches, whole, in   *)
(* order and at most once.  A packet is lost only with everything else      *)
(* collected, when the next one would not fit, or with its whole batch.     *)
(***************************************************************************)
EXTENDS Naturals, Sequences

CONSTANTS Packets,              \* the packets there are, each a sequence of bytes
          MAX_SOCK_SENDBUF

VARIABLES collected,    \* bytes waiting for the next send
          batch,        \* bytes of the send under way
          delivered     \* bytes on the wire

vars == <<collected, batch, delivered>>

Init == /\ collected = << >>
        /\ batch = << >>
        /\ delivered = << >>

Collect(p) == /\ Len(collected) + Len(p) <= MAX_SOCK_SENDBUF
              /\ collected' = collected \o p
              /\ UNCHANGED <<batch, delivered>>

Overflow(p) == /\ Len(collected) + Len(p) > MAX_SOCK_SENDBUF
               /\ collected' = << >>
               /\ UNCHANGED <<batch, delivered>>

Send == /\ batch = << >>
        /\ batch' = collected
        /\ collected' = << >>
        /\ UNCHANGED delivered

Deliver == /\ delivered' = delivered \o batch
           /\ batch' = << >>
           /\ UNCHANGED collected

Lose == /\ batch' = << >>
        /\ UNCHANGED <<collected, delivered>>

Next == \/ \E p \in Packets : Collect(p) \/ Overflow(p)
        \/ Send
        \/ Deliver
        \/ Lose

Spec == Init /\ [][Next]_vars
==============================================================================
