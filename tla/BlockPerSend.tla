----------------------------- MODULE BlockPerSend -----------------------------
(***************************************************************************)
(* Stage 4 of the server: one slot of mClientInfos, the accepter, the       *)
(* workers and the packet thread.  SendMsg copies each packet to a heap     *)
(* block of its own and posts it at once, so that any number of sends may   *)
(* be under way; the worker that takes the completion deletes the block.    *)
(*                                                                          *)
(* A message is named by its block, connections are numbered, and 0 is      *)
(* INVALID_SOCKET.  io[m] says how far the send of m is: not yet posted or  *)
(* done with ("none"), owned by the kernel, on the port as a success        *)
(* ("done") or a failure ("failed"), the failure over and done with         *)
(* ("lost"), sent on a socket that was not bound to the port, which tells   *)
(* nobody ("unreported"), not accepted by WSASend ("refused").              *)
(***************************************************************************)
EXTENDS Naturals, Sequences, Functions

CONSTANTS Messages,   \* what clients may send
          Workers,    \* mIOWorkerThreads
          MaxConn     \* bound: connections accepted for the slot

ASSUME ConnAssumption == MaxConn \in Nat

VARIABLES
    mSock,
    conns,              \* connections accepted so far
    accepter,           \* where AccepterThread is
    bound,              \* connections whose socket is bound to the completion port
    recvIO,             \* receives outstanding on each connection
    worker,             \* what each worker is about to do
    mPacketDataQueue,
    io,                 \* how far each message's send is
    sends,              \* the sends the kernel has for each connection, oldest first
    broken,             \* connections on which a send has failed
    freed,              \* history: blocks deleted, in order
    received,           \* history: messages received, in order
    wire                \* history: messages sent on each connection, in order

slotVars == <<mSock, conns, accepter, bound>>
kernelVars == <<sends, broken, wire>>
vars == <<slotVars, recvIO, worker, mPacketDataQueue, io, kernelVars, freed, received>>

Conns == 1 .. MaxConn

Init == /\ mSock = 0
        /\ conns = 0
        /\ accepter = "search"
        /\ bound = {}
        /\ recvIO = [c \in Conns |-> 0]
        /\ worker = [w \in Workers |-> "wait"]
        /\ mPacketDataQueue = << >>
        /\ io = [m \in Messages |-> "none"]
        /\ sends = [c \in Conns |-> << >>]
        /\ broken = {}
        /\ freed = << >>
        /\ received = << >>
        /\ wire = [c \in Conns |-> << >>]

------------------------------------------------------------------------------
(* AccepterThread.  GetEmptyClientInfo returns this slot if it has no socket *)
(* and no earlier one is free; when all slots have one the thread returns.  *)
GetEmptyClientInfo ==
    /\ accepter = "search"
    /\ accepter' = IF mSock = 0 THEN "accept" ELSE "stopped"
    /\ UNCHANGED <<mSock, conns, bound, recvIO, worker, mPacketDataQueue, io, kernelVars, freed,
                   received>>

(* accept, and onConnect, which shows the new socket to the other threads    *)
(* before it is bound to the port.                                          *)
onConnect ==
    /\ accepter = "accept"
    /\ conns < MaxConn
    /\ conns' = conns + 1
    /\ mSock' = conns'
    /\ accepter' = "bind"
    /\ UNCHANGED <<bound, recvIO, worker, mPacketDataQueue, io, kernelVars, freed, received>>

(* A CreateIoCompletionPort that fails goes unnoticed: it returns NULL, and  *)
(* is tested for INVALID_HANDLE_VALUE.                                      *)
BindIOCompletionPort ==
    /\ accepter = "bind"
    /\ \/ /\ mSock # 0
          /\ bound' = bound \cup {mSock}
       \/ UNCHANGED bound
    /\ accepter' = "bindRecv"
    /\ UNCHANGED <<mSock, conns, recvIO, worker, mPacketDataQueue, io, kernelVars, freed, received>>

(* The first receive.  If it is refused the accepter closes the slot and     *)
(* returns.  Meanwhile a worker may have closed the new socket on account of *)
(* the last one.                                                            *)
BindFirstRecv ==
    /\ accepter = "bindRecv"
    /\ \/ /\ mSock # 0
          /\ recvIO' = [recvIO EXCEPT ![mSock] = @ + 1]
          /\ accepter' = "search"
          /\ UNCHANGED mSock
       \/ /\ mSock' = 0
          /\ accepter' = "stopped"
          /\ UNCHANGED recvIO
    /\ UNCHANGED <<conns, bound, worker, mPacketDataQueue, io, kernelVars, freed, received>>

------------------------------------------------------------------------------
(* WorkerThread.                                                            *)
(* An outstanding receive comes back, on a socket bound to the port. *)
TakeReceive == \E c \in bound : /\ recvIO[c] > 0
                                /\ recvIO' = [recvIO EXCEPT ![c] = @ - 1]

OnReceive(w, m) ==
    /\ worker[w] = "wait"
    /\ m \notin Range(received)
    /\ TakeReceive
    /\ received' = Append(received, m)
    /\ mPacketDataQueue' = Append(mPacketDataQueue, m)
    /\ worker' = [worker EXCEPT ![w] = "bindRecv"]
    /\ UNCHANGED <<slotVars, io, kernelVars, freed>>

(* The next receive; nobody looks at BindRecv's result. *)
BindRecv(w) ==
    /\ worker[w] = "bindRecv"
    /\ \/ /\ mSock # 0
          /\ recvIO' = [recvIO EXCEPT ![mSock] = @ + 1]
       \/ UNCHANGED recvIO
    /\ worker' = [worker EXCEPT ![w] = "wait"]
    /\ UNCHANGED <<slotVars, mPacketDataQueue, io, kernelVars, freed, received>>

(* FreeOldest, DeleteOnlyOpen and, below, PostNewest are wrong on purpose:   *)
(* each is the plausible mistake the properties must notice in the           *)
(* definition after it.                                                     *)
FreeOldest(m) ==
    \E n \in Messages \ Range(freed) :
        /\ \E i \in DOMAIN received :
               received[i] = n /\ \A j \in 1 .. i - 1 : received[j] \in Range(freed)
        /\ freed' = Append(freed, n)

(* The block deleted is the one that completed, found by its overlapped. *)
Free(m) == freed' = Append(freed, m)

DeleteOnlyOpen(w) ==
    /\ worker[w] = "wait"
    /\ \E m \in Messages : /\ io[m] = "done"
                           /\ io' = [io EXCEPT ![m] = "none"]
                           /\ IF mSock # 0 THEN Free(m) ELSE UNCHANGED freed
    /\ UNCHANGED <<slotVars, recvIO, worker, mPacketDataQueue, kernelVars, received>>

TakeSent(w) ==
    /\ worker[w] = "wait"
    /\ \E m \in Messages : /\ io[m] = "done"
                           /\ io' = [io EXCEPT ![m] = "none"]
                           /\ Free(m)
    /\ UNCHANGED <<slotVars, recvIO, worker, mPacketDataQueue, kernelVars, received>>

(* A failed send, or a failed or empty receive: whatever connection it was   *)
(* of, the worker closes the one the slot has.  The block is not deleted.   *)
TakeFailed(w) ==
    /\ worker[w] = "wait"
    /\ \/ /\ \E m \in Messages : /\ io[m] = "failed"
                                 /\ io' = [io EXCEPT ![m] = "lost"]
          /\ UNCHANGED recvIO
       \/ /\ TakeReceive
          /\ UNCHANGED io
    /\ worker' = [worker EXCEPT ![w] = "close"]
    /\ UNCHANGED <<slotVars, mPacketDataQueue, kernelVars, freed, received>>

CloseSocket(w) ==
    /\ worker[w] = "close"
    /\ mSock' = 0
    /\ worker' = [worker EXCEPT ![w] = "wait"]
    /\ UNCHANGED <<conns, accepter, bound, recvIO, mPacketDataQueue, io, kernelVars, freed, received>>

------------------------------------------------------------------------------
(* stClientInfo::SendMsg: a block for the packet, WSASend on it.  A send *)
(* that is refused leaves the block to nobody.                              *)
WSASend(m) == \/ /\ mSock # 0
                 /\ io' = [io EXCEPT ![m] = "kernel"]
                 /\ sends' = [sends EXCEPT ![mSock] = Append(@, m)]
              \/ /\ io' = [io EXCEPT ![m] = "refused"]
                 /\ UNCHANGED sends

PostNewest ==
    /\ mPacketDataQueue # << >>
    /\ mPacketDataQueue' = SubSeq(mPacketDataQueue, 1, Len(mPacketDataQueue) - 1)
    /\ WSASend(mPacketDataQueue[Len(mPacketDataQueue)])
    /\ UNCHANGED <<slotVars, recvIO, worker, broken, wire, freed, received>>

(* ProcessPacket. *)
SendMsg ==
    /\ mPacketDataQueue # << >>
    /\ mPacketDataQueue' = Tail(mPacketDataQueue)
    /\ WSASend(Head(mPacketDataQueue))
    /\ UNCHANGED <<slotVars, recvIO, worker, broken, wire, freed, received>>

------------------------------------------------------------------------------
(* The kernel works on the sends of a connection in the order of the calls;  *)
(* once one has failed the rest do.  What happens on a socket that is not    *)
(* bound to the port, the port does not hear of.                            *)
Complete(c, heard, unheard) ==
    /\ sends[c] # << >>
    /\ io' = [io EXCEPT ![Head(sends[c])] = IF c \in bound THEN heard ELSE unheard]
    /\ sends' = [sends EXCEPT ![c] = Tail(@)]

Transmit(c) ==
    /\ c \notin broken
    /\ Complete(c, "done", "unreported")
    /\ wire' = [wire EXCEPT ![c] = Append(@, Head(sends[c]))]
    /\ UNCHANGED <<slotVars, recvIO, worker, mPacketDataQueue, broken, freed, received>>

FailSend(c) ==
    /\ Complete(c, "failed", "lost")
    /\ broken' = broken \cup {c}
    /\ UNCHANGED <<slotVars, recvIO, worker, mPacketDataQueue, wire, freed, received>>

ReceiveUnheard(c) ==
    /\ c \notin bound
    /\ recvIO[c] > 0
    /\ recvIO' = [recvIO EXCEPT ![c] = @ - 1]
    /\ UNCHANGED <<slotVars, worker, mPacketDataQueue, io, kernelVars, freed, received>>

------------------------------------------------------------------------------
WorkerStep(w) == \/ \E m \in Messages : OnReceive(w, m)
                 \/ BindRecv(w)
                 \/ TakeSent(w)
                 \/ TakeFailed(w)
                 \/ CloseSocket(w)

Next == \/ GetEmptyClientInfo
        \/ onConnect
        \/ BindIOCompletionPort
        \/ BindFirstRecv
        \/ \E w \in Workers : WorkerStep(w)
        \/ SendMsg
        \/ \E c \in Conns : Transmit(c) \/ FailSend(c) \/ ReceiveUnheard(c)

Spec == Init /\ [][Next]_vars

(* The threads run, and the kernel finishes the sends it has taken.  No      *)
(* fairness for clients and accept.                                         *)
FairSpec == /\ Spec
            /\ \A w \in Workers : WF_vars(BindRecv(w) \/ TakeSent(w) \/ CloseSocket(w))
            /\ WF_vars(SendMsg)
            /\ \A c \in Conns : WF_vars(Transmit(c) \/ FailSend(c))

------------------------------------------------------------------------------
(* Every variable keeps the type its C++ field or thread stage gives it. *)
TypeOK ==
    /\ mSock \in 0 .. MaxConn
    /\ conns \in 0 .. MaxConn
    /\ accepter \in {"search", "accept", "bind", "bindRecv", "stopped"}
    /\ bound \subseteq Conns
    /\ recvIO \in [Conns -> Nat]
    /\ worker \in [Workers -> {"wait", "bindRecv", "close"}]
    /\ mPacketDataQueue \in Seq(Messages)
    /\ io \in [Messages -> {"none", "kernel", "done", "failed", "lost", "unreported", "refused"}]
    /\ sends \in [Conns -> Seq(Messages)]
    /\ broken \subseteq Conns
    /\ freed \in Seq(Messages)
    /\ received \in Seq(Messages)
    /\ wire \in [Conns -> Seq(Messages)]

(* With many sends under way and completions taken by any worker in any      *)
(* order, no block is deleted while the kernel has it or its completion is   *)
(* on the port, and none is deleted twice.                                  *)
NoUseAfterFree == /\ \A m \in Range(freed) : io[m] = "none"
                  /\ IsInjective(freed)

DeletedOrLeaked ==
    \A m \in Range(received) \ Range(mPacketDataQueue) :
        io[m] = "none" <=> m \in Range(freed)

FirstHeard == conns <= 1 => \A m \in Messages : io[m] # "unreported"

(* A block that was allocated and is with nobody any more has been deleted,  *)
(* or its send was refused, failed, or completed on a socket not bound to   *)
(* the port: those are never deleted.  The last happens to a packet left    *)
(* over from an earlier connection, sent between mSock = socket_ and         *)
(* BindIOCompletionPort; never on the first connection, whose packets come  *)
(* when its socket is bound.                                                *)
LeaksExplained == DeletedOrLeaked /\ FirstHeard

(* Where a block is: in the queue, with the kernel in one place of one       *)
(* connection's sends, on the port or leaked, or deleted, and only there.   *)
PlaceInv ==
    /\ IsInjective(mPacketDataQueue)
    /\ Range(mPacketDataQueue) \cup Range(freed) \subseteq Range(received)
    /\ Range(mPacketDataQueue) \cap Range(freed) = {}
    /\ \A m \in Messages : io[m] # "none" => m \in Range(received) \ Range(mPacketDataQueue)
    /\ \A c \in Conns : /\ IsInjective(sends[c])
                        /\ \A m \in Range(sends[c]) : io[m] = "kernel"
    /\ \A c, d \in Conns : c # d => Range(sends[c]) \cap Range(sends[d]) = {}

(* A socket that is bound, or has sends, was accepted, and nothing is         *)
(* received before the first one is bound.                                  *)
BoundInv ==
    /\ bound \subseteq 1 .. conns
    /\ mSock <= conns
    /\ \A c \in Conns : sends[c] # << >> => c <= conns
    /\ conns <= 1 /\ 1 \notin bound => received = << >>

(* The inductive invariant of stage 4's sends. *)
PlacesInv == TypeOK /\ PlaceInv /\ NoUseAfterFree /\ DeletedOrLeaked

BlockInv == PlacesInv /\ BoundInv /\ FirstHeard

(* The messages of a connection are on their way in the order of receipt:    *)
(* the last one transmitted, then the sends, then the queue.                *)
Before(r, m, n) == \E i, j \in DOMAIN r : i < j /\ r[i] = m /\ r[j] = n
Ascending(r, q) == \A i, j \in DOMAIN q : i < j => Before(r, q[i], q[j])
LastSent(c) == wire[c][Len(wire[c])]

OrderInv ==
    /\ IsInjective(received)
    /\ Ascending(received, mPacketDataQueue)
    /\ \A c \in Conns :
           /\ Ascending(received, sends[c])
           /\ \A m \in Range(sends[c]), n \in Range(mPacketDataQueue) : Before(received, m, n)
           /\ wire[c] # << >> =>
                 /\ LastSent(c) \in Range(received)
                 /\ \A m \in Range(sends[c]) \cup Range(mPacketDataQueue) :
                        Before(received, LastSent(c), m)

(* Stage 4 keeps the order without stage 6's queue: one packet thread posts  *)
(* in the order of the packets, whichever workers received them, and the     *)
(* order in which completions are taken does not matter.                    *)
Pipe(c) == INSTANCE PipelinedSender WITH delivered <- wire[c]
InOrder == /\ \A c \in Conns : Pipe(c)!Init
           /\ [][\A c \in Conns : [Pipe(c)!Next]_(Pipe(c)!vars)]_vars

(* Every packet is posted and its block deleted, unless the send is refused, *)
(* fails, or completes on a socket not bound to the port; none of these      *)
(* stalls what comes after it (as each does in stage 6).                    *)
FreedOrLeaked ==
    \A m \in Messages :
        m \in Range(mPacketDataQueue)
            ~> m \in Range(freed) \/ io[m] \in {"refused", "failed", "lost", "unreported"}
==============================================================================
