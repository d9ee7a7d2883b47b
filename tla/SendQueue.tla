------------------------------ MODULE SendQueue ------------------------------
(***************************************************************************)
(* Stage 6 of the server: one session, its outgoing queue of overlapped     *)
(* sends, the worker threads that drain the completion port, the packet     *)
(* thread that echoes and the accepter thread.  One session is the whole of *)
(* the stage: its GetEmptyClientInfo looks at the first slot only.          *)
(*                                                                          *)
(* A message is named by the heap block (stOverlappedEx) that carries it.   *)
(* io[m] says how far its send is: not started or block freed ("none"),     *)
(* owned by the kernel ("kernel"), on the completion port as a success      *)
(* ("done") or a failure ("failed"), the success handed to a worker         *)
(* ("reported"), the failure over and done with ("lost"), sent on a socket  *)
(* that was not bound to the port, which tells nobody ("unreported"), never *)
(* accepted by WSASend ("refused").                                         *)
(***************************************************************************)
EXTENDS Naturals, Sequences, Functions

CONSTANTS Messages,   \* the packets clients may send
          Workers,    \* the I/O worker threads
          MaxConn,    \* bound: how many connections are accepted
          Free,       \* mSendLock is not held
          Sender      \* the packet thread, as a holder of mSendLock

ASSUME ConnAssumption == MaxConn \in Nat
ASSUME ThreadAssumption == /\ Free \notin Workers
                           /\ Sender \notin Workers
                           /\ Free # Sender

VARIABLES
    mSock,              \* 0 for INVALID_SOCKET, else the connection's number
    conns,              \* connections accepted so far
    accepter,           \* where AccepterThread is
    bound,              \* connections whose socket is bound to the completion port
    recvIO,             \* receives outstanding on each connection
    mPacketDataQueue,   \* packets on their way from the workers to the packet thread
    mSendDataqueue,     \* the session's outgoing queue
    mSendLock,          \* the holder of its mutex
    io,                 \* how far each message's send is
    sentOn,             \* the connection a send the kernel owns is on, else 0
    worker,             \* the stage of each worker
    processThread,      \* the stage of the packet thread
    submitted,          \* history: messages pushed on mSendDataqueue, in order
    delivered,          \* history: messages the network has taken, in order
    freed               \* history: blocks deleted, in order

netVars == <<mSock, conns, accepter, bound, recvIO>>
queueVars == <<mSendDataqueue, mSendLock, io, sentOn, submitted, freed>>
threadVars == <<worker, processThread, mPacketDataQueue>>
vars == <<netVars, queueVars, threadVars, delivered>>

Conns == 1 .. MaxConn
WorkerStages == {"wait", "bindRecv", "complete", "popped", "close"}
IOStates == {"none", "kernel", "done", "reported", "failed", "lost", "unreported", "refused"}

(* A message a client has not sent yet: in no queue of the server. *)
Unsent(m) == m \notin Range(mPacketDataQueue) \cup Range(submitted)

Init == /\ mSock = 0
        /\ conns = 0
        /\ accepter = "search"
        /\ bound = {}
        /\ recvIO = [c \in Conns |-> 0]
        /\ mPacketDataQueue = << >>
        /\ mSendDataqueue = << >>
        /\ mSendLock = Free
        /\ io = [m \in Messages |-> "none"]
        /\ sentOn = [m \in Messages |-> 0]
        /\ worker = [w \in Workers |-> "wait"]
        /\ processThread = "wait"
        /\ submitted = << >>
        /\ delivered = << >>
        /\ freed = << >>

------------------------------------------------------------------------------
(* AccepterThread.  With the only slot connected the search fails and the   *)
(* thread returns for good.                                                 *)
GetEmptyClientInfo ==
    /\ accepter = "search"
    /\ accepter' = IF mSock = 0 THEN "accept" ELSE "stopped"
    /\ UNCHANGED <<mSock, conns, bound, recvIO, queueVars, threadVars, delivered>>

(* accept returns a connection, and OnConnect shows it to the other threads  *)
(* before its socket is bound to the port.                                  *)
OnConnect ==
    /\ accepter = "accept"
    /\ conns < MaxConn
    /\ conns' = conns + 1
    /\ mSock' = conns'
    /\ accepter' = "bind"
    /\ UNCHANGED <<bound, recvIO, queueVars, threadVars, delivered>>

(* A CreateIoCompletionPort that fails goes unnoticed: it returns NULL, and  *)
(* is tested for INVALID_HANDLE_VALUE.                                      *)
BindIOCompletionPort ==
    /\ accepter = "bind"
    /\ \/ /\ mSock # 0
          /\ bound' = bound \cup {mSock}
       \/ UNCHANGED bound
    /\ accepter' = "bindRecv"
    /\ UNCHANGED <<mSock, conns, recvIO, queueVars, threadVars, delivered>>

(* The first receive.  If it is refused, Close(true), and the thread returns. *)
BindFirstRecv ==
    /\ accepter = "bindRecv"
    /\ \/ /\ mSock # 0
          /\ recvIO' = [recvIO EXCEPT ![mSock] = @ + 1]
          /\ accepter' = "search"
          /\ UNCHANGED mSock
       \/ /\ mSock' = 0
          /\ accepter' = "stopped"
          /\ UNCHANGED recvIO
    /\ UNCHANGED <<conns, bound, queueVars, threadVars, delivered>>

------------------------------------------------------------------------------
(* The pieces SendMsg and SendCompleted share.  NoLock, AnythingQueued,      *)
(* MoreThanOne and, below, ReceiveInvented are wrong on purpose: each is the *)
(* plausible mistake the properties must notice in the definition after it. *)
NoLock == TRUE
LockIsFree == mSendLock = Free

AnythingQueued == Len(mSendDataqueue) >= 1
NothingUnderWay == Len(mSendDataqueue) = 1

MoreThanOne == Len(mSendDataqueue) > 1
MoreToSend == mSendDataqueue # << >>

(* WSASend on the front block: the kernel takes it, or refuses, as it always *)
(* does for a closed socket; SendIO returns false then and nobody looks.    *)
SendIO ==
    \/ /\ mSock # 0
       /\ io' = [io EXCEPT ![Head(mSendDataqueue)] = "kernel"]
       /\ sentOn' = [sentOn EXCEPT ![Head(mSendDataqueue)] = mSock]
    \/ /\ io' = [io EXCEPT ![Head(mSendDataqueue)] = "refused"]
       /\ UNCHANGED sentOn

------------------------------------------------------------------------------
(* WorkerThread, one disjunct per kind of completion.                       *)

(* One of the outstanding receives comes back, on a socket bound to the port. *)
ReceiveInvented == \E c \in Conns : recvIO' = [recvIO EXCEPT ![c] = @ - 1]
ReceiveTaken == \E c \in bound : /\ recvIO[c] > 0
                                 /\ recvIO' = [recvIO EXCEPT ![c] = @ - 1]

(* A receive came back with data: OnReceive copies it to the packet queue. *)
OnReceive(w, m) ==
    /\ worker[w] = "wait"
    /\ Unsent(m)
    /\ ReceiveTaken
    /\ mPacketDataQueue' = Append(mPacketDataQueue, m)
    /\ worker' = [worker EXCEPT ![w] = "bindRecv"]
    /\ UNCHANGED <<mSock, conns, accepter, bound, queueVars, processThread, delivered>>

(* BindRecv posts the next receive, or fails and nobody looks at the result. *)
BindRecv(w) ==
    /\ worker[w] = "bindRecv"
    /\ \/ /\ mSock # 0
          /\ recvIO' = [recvIO EXCEPT ![mSock] = @ + 1]
       \/ UNCHANGED recvIO
    /\ worker' = [worker EXCEPT ![w] = "wait"]
    /\ UNCHANGED <<mSock, conns, accepter, bound, queueVars, processThread,
                   mPacketDataQueue, delivered>>

(* A receive came back empty or failed. *)
TakeDisconnect(w) ==
    /\ worker[w] = "wait"
    /\ ReceiveTaken
    /\ worker' = [worker EXCEPT ![w] = "close"]
    /\ UNCHANGED <<mSock, conns, accepter, bound, queueVars, processThread,
                   mPacketDataQueue, delivered>>

(* A send completed: the worker is about to call SendCompleted. *)
TakeSent(w) ==
    /\ worker[w] = "wait"
    /\ \E m \in Messages : /\ io[m] = "done"
                           /\ io' = [io EXCEPT ![m] = "reported"]
    /\ worker' = [worker EXCEPT ![w] = "complete"]
    /\ UNCHANGED <<netVars, mSendDataqueue, mSendLock, sentOn, submitted, freed,
                   processThread, mPacketDataQueue, delivered>>

(* A send failed: the worker closes the session; the block stays queued. *)
TakeFailed(w) ==
    /\ worker[w] = "wait"
    /\ \E m \in Messages : /\ io[m] = "failed"
                           /\ io' = [io EXCEPT ![m] = "lost"]
    /\ worker' = [worker EXCEPT ![w] = "close"]
    /\ UNCHANGED <<netVars, mSendDataqueue, mSendLock, sentOn, submitted, freed,
                   processThread, mPacketDataQueue, delivered>>

(* Close; it neither takes mSendLock nor touches mSendDataqueue. *)
Close(w) ==
    /\ worker[w] = "close"
    /\ mSock' = 0
    /\ worker' = [worker EXCEPT ![w] = "wait"]
    /\ UNCHANGED <<conns, accepter, bound, recvIO, queueVars, processThread,
                   mPacketDataQueue, delivered>>

(* SendCompleted takes the lock, deletes the front block and pops it, without *)
(* asking whether the kernel still owns that block.                         *)
SendCompleted(w) ==
    /\ worker[w] = "complete"
    /\ LockIsFree
    /\ mSendDataqueue # << >>
    /\ mSendLock' = w
    /\ io' = [io EXCEPT ![Head(mSendDataqueue)] = IF @ = "reported" THEN "none" ELSE @]
    /\ freed' = Append(freed, Head(mSendDataqueue))
    /\ mSendDataqueue' = Tail(mSendDataqueue)
    /\ worker' = [worker EXCEPT ![w] = "popped"]
    /\ UNCHANGED <<netVars, sentOn, submitted, processThread, mPacketDataQueue, delivered>>

(* Still in SendCompleted: start the next send if there is one, unlock. *)
SendNext(w) ==
    /\ worker[w] = "popped"
    /\ IF MoreToSend THEN SendIO ELSE UNCHANGED <<io, sentOn>>
    /\ mSendLock' = Free
    /\ worker' = [worker EXCEPT ![w] = "wait"]
    /\ UNCHANGED <<netVars, mSendDataqueue, submitted, freed, processThread,
                   mPacketDataQueue, delivered>>

------------------------------------------------------------------------------
(* ProcessPacket takes the oldest packet and calls SendMsg, which takes the  *)
(* lock and pushes.                                                         *)
SendMsg ==
    /\ processThread = "wait"
    /\ mPacketDataQueue # << >>
    /\ LockIsFree
    /\ mSendLock' = Sender
    /\ mPacketDataQueue' = Tail(mPacketDataQueue)
    /\ mSendDataqueue' = Append(mSendDataqueue, Head(mPacketDataQueue))
    /\ submitted' = Append(submitted, Head(mPacketDataQueue))
    /\ processThread' = "pushed"
    /\ UNCHANGED <<netVars, io, sentOn, freed, worker, delivered>>

(* Still in SendMsg: start a send if the queue was empty, unlock. *)
SendFirst ==
    /\ processThread = "pushed"
    /\ IF NothingUnderWay THEN SendIO ELSE UNCHANGED <<io, sentOn>>
    /\ mSendLock' = Free
    /\ processThread' = "wait"
    /\ UNCHANGED <<netVars, mSendDataqueue, submitted, freed, worker,
                   mPacketDataQueue, delivered>>

------------------------------------------------------------------------------
(* The kernel finishes a send: the bytes are on the wire, or they are lost.  *)
(* What happens on a socket that is not bound to the port, the port does not *)
(* hear of.                                                                 *)
Finish(m, heard, unheard) ==
    /\ io[m] = "kernel"
    /\ io' = [io EXCEPT ![m] = IF sentOn[m] \in bound THEN heard ELSE unheard]
    /\ sentOn' = [sentOn EXCEPT ![m] = 0]
    /\ UNCHANGED <<netVars, mSendDataqueue, mSendLock, submitted, freed, threadVars>>

Transmit(m) == /\ Finish(m, "done", "unreported")
               /\ delivered' = Append(delivered, m)

Fail(m) == /\ Finish(m, "failed", "lost")
           /\ UNCHANGED delivered

ReceiveUnheard(c) ==
    /\ c \notin bound
    /\ recvIO[c] > 0
    /\ recvIO' = [recvIO EXCEPT ![c] = @ - 1]
    /\ UNCHANGED <<mSock, conns, accepter, bound, queueVars, threadVars, delivered>>

WorkerStep(w) == \/ \E m \in Messages : OnReceive(w, m)
                 \/ BindRecv(w)
                 \/ TakeDisconnect(w)
                 \/ TakeSent(w)
                 \/ TakeFailed(w)
                 \/ Close(w)
                 \/ SendCompleted(w)
                 \/ SendNext(w)

Next == \/ GetEmptyClientInfo
        \/ OnConnect
        \/ BindIOCompletionPort
        \/ BindFirstRecv
        \/ \E w \in Workers : WorkerStep(w)
        \/ SendMsg
        \/ SendFirst
        \/ \E m \in Messages : Transmit(m) \/ Fail(m)
        \/ \E c \in Conns : ReceiveUnheard(c)

Spec == Init /\ [][Next]_vars

(* The threads run, and the kernel finishes what it owns.  No fairness for *)
(* what the peer decides (OnReceive, TakeDisconnect) nor for accept.       *)
Fairness ==
    /\ \A w \in Workers : /\ WF_vars(TakeSent(w))
                          /\ WF_vars(TakeFailed(w))
                          /\ WF_vars(BindRecv(w) \/ Close(w) \/ SendNext(w))
                          /\ WF_vars(SendCompleted(w))
    /\ WF_vars(SendMsg)
    /\ WF_vars(SendFirst)
    /\ \A m \in Messages : WF_vars(Transmit(m) \/ Fail(m))

FairSpec == Spec /\ Fairness

------------------------------------------------------------------------------
(* Every variable keeps the type its C++ field or thread stage gives it. *)
TypeOK ==
    /\ mSock \in 0 .. MaxConn
    /\ conns \in 0 .. MaxConn
    /\ accepter \in {"search", "accept", "bind", "bindRecv", "stopped"}
    /\ bound \subseteq Conns
    /\ recvIO \in [Conns -> Nat]
    /\ mPacketDataQueue \in Seq(Messages)
    /\ mSendDataqueue \in Seq(Messages)
    /\ mSendLock \in Workers \cup {Sender, Free}
    /\ io \in [Messages -> IOStates]
    /\ sentOn \in [Messages -> 0 .. MaxConn]
    /\ worker \in [Workers -> WorkerStages]
    /\ processThread \in {"wait", "pushed"}
    /\ submitted \in Seq(Messages)
    /\ delivered \in Seq(Messages)
    /\ freed \in Seq(Messages)

(* At most one send of the session is under way, and it is the one at the   *)
(* front of mSendDataqueue: the `size() == 1` test of SendMsg and the        *)
(* `empty()` test of SendCompleted hand the one permission to send over      *)
(* without ever duplicating it.                                             *)
OneSendAtATime ==
    \A m \in Messages :
        io[m] # "none" => /\ mSendDataqueue # << >>
                         /\ m = Head(mSendDataqueue)

(* SendCompleted deletes mSendDataqueue.front(), whatever completed: when a  *)
(* worker is about to call it, the front exists and is the very block whose  *)
(* completion the port reported.                                            *)
FreesWhatCompleted ==
    \A w \in Workers :
        worker[w] = "complete" => /\ mSendDataqueue # << >>
                                  /\ io[Head(mSendDataqueue)] = "reported"

(* The kernel never works on a block that has been deleted. *)
NoUseAfterFree ==
    \A m \in Messages : io[m] \in {"kernel", "done", "failed"} => m \notin Range(freed)

(* The queue's promise: delivery in submission order, nothing skipped or     *)
(* repeated, across disconnections and reconnections.                       *)
Abstract == INSTANCE OrderedSender
InOrder == Abstract!Spec

(* As long as the queue is not stalled (see below), somebody is about to move *)
(* the front of the queue: SendMsg relies on the completion of the send in  *)
(* progress, SendCompleted on the next push, and no interleaving of the two *)
(* lets both rely on the other.                                             *)
NothingForgotten ==
    mSendDataqueue # << >> =>
        \/ io[Head(mSendDataqueue)] \notin {"none", "reported"}
        \/ /\ io[Head(mSendDataqueue)] = "reported"
           /\ \E w \in Workers : worker[w] = "complete"
        \/ /\ io[Head(mSendDataqueue)] = "none"
           /\ \/ \E w \in Workers : worker[w] = "popped"
              \/ processThread = "pushed" /\ Len(mSendDataqueue) = 1

(* The front send has failed, was refused, or was made on a socket not bound *)
(* to the port: the queue waits for a completion that will never come.      *)
Stalled ==
    /\ mSendDataqueue # << >>
    /\ io[Head(mSendDataqueue)] \in {"refused", "lost", "unreported"}

(* What Close and OnConnect do not repair: once a send has failed, or has     *)
(* gone unreported because a packet left over from the last connection was  *)
(* sent between mSock = socket_ and BindIOCompletionPort, the queue stays    *)
(* stalled, on later connections too: SendMsg starts a send only on an empty *)
(* queue, and only a completed send pops it.                                *)
StaysStalled == [][Stalled => Stalled']_vars

(* Every packet received is delivered, unless the queue stalls first. *)
EchoedOrStalled ==
    \A m \in Messages :
        m \in Range(mPacketDataQueue) ~> (m \in Range(delivered) \/ Stalled)

------------------------------------------------------------------------------
(* Why the promise holds: what each step preserves.                         *)

(* mSendLock is held exactly by the thread between its change of the queue   *)
(* and the end of its SendIO.                                               *)
LockInv == /\ processThread = "pushed" <=> mSendLock = Sender
           /\ \A w \in Workers : worker[w] = "popped" <=> mSendLock = w

(* The permission to send the front block is with one party at most: the    *)
(* kernel and the port, the worker about to call SendCompleted, or the      *)
(* thread that has just popped, or pushed on an empty queue.                *)
OnePermission ==
    /\ \/ \E w \in Workers : worker[w] = "popped"
       \/ processThread = "pushed" /\ Len(mSendDataqueue) = 1
       => /\ \A m \in Messages : io[m] = "none"
          /\ \A w \in Workers : worker[w] # "complete"
    /\ processThread = "pushed" => mSendDataqueue # << >>
    /\ \A v, w \in Workers :
           worker[v] = "complete" /\ worker[w] = "complete" => v = w

(* A block is pushed once, deleted once, in the order of the pushes; what   *)
(* the network has taken runs ahead of what is deleted by one at most.      *)
HistoryInv ==
    /\ submitted = freed \o mSendDataqueue
    /\ delivered = IF /\ mSendDataqueue # << >>
                      /\ io[Head(mSendDataqueue)] \in {"done", "reported", "unreported"}
                     THEN Append(freed, Head(mSendDataqueue))
                     ELSE freed
    /\ IsInjective(submitted \o mPacketDataQueue)

(* On the first connection every send is heard of: until its socket is bound *)
(* no packet comes in that could be sent.                                   *)
FirstHeard ==
    /\ bound \subseteq 1 .. conns
    /\ mSock <= conns
    /\ \A m \in Messages : io[m] = "kernel" => sentOn[m] \in 1 .. conns
    /\ conns <= 1 => /\ 1 \notin bound => mPacketDataQueue = << >> /\ submitted = << >>
                     /\ \A m \in Messages : io[m] # "unreported"

QueueInv == /\ TypeOK
            /\ LockInv
            /\ OneSendAtATime
            /\ FreesWhatCompleted
            /\ OnePermission
            /\ NothingForgotten
            /\ HistoryInv

SendQueueInv == QueueInv /\ FirstHeard
==============================================================================
