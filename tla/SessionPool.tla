----------------------------- MODULE SessionPool -----------------------------
(***************************************************************************)
(* Stage 7 of the server: the pool of client slots.  A slot is reused: the  *)
(* accepter thread gives it a socket and posts AcceptEx on it, a worker     *)
(* turns the accept completion into a connection, the connection closes,    *)
(* and RE_USE_SESSION_WAIT_TIMESEc seconds later the accepter posts again.  *)
(* Nothing in a slot says which connection an outstanding completion, a     *)
(* worker or a queued packet belongs to; only the wait keeps those of the   *)
(* last connection away from the next one.                                  *)
(*                                                                          *)
(* The sockets of a slot are numbered 1, 2, ... in the order WSASocket made *)
(* them, and 0 is none.  The number tells them apart; the value the program *)
(* has for one is a handle, which the system gives to a new socket, of any  *)
(* slot, as soon as the old one is closed.                                  *)
(***************************************************************************)
EXTENDS Integers, Sequences

CONSTANTS Slots,        \* mClientInfos
          Workers,      \* mIOWorkerThreads
          NoSlot,       \* no slot: the null pClientInfo
          Handles,      \* the values WSASocket returns
          INVALID_SOCKET,
          RE_USE_SESSION_WAIT_TIMESEc,
          DrainSec,     \* what a close leaves behind is handled in this time
          UINT32_MAX,   \* the closed time of a slot that is not to be reused
          LoadsTwice,   \* the build reads the closed time again at line 208
          MaxTime,      \* bound: the last second of the clock
          MaxGen,       \* bound: WSASocket fails for ever after MaxGen sockets
          MaxPackets    \* bound: packets and sends a slot may have queued

ASSUME SlotAssumption == NoSlot \notin Slots
ASSUME HandleAssumption == INVALID_SOCKET \notin Handles
(* What the wait is for, and all the code relies on: the completions that   *)
(* closesocket aborts, the workers and the packets of a closed connection   *)
(* are done with before the slot is reused.                                 *)
ASSUME TimeAssumption == /\ RE_USE_SESSION_WAIT_TIMESEc \in Nat
                         /\ DrainSec \in 0 .. RE_USE_SESSION_WAIT_TIMESEc
                         /\ MaxTime \in Nat
                         /\ MaxTime > RE_USE_SESSION_WAIT_TIMESEc
                         /\ UINT32_MAX \in Nat
                         /\ UINT32_MAX > MaxTime
ASSUME BoundAssumption == /\ MaxGen \in Nat
                          /\ MaxPackets \in Nat
                          /\ LoadsTwice \in BOOLEAN

VARIABLES
    now,                   \* steady_clock, in seconds
    mIsConnect,            \* the fields of each stClientInfo
    mLatestClosedTimeSec,
    mSocket,               \* which of the slot's sockets is in it,
    handle,                \* and the value it has
    mSendDataqueue,        \* each element is the socket its packet came from
    gen,                   \* sockets made for the slot so far
    sockets,               \* the open socket each handle stands for, or Free
    hit,                   \* history: slots whose socket another slot's Close closed
    acceptIO,              \* the socket the slot's accept overlapped is pending on
    recvIO,                \* the same for its receive, 0 when not pending
    sendIO,                \* the same for the send at the front of its queue
    mPacketDataQueue,      \* EchoServer's queue of received packets
    processThread,         \* the packet the packet thread is about to echo
    worker,                \* what each worker does, for which slot and socket
    accepter,              \* where AccepterThread is, and its local variables
    fault                  \* the first undefined behaviour run into

socketVars == <<mSocket, handle, gen, sockets, hit>>
slotVars == <<mIsConnect, mLatestClosedTimeSec, socketVars>>
ioVars == <<acceptIO, recvIO, sendIO>>
packetVars == <<mPacketDataQueue, processThread>>
vars == <<now, slotVars, mSendDataqueue, ioVars, packetVars, worker, accepter, fault>>

Socks == 0 .. MaxGen
Resting == [at |-> "wait", slot |-> NoSlot, sock |-> 0]
Doing(at, s, k) == [at |-> at, slot |-> s, sock |-> k]
ClosingStages == {"closing", "stamping", "closesocket", "invalidate"}
WorkerStages == {"wait", "accepted", "bindAccepted", "onReceive", "bindRecv",
                 "sendCompleted"} \cup ClosingStages
WorkerStates == [at : WorkerStages, slot : Slots \cup {NoSlot}, sock : Socks]
AccepterStates == [at : {"sleep", "sweep", "time", "diff", "post", "acceptEx"},
                   slot : Slots \cup {NoSlot}, cur : 0 .. MaxTime,
                   seen : 0 .. MaxTime, todo : SUBSET Slots]
Packets == [slot : Slots, sock : Socks]
Free == [slot |-> NoSlot, sock |-> 0]

Init == /\ now = RE_USE_SESSION_WAIT_TIMESEc + 1
        /\ mIsConnect = [s \in Slots |-> FALSE]
        /\ mLatestClosedTimeSec = [s \in Slots |-> 0]
        /\ mSocket = [s \in Slots |-> 0]
        /\ handle = [s \in Slots |-> INVALID_SOCKET]
        /\ gen = [s \in Slots |-> 0]
        /\ sockets = [h \in Handles |-> Free]
        /\ hit = {}
        /\ mSendDataqueue = [s \in Slots |-> << >>]
        /\ acceptIO = [s \in Slots |-> 0]
        /\ recvIO = [s \in Slots |-> 0]
        /\ sendIO = [s \in Slots |-> 0]
        /\ mPacketDataQueue = << >>
        /\ processThread = Resting
        /\ worker = [w \in Workers |-> Resting]
        /\ accepter = [at |-> "sleep", slot |-> NoSlot, cur |-> 0, seen |-> 0, todo |-> {}]
        /\ fault = "none"

(* A received packet of slot s waits for the packet thread. *)
Queued(s) == \E i \in 1 .. Len(mPacketDataQueue) : mPacketDataQueue[i].slot = s

(* Something of slot s's connection is still to be handled. *)
Busy(s) == \/ recvIO[s] # 0
           \/ sendIO[s] # 0
           \/ \E w \in Workers : worker[w].slot = s
           \/ processThread.slot = s
           \/ Queued(s)

(* What the handle in the slot's mSocket stands for by now: the slot's own    *)
(* socket, or that of another slot, if the own has been closed.             *)
IsOpen(s) == mSocket[s] # 0 /\ sockets[handle[s]] = [slot |-> s, sock |-> mSocket[s]]
Foreign(s) == mSocket[s] # 0 /\ sockets[handle[s]] # Free /\ ~ IsOpen(s)

(* A call on the slot's socket that does not do what it should. *)
Misused(s) == IF Foreign(s) THEN "foreignSocket" ELSE fault

(* After undefined behaviour, or a call on another slot's socket, nothing is *)
(* known, and the model stops.                                              *)
Running == fault = "none"

(* A second passes; DrainSec is kept for every closed slot. *)
Tick ==
    /\ Running
    /\ now < MaxTime
    /\ \A s \in Slots : mLatestClosedTimeSec[s] # UINT32_MAX /\ Busy(s)
                            => now < mLatestClosedTimeSec[s] + DrainSec
    /\ now' = now + 1
    /\ UNCHANGED <<slotVars, mSendDataqueue, ioVars, packetVars, worker, accepter, fault>>

------------------------------------------------------------------------------
(* AccepterThread, line by line, because nothing locks the fields it reads. *)
AccepterLeavesAlone == UNCHANGED <<now, mIsConnect, mSendDataqueue, recvIO, sendIO,
                                   packetVars, worker>>

(* The time is read once for the whole sweep. *)
StartSweep ==
    /\ Running
    /\ accepter.at = "sleep"
    /\ accepter' = [accepter EXCEPT !.at = "sweep", !.cur = now, !.todo = Slots]
    /\ AccepterLeavesAlone
    /\ UNCHANGED <<mLatestClosedTimeSec, socketVars, acceptIO, fault>>

EndSweep ==
    /\ Running
    /\ accepter.at = "sweep"
    /\ accepter.todo = {}
    /\ accepter' = [accepter EXCEPT !.at = "sleep", !.cur = 0]
    /\ AccepterLeavesAlone
    /\ UNCHANGED <<mLatestClosedTimeSec, socketVars, acceptIO, fault>>

CheckConnected(s) ==
    /\ Running
    /\ accepter.at = "sweep"
    /\ s \in accepter.todo
    /\ accepter' = [accepter EXCEPT !.todo = @ \ {s},
                                    !.at = IF mIsConnect[s] THEN "sweep" ELSE "time",
                                    !.slot = IF mIsConnect[s] THEN NoSlot ELSE s]
    /\ AccepterLeavesAlone
    /\ UNCHANGED <<mLatestClosedTimeSec, socketVars, acceptIO, fault>>

(* Back to the sweep: `continue`, or the end of the loop body. *)
NextSlot == [accepter EXCEPT !.at = "sweep", !.slot = NoSlot, !.seen = 0]

(* Closed later than cur, or UINT32_MAX: being opened, connected, or lost.   *)
(* NeverInUse, and below WaitedOneLess, RepostBeforeCopy, CloseNoStamp and   *)
(* KeepSocket, are wrong on purpose: the plausible mistakes the properties   *)
(* must notice in the definition that follows each.                         *)
NeverInUse(cur, closed) == FALSE
InUse(cur, closed) == cur < closed

CheckClosedTime(s) ==
    /\ Running
    /\ accepter.at = "time" /\ accepter.slot = s
    /\ accepter' = IF InUse(accepter.cur, mLatestClosedTimeSec[s])
                     THEN NextSlot
                     ELSE [accepter EXCEPT !.at = "diff", !.seen = mLatestClosedTimeSec[s]]
    /\ AccepterLeavesAlone
    /\ UNCHANGED <<mLatestClosedTimeSec, socketVars, acceptIO, fault>>

(* The unsigned difference: a closed time later than cur wraps to a huge one. *)
WaitedOneLess(cur, closed) ==
    \/ cur < closed
    \/ cur - closed >= RE_USE_SESSION_WAIT_TIMESEc

WaitedLongEnough(cur, closed) ==
    \/ cur < closed
    \/ cur - closed > RE_USE_SESSION_WAIT_TIMESEc

CheckWait(s) ==
    /\ Running
    /\ accepter.at = "diff" /\ accepter.slot = s
    /\ LET closed == IF LoadsTwice THEN mLatestClosedTimeSec[s] ELSE accepter.seen
       IN  accepter' = IF WaitedLongEnough(accepter.cur, closed)
                         THEN [accepter EXCEPT !.at = "post"]
                         ELSE NextSlot
    /\ AccepterLeavesAlone
    /\ UNCHANGED <<mLatestClosedTimeSec, socketVars, acceptIO, fault>>

(* PostAccept up to WSASocket.  A failure leaves the slot marked as in use. *)
PostAccept(s) ==
    /\ Running
    /\ accepter.at = "post" /\ accepter.slot = s
    /\ mLatestClosedTimeSec' = [mLatestClosedTimeSec EXCEPT ![s] = UINT32_MAX]
    /\ \/ /\ gen[s] < MaxGen
          /\ gen' = [gen EXCEPT ![s] = @ + 1]
          /\ mSocket' = [mSocket EXCEPT ![s] = gen[s] + 1]
          /\ \E h \in Handles :
                /\ sockets[h] = Free
                /\ sockets' = [sockets EXCEPT ![h] = [slot |-> s, sock |-> gen[s] + 1]]
                /\ handle' = [handle EXCEPT ![s] = h]
          /\ hit' = hit \ {s}
          /\ accepter' = [accepter EXCEPT !.at = "acceptEx"]
       \/ /\ mSocket' = [mSocket EXCEPT ![s] = 0]
          /\ handle' = [handle EXCEPT ![s] = INVALID_SOCKET]
          /\ accepter' = NextSlot
          /\ UNCHANGED <<gen, sockets, hit>>
    /\ AccepterLeavesAlone
    /\ UNCHANGED <<acceptIO, fault>>

(* The rest of PostAccept: clear the accept context, post AcceptEx.  A      *)
(* failure leaves the slot with its socket and no accept pending.           *)
AcceptEx(s) ==
    /\ Running
    /\ accepter.at = "acceptEx" /\ accepter.slot = s
    /\ accepter' = NextSlot
    /\ \/ /\ IsOpen(s)
          /\ acceptIO' = [acceptIO EXCEPT ![s] = mSocket[s]]
       \/ UNCHANGED acceptIO
    /\ fault' = IF acceptIO[s] # 0 THEN "acceptOverlap" ELSE Misused(s)
    /\ AccepterLeavesAlone
    /\ UNCHANGED <<mLatestClosedTimeSec, socketVars>>

------------------------------------------------------------------------------
(* GetQueuedCompletionStatus: a worker takes a completion from the port.  A *)
(* completion is taken whenever the kernel may have produced it, also after *)
(* closesocket, as a success or as a failure.                               *)
WorkerLeavesAlone == UNCHANGED <<now, accepter>>

TakeAccept(w, s) ==
    /\ Running
    /\ worker[w].at = "wait"
    /\ acceptIO[s] # 0
    /\ acceptIO' = [acceptIO EXCEPT ![s] = 0]
    /\ worker' = [worker EXCEPT ![w] = Doing("accepted", s, acceptIO[s])]
    /\ WorkerLeavesAlone
    /\ UNCHANGED <<mIsConnect, mLatestClosedTimeSec, socketVars, mSendDataqueue, recvIO,
                   sendIO, packetVars, fault>>

(* A failed accept carries the listen socket's completion key, which is 0:  *)
(* CloseSocket is called with a null pClientInfo.                           *)
TakeFailedAccept(w, s) ==
    /\ Running
    /\ worker[w].at = "wait"
    /\ acceptIO[s] # 0
    /\ acceptIO' = [acceptIO EXCEPT ![s] = 0]
    /\ fault' = "nullClient"
    /\ WorkerLeavesAlone
    /\ UNCHANGED <<mIsConnect, mLatestClosedTimeSec, socketVars, mSendDataqueue, recvIO,
                   sendIO, packetVars, worker>>

(* Clients send only while there is room for another packet (MaxPackets). *)
RoomFor(s) == Len(mPacketDataQueue) + Len(mSendDataqueue[s]) < MaxPackets

RepostBeforeCopy(w, s) ==
    /\ Running
    /\ worker[w].at = "wait"
    /\ recvIO[s] # 0
    /\ RoomFor(s)
    /\ worker' = [worker EXCEPT ![w] = Doing("onReceive", s, recvIO[s])]
    /\ WorkerLeavesAlone
    /\ UNCHANGED <<slotVars, mSendDataqueue, ioVars, packetVars, fault>>

TakeReceive(w, s) ==
    /\ Running
    /\ worker[w].at = "wait"
    /\ recvIO[s] # 0
    /\ RoomFor(s)
    /\ recvIO' = [recvIO EXCEPT ![s] = 0]
    /\ worker' = [worker EXCEPT ![w] = Doing("onReceive", s, recvIO[s])]
    /\ WorkerLeavesAlone
    /\ UNCHANGED <<mIsConnect, mLatestClosedTimeSec, socketVars, mSendDataqueue, acceptIO,
                   sendIO, packetVars, fault>>

TakeSent(w, s) ==
    /\ Running
    /\ worker[w].at = "wait"
    /\ sendIO[s] # 0
    /\ sendIO' = [sendIO EXCEPT ![s] = 0]
    /\ worker' = [worker EXCEPT ![w] = Doing("sendCompleted", s, sendIO[s])]
    /\ WorkerLeavesAlone
    /\ UNCHANGED <<mIsConnect, mLatestClosedTimeSec, socketVars, mSendDataqueue, acceptIO,
                   recvIO, packetVars, fault>>

(* The peer is gone or the socket was closed: an empty or failed receive. *)
TakeFailedReceive(w, s) ==
    /\ Running
    /\ worker[w].at = "wait"
    /\ recvIO[s] # 0
    /\ recvIO' = [recvIO EXCEPT ![s] = 0]
    /\ worker' = [worker EXCEPT ![w] = Doing("closing", s, recvIO[s])]
    /\ WorkerLeavesAlone
    /\ UNCHANGED <<mIsConnect, mLatestClosedTimeSec, socketVars, mSendDataqueue, acceptIO,
                   sendIO, packetVars, fault>>

(* A failed send also closes the connection; its block stays in the queue. *)
TakeFailedSend(w, s) ==
    /\ Running
    /\ worker[w].at = "wait"
    /\ sendIO[s] # 0
    /\ sendIO' = [sendIO EXCEPT ![s] = 0]
    /\ worker' = [worker EXCEPT ![w] = Doing("closing", s, sendIO[s])]
    /\ WorkerLeavesAlone
    /\ UNCHANGED <<mIsConnect, mLatestClosedTimeSec, socketVars, mSendDataqueue, acceptIO,
                   recvIO, packetVars, fault>>

------------------------------------------------------------------------------
(* What the worker does with it.                                            *)
At(w, at, s) == worker[w].at = at /\ worker[w].slot = s
GoesTo(w, at) == worker' = [worker EXCEPT ![w].at = at]
Done(w) == worker' = [worker EXCEPT ![w] = Resting]

(* Acceptcompletion, OnConnect: the slot is connected on its own socket. *)
OnConnect(w, s) ==
    /\ Running
    /\ At(w, "accepted", s)
    /\ mIsConnect' = [mIsConnect EXCEPT ![s] = TRUE]
    /\ GoesTo(w, "bindAccepted")
    /\ WorkerLeavesAlone
    /\ UNCHANGED <<mLatestClosedTimeSec, socketVars, mSendDataqueue, ioVars, packetVars, fault>>

(* WSARecv on the slot's socket with its only receive overlapped and buffer. *)
PostReceive(s) ==
    /\ IsOpen(s)
    /\ recvIO' = [recvIO EXCEPT ![s] = mSocket[s]]
    /\ fault' = IF recvIO[s] # 0 THEN "recvOverlap" ELSE fault

ReceiveRefused(s) == UNCHANGED recvIO /\ fault' = Misused(s)

(* OnConnect goes on: bind to the port, first receive; if that fails,       *)
(* CloseSocket(true).                                                       *)
BindAccepted(w, s) ==
    /\ Running
    /\ At(w, "bindAccepted", s)
    /\ \/ /\ PostReceive(s)
          /\ Done(w)
       \/ /\ ReceiveRefused(s)
          /\ GoesTo(w, "closing")
    /\ WorkerLeavesAlone
    /\ UNCHANGED <<mIsConnect, mLatestClosedTimeSec, socketVars, mSendDataqueue, acceptIO,
                   sendIO, packetVars>>

(* OnReceive copies the receive buffer into a packet named after the slot. *)
OnReceive(w, s) ==
    /\ Running
    /\ At(w, "onReceive", s)
    /\ mPacketDataQueue' = Append(mPacketDataQueue, [slot |-> s, sock |-> worker[w].sock])
    /\ GoesTo(w, "bindRecv")
    /\ WorkerLeavesAlone
    /\ UNCHANGED <<mIsConnect, mLatestClosedTimeSec, socketVars, mSendDataqueue, ioVars,
                   processThread, fault>>

(* BindRecv after it; nobody looks at its result. *)
BindRecv(w, s) ==
    /\ Running
    /\ At(w, "bindRecv", s)
    /\ PostReceive(s) \/ ReceiveRefused(s)
    /\ Done(w)
    /\ WorkerLeavesAlone
    /\ UNCHANGED <<mIsConnect, mLatestClosedTimeSec, socketVars, mSendDataqueue, acceptIO,
                   sendIO, packetVars>>

(* Close, in the order of its assignments.  Nothing keeps another worker or *)
(* the accepter out between them.  shutdown comes first and makes the kernel *)
(* fail what it has on the socket, which it may do at any time.             *)
CloseIsConnect(w, s) ==
    /\ Running
    /\ At(w, "closing", s)
    /\ mIsConnect' = [mIsConnect EXCEPT ![s] = FALSE]
    /\ GoesTo(w, "stamping")
    /\ WorkerLeavesAlone
    /\ UNCHANGED <<mLatestClosedTimeSec, socketVars, mSendDataqueue, ioVars, packetVars, fault>>

CloseNoStamp(w, s) ==
    /\ Running
    /\ At(w, "stamping", s)
    /\ GoesTo(w, "closesocket")
    /\ WorkerLeavesAlone
    /\ UNCHANGED <<slotVars, mSendDataqueue, ioVars, packetVars, fault>>

CloseStamp(w, s) ==
    /\ Running
    /\ At(w, "stamping", s)
    /\ mLatestClosedTimeSec' = [mLatestClosedTimeSec EXCEPT ![s] = now]
    /\ GoesTo(w, "closesocket")
    /\ WorkerLeavesAlone
    /\ UNCHANGED <<mIsConnect, socketVars, mSendDataqueue, ioVars, packetVars, fault>>

(* closesocket closes whatever socket the handle stands for by now. *)
closesocket(w, s) ==
    /\ Running
    /\ At(w, "closesocket", s)
    /\ IF mSocket[s] = 0
       THEN UNCHANGED <<sockets, hit>>
       ELSE /\ sockets' = [sockets EXCEPT ![handle[s]] = Free]
            /\ hit' = hit \cup ({sockets[handle[s]].slot} \ {s, NoSlot})
    /\ GoesTo(w, "invalidate")
    /\ WorkerLeavesAlone
    /\ UNCHANGED <<mIsConnect, mLatestClosedTimeSec, mSocket, handle, gen, mSendDataqueue, ioVars,
                   packetVars, fault>>

KeepSocket(w, s) ==
    /\ Running
    /\ At(w, "invalidate", s)
    /\ Done(w)
    /\ WorkerLeavesAlone
    /\ UNCHANGED <<slotVars, mSendDataqueue, ioVars, packetVars, fault>>

InvalidateSocket(w, s) ==
    /\ Running
    /\ At(w, "invalidate", s)
    /\ mSocket' = [mSocket EXCEPT ![s] = 0]
    /\ handle' = [handle EXCEPT ![s] = INVALID_SOCKET]
    /\ Done(w)
    /\ WorkerLeavesAlone
    /\ UNCHANGED <<mIsConnect, mLatestClosedTimeSec, gen, sockets, hit, mSendDataqueue, ioVars,
                   packetVars, fault>>

------------------------------------------------------------------------------
(* The send queue; SendQueue has the interleavings inside its lock, here    *)
(* each holder runs at once.  SendIO sends the front of the queue q.        *)
SendIO(s) ==
    \/ /\ IsOpen(s)
       /\ sendIO' = [sendIO EXCEPT ![s] = mSocket[s]]
       /\ UNCHANGED fault
    \/ /\ UNCHANGED sendIO
       /\ fault' = Misused(s)

SendCompleted(w, s) ==
    /\ Running
    /\ At(w, "sendCompleted", s)
    /\ mSendDataqueue[s] # << >>
    /\ mSendDataqueue' = [mSendDataqueue EXCEPT ![s] = Tail(@)]
    /\ IF Tail(mSendDataqueue[s]) # << >> THEN SendIO(s) ELSE UNCHANGED <<sendIO, fault>>
    /\ Done(w)
    /\ WorkerLeavesAlone
    /\ UNCHANGED <<slotVars, acceptIO, recvIO, packetVars>>

(* ProcessPacket: DequePacketData, then SendMsg to the packet's slot,       *)
(* whoever is connected there by then.                                      *)
DequePacketData ==
    /\ Running
    /\ processThread.at = "wait"
    /\ mPacketDataQueue # << >>
    /\ mPacketDataQueue' = Tail(mPacketDataQueue)
    /\ processThread' = Doing("sendMsg", Head(mPacketDataQueue).slot,
                              Head(mPacketDataQueue).sock)
    /\ UNCHANGED <<now, slotVars, mSendDataqueue, ioVars, worker, accepter, fault>>

SendMsg(s) ==
    /\ Running
    /\ processThread.slot = s
    /\ mSendDataqueue' = [mSendDataqueue EXCEPT ![s] = Append(@, processThread.sock)]
    /\ IF mSendDataqueue[s] = << >> THEN SendIO(s) ELSE UNCHANGED <<sendIO, fault>>
    /\ processThread' = Resting
    /\ UNCHANGED <<now, slotVars, acceptIO, recvIO, mPacketDataQueue, worker, accepter>>

------------------------------------------------------------------------------
AccepterStep == \/ StartSweep
                \/ EndSweep
                \/ \E s \in Slots : \/ CheckConnected(s)
                                    \/ CheckClosedTime(s)
                                    \/ CheckWait(s)
                                    \/ PostAccept(s)
                                    \/ AcceptEx(s)

(* What peers and the network decide: no worker has to see it happen. *)
TakeStep(w, s) == \/ TakeAccept(w, s)
                  \/ TakeFailedAccept(w, s)
                  \/ TakeReceive(w, s)
                  \/ TakeSent(w, s)
                  \/ TakeFailedReceive(w, s)
                  \/ TakeFailedSend(w, s)

WorkerStep(w, s) == \/ OnConnect(w, s)
                    \/ BindAccepted(w, s)
                    \/ OnReceive(w, s)
                    \/ BindRecv(w, s)
                    \/ CloseIsConnect(w, s)
                    \/ CloseStamp(w, s)
                    \/ closesocket(w, s)
                    \/ InvalidateSocket(w, s)
                    \/ SendCompleted(w, s)

ProcessStep == DequePacketData \/ \E s \in Slots : SendMsg(s)

Next == \/ Tick
        \/ AccepterStep
        \/ \E w \in Workers, s \in Slots : TakeStep(w, s) \/ WorkerStep(w, s)
        \/ ProcessStep

Spec == Init /\ [][Next]_vars

(* Threads run, the clock runs, and what the kernel holds on a closed socket *)
(* comes back.  The port is a queue: strong fairness, because a worker gets  *)
(* to that completion however many others come.                             *)
WasClosed(s, k) == \A h \in Handles : sockets[h] # [slot |-> s, sock |-> k]
Abort(s) == \E w \in Workers : \/ WasClosed(s, recvIO[s]) /\ TakeFailedReceive(w, s)
                               \/ WasClosed(s, sendIO[s]) /\ TakeFailedSend(w, s)

Fairness == /\ WF_vars(Tick)
            /\ WF_vars(AccepterStep)
            /\ WF_vars(ProcessStep)
            /\ \A w \in Workers : WF_vars(\E s \in Slots : WorkerStep(w, s))
            /\ \A s \in Slots : SF_vars(Abort(s))

FairSpec == Spec /\ Fairness

------------------------------------------------------------------------------
(* Every field, overlapped block and thread stage has its type, and a slot   *)
(* that has a socket has a handle for it.                                   *)
TypeOK ==
    /\ now \in 0 .. MaxTime
    /\ mIsConnect \in [Slots -> BOOLEAN]
    /\ mLatestClosedTimeSec \in [Slots -> 0 .. MaxTime \cup {UINT32_MAX}]
    /\ mSocket \in [Slots -> Socks]
    /\ handle \in [Slots -> Handles \cup {INVALID_SOCKET}]
    /\ gen \in [Slots -> Socks]
    /\ sockets \in [Handles -> [slot : Slots \cup {NoSlot}, sock : Socks]]
    /\ hit \subseteq Slots
    /\ \A s \in Slots : mSocket[s] # 0 => handle[s] \in Handles
    /\ mSendDataqueue \in [Slots -> Seq(Socks)]
    /\ acceptIO \in [Slots -> Socks]
    /\ recvIO \in [Slots -> Socks]
    /\ sendIO \in [Slots -> Socks]
    /\ mPacketDataQueue \in Seq(Packets)
    /\ processThread \in [at : {"wait", "sendMsg"}, slot : Slots \cup {NoSlot}, sock : Socks]
    /\ worker \in [Workers -> WorkerStates]
    /\ accepter \in AccepterStates
    /\ fault \in {"none", "nullClient", "acceptOverlap", "recvOverlap", "foreignSocket"}

(* A slot has one accept and one receive overlapped block: neither is handed *)
(* to the kernel while the kernel still has it.                             *)
OverlappedExclusive == fault \notin {"acceptOverlap", "recvOverlap"}

(* While OnReceive copies a slot's receive buffer, no receive is filling it, *)
(* and no other worker is copying it.                                       *)
ReceiveBufferExclusive ==
    \A s \in Slots, v, w \in Workers :
        At(v, "onReceive", s) => /\ recvIO[s] = 0
                                 /\ At(w, "onReceive", s) => v = w

OnSlot(w, s, stages) == worker[w].slot = s /\ worker[w].at \in stages

(* A close begun for one connection never closes the socket of a later one   *)
(* of its slot, although Close works on whatever the slot has when it gets   *)
(* there.  It may close another slot's socket, but only when its own has     *)
(* been closed before it: by a second worker that closes the same connection *)
(* and has not yet set mSocket, or by another slot's Close gone wrong so.    *)
NoStaleClose ==
    \A s \in Slots, w \in Workers :
        OnSlot(w, s, ClosingStages) /\ mSocket[s] # 0 =>
            /\ mSocket[s] = worker[w].sock
            /\ \/ IsOpen(s)
               \/ \E v \in Workers : OnSlot(v, s, {"invalidate"})
               \/ s \in hit

(* When the accepter posts on a slot again, everything of its last           *)
(* connection is gone: no overlapped operation, no worker in it, no packet  *)
(* on the way to it, and no open socket to leak.                            *)
ReusedWhenDrained ==
    \A s \in Slots : accepter.at = "post" /\ accepter.slot = s
                        => /\ ~ Busy(s)
                           /\ acceptIO[s] = 0
                           /\ \A h \in Handles : sockets[h].slot # s

(* A slot is reused only when more than RE_USE_SESSION_WAIT_TIMESEc seconds  *)
(* have passed since its latest close.                                      *)
ReuseWaits ==
    \A s \in Slots : accepter.at = "post" /\ accepter.slot = s
                        => now > mLatestClosedTimeSec[s] + RE_USE_SESSION_WAIT_TIMESEc

(* What goes out on a connection is what came in on it: the send under way   *)
(* on a socket carries a packet received from that socket.                  *)
EchoToOrigin ==
    \A s \in Slots : sendIO[s] # 0 => /\ mSendDataqueue[s] # << >>
                                      /\ Head(mSendDataqueue[s]) = sendIO[s]

(* A slot is free (closed, or never used), being opened, or connected, and   *)
(* a closed one becomes connected only through a new accept.                *)
ConnectsOnlyNewest ==
    [][\A s \in Slots : ~ mIsConnect[s] /\ mIsConnect'[s]
            => /\ mSocket[s] = gen[s]
               /\ mLatestClosedTimeSec[s] = UINT32_MAX
               /\ ~ \E w \in Workers : /\ worker[w].slot = s
                                       /\ worker[w].sock < gen[s]]_vars

(* PostAccept failed on the slot (WSASocket or AcceptEx): it is marked as in  *)
(* use and nobody uses it.                                                  *)
Lost(s) == /\ mLatestClosedTimeSec[s] = UINT32_MAX
           /\ ~ mIsConnect[s]
           /\ acceptIO[s] = 0
           /\ ~ Busy(s)
           /\ ~ (accepter.at = "acceptEx" /\ accepter.slot = s)

(* What PostAccept's early returns cost: the closed time they leave at       *)
(* UINT32_MAX keeps the accepter away from the slot for good, so the server *)
(* has one client less until it is restarted.                               *)
LostForEver == [][\A s \in Slots : Lost(s) => Lost(s)']_vars

(* A connection that closes gives its slot back: the accepter posts on it    *)
(* again, unless it closed too late for the bounded clock.                  *)
ClosedIsReposted ==
    \A s \in Slots :
        (\E w \in Workers : At(w, "closing", s))
            ~> \/ accepter.at = "post" /\ accepter.slot = s
               \/ /\ mLatestClosedTimeSec[s] # UINT32_MAX
                  /\ mLatestClosedTimeSec[s] + RE_USE_SESSION_WAIT_TIMESEc >= MaxTime
               \/ fault # "none"

------------------------------------------------------------------------------
(* Why the wait is enough: the invariant every step keeps, for builds that   *)
(* read the closed time once (~LoadsTwice).                                 *)
Closed(s) == mLatestClosedTimeSec[s] # UINT32_MAX

(* All the packets waiting for slot s came from its newest socket. *)
PacketsOfNewest(s) ==
    \A i \in 1 .. Len(mPacketDataQueue) :
        mPacketDataQueue[i].slot = s => mPacketDataQueue[i].sock = gen[s]

(* So did all the blocks of its send queue, and there are some. *)
SendsOfNewest(s) ==
    /\ mSendDataqueue[s] # << >>
    /\ \A i \in 1 .. Len(mSendDataqueue[s]) : mSendDataqueue[s][i] = gen[s]

(* Everything there is about a slot is about its newest socket. *)
OneGeneration(s) ==
    /\ mSocket[s] \in {0, gen[s]}
    /\ acceptIO[s] \in {0, gen[s]}
    /\ recvIO[s] \in {0, gen[s]}
    /\ sendIO[s] \in {0, gen[s]}
    /\ \A w \in Workers : worker[w].slot = s => worker[w].sock = gen[s]
    /\ processThread.slot = s => processThread.sock = gen[s]
    /\ PacketsOfNewest(s)

(* A slot is connected only while its closed time says "in use"; a close     *)
(* stamps only after it has cleared the connected flag, and a stamped slot   *)
(* has no socket once its closes are through.                               *)
ClosedInv(s) ==
    /\ mIsConnect[s] => ~ Closed(s)
    /\ \A w \in Workers : /\ OnSlot(w, s, {"stamping", "closesocket", "invalidate"}) => ~ mIsConnect[s]
                          /\ OnSlot(w, s, {"closesocket", "invalidate"}) => Closed(s)
    /\ Closed(s) => /\ mLatestClosedTimeSec[s] <= now
                    /\ Busy(s) => now <= mLatestClosedTimeSec[s] + DrainSec
                    /\ \/ mSocket[s] = 0
                       \/ \E w \in Workers : OnSlot(w, s, {"closesocket", "invalidate"})

(* While a slot is being opened there is one party doing it (the accepter,   *)
(* the pending accept, the worker that took it) and nothing else about it.  *)
OpeningInv(s) ==
    /\ accepter.at = "acceptEx" /\ accepter.slot = s =>
           ~ Closed(s) /\ ~ mIsConnect[s] /\ ~ Busy(s) /\ acceptIO[s] = 0
    /\ acceptIO[s] # 0 =>
           ~ Closed(s) /\ ~ mIsConnect[s] /\ ~ Busy(s) /\ mSocket[s] = gen[s]
    /\ \A w \in Workers : OnSlot(w, s, {"accepted", "bindAccepted"}) =>
           /\ ~ Closed(s) /\ acceptIO[s] = 0 /\ recvIO[s] = 0 /\ sendIO[s] = 0
           /\ mSocket[s] = gen[s]
           /\ \A v \in Workers : worker[v].slot = s => v = w
           /\ processThread.slot # s
           /\ ~ Queued(s)

(* The right to use the receive block and buffer is with one party. *)
ReceiveInv(s) ==
    \A v, w \in Workers :
        OnSlot(v, s, {"onReceive", "bindRecv"}) =>
            /\ recvIO[s] = 0
            /\ OnSlot(w, s, {"onReceive", "bindRecv"}) => v = w

(* A send under way, or completed and not yet popped, is the queue's front,  *)
(* and the whole queue is of this connection.                               *)
SendInv(s) ==
    /\ \/ sendIO[s] # 0
       \/ \E w \in Workers : OnSlot(w, s, {"sendCompleted"})
       => SendsOfNewest(s)
    /\ \A v, w \in Workers :
        OnSlot(v, s, {"sendCompleted"}) =>
            /\ sendIO[s] = 0
            /\ OnSlot(w, s, {"sendCompleted"}) => v = w

(* Once the accepter has seen a closed time old enough, nobody is left to    *)
(* change it.                                                               *)
AccepterInv ==
    /\ accepter.cur <= now
    /\ accepter.at \in {"sleep", "sweep"} <=> accepter.slot = NoSlot
    /\ accepter.at = "diff" => accepter.seen <= accepter.cur
    /\ \A s \in Slots :
           /\ /\ accepter.at = "diff" /\ accepter.slot = s
              /\ accepter.cur - accepter.seen > RE_USE_SESSION_WAIT_TIMESEc
              => ~ Busy(s) /\ mLatestClosedTimeSec[s] = accepter.seen
           /\ accepter.at = "post" /\ accepter.slot = s
              => /\ ~ Busy(s)
                 /\ mLatestClosedTimeSec[s] + RE_USE_SESSION_WAIT_TIMESEc < now

SlotInv(s) == /\ OneGeneration(s)
              /\ ClosedInv(s)
              /\ OpeningInv(s)
              /\ ReceiveInv(s)
              /\ SendInv(s)

(* The lives of a slot, told apart by the numbers of its sockets. *)
LivesInv == /\ TypeOK
            /\ OverlappedExclusive
            /\ AccepterInv
            /\ \A s \in Slots : SlotInv(s)

(* An open socket of the slot is the one in its mSocket, and a worker that   *)
(* has called closesocket leaves none.  A handle that has outlived its       *)
(* socket is about to go, or another slot's Close is to blame.              *)
SocketInv(s) ==
    /\ \A h \in Handles : sockets[h].slot = s =>
           /\ mSocket[s] = gen[s]
           /\ handle[s] = h
           /\ sockets[h] = [slot |-> s, sock |-> gen[s]]
           /\ gen[s] # 0
           /\ \A w \in Workers : ~ OnSlot(w, s, {"invalidate"})
    /\ mSocket[s] # 0 => \/ IsOpen(s)
                         \/ \E w \in Workers : OnSlot(w, s, {"invalidate"})
                         \/ s \in hit

PoolInv == LivesInv /\ \A s \in Slots : SocketInv(s)
==============================================================================
