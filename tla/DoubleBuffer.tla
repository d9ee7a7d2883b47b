----------------------------- MODULE DoubleBuffer -----------------------------
(***************************************************************************)
(* Stage 5 of the server: one session of the pool.  The packet thread       *)
(* collects echoes in mSendBuf; the send thread polls the session, copies   *)
(* what was collected to mSendingBuf and sends that, one send at a time.    *)
(* mSendLock covers SendMsg and the sending half of SendIO, but not the     *)
(* test before it, nor SendCompleted in the workers, nor Clear in the       *)
(* accepter thread.                                                         *)
(*                                                                          *)
(* The session's connections are numbered; 0 is INVALID_SOCKET.  A byte of  *)
(* a message is the pair of the message and its place in it.                *)
(***************************************************************************)
EXTENDS Naturals, Sequences, SequencesExt

CONSTANTS Messages,            \* the packets clients may send
          Size,                \* the length of each, at most MAX_SOCKBUF
          MAX_SOCK_SENDBUF,
          Workers,             \* mIOWorkerThreads
          Nothing,             \* no message; a byte nobody wrote yet
          MaxConn,             \* bound: connections accepted for the session
          MaxPackets           \* bound: packets in the server or echoed, at once

ASSUME NothingAssumption == Nothing \notin Messages
ASSUME SizeAssumption == /\ MAX_SOCK_SENDBUF \in Nat
                         /\ Size \in [Messages -> 1 .. MAX_SOCK_SENDBUF]
ASSUME ConnAssumption == MaxConn \in Nat \ {0}
ASSUME PacketAssumption == MaxPackets \in Nat

VARIABLES
    mSock,              \* the session's socket
    conns,              \* connections accepted for it so far
    accepter,           \* where AccepterThread is
    recvIO,             \* the connection its receive overlapped is pending on
    mPacketDataQueue,
    mSendLock,
    mIsSending,
    mSendPos,
    mSendBuf,
    mSendingBuf,
    sendIO,             \* the send overlapped: connection, length and progress
    worker,             \* what each worker does, for a completion of which connection
    processThread,      \* where the packet thread is in SendMsg, with its locals
    sendThread,         \* where SendThread is in SendIO
    wire,               \* history: the bytes sent on each connection
    fault               \* the first undefined behaviour run into

sessionVars == <<mSock, conns, accepter>>
recvVars == <<recvIO, mPacketDataQueue>>
sendVars == <<mSendLock, mIsSending, mSendPos, mSendBuf, mSendingBuf>>
ioVars == <<sendIO, wire>>
vars == <<sessionVars, recvVars, sendVars, ioVars, worker, processThread, sendThread, fault>>

Conns == 1 .. MaxConn
Socks == 0 .. MaxConn
Byte == (Messages \X (1 .. MAX_SOCK_SENDBUF)) \cup {Nothing}
Buffers == [1 .. MAX_SOCK_SENDBUF -> Byte]
NoIO == [sock |-> 0, len |-> 0, is |-> "none"]
Resting == [at |-> "wait", sock |-> 0]
NoMsg == [at |-> "wait", msg |-> Nothing, pos |-> 0]

Init == /\ mSock = 0 /\ conns = 0 /\ accepter = "search"
        /\ recvIO = 0 /\ mPacketDataQueue = << >>
        /\ mSendLock = "free" /\ mIsSending = FALSE /\ mSendPos = 0
        /\ mSendBuf = [i \in 1 .. MAX_SOCK_SENDBUF |-> Nothing]
        /\ mSendingBuf = [i \in 1 .. MAX_SOCK_SENDBUF |-> Nothing]
        /\ sendIO = NoIO /\ wire = [c \in Conns |-> << >>]
        /\ worker = [w \in Workers |-> Resting]
        /\ processThread = NoMsg
        /\ sendThread = "poll"
        /\ fault = "none"

(* After undefined behaviour nothing is known, and the model stops. *)
Running == fault = "none"

(* WSARecv with the session's only receive overlapped. *)
PostReceive == /\ mSock # 0
               /\ recvIO' = mSock
               /\ fault' = IF recvIO # 0 THEN "recvOverlap" ELSE fault

------------------------------------------------------------------------------
(* AccepterThread.  The session may be the one GetEmptyClientInfo returns    *)
(* whenever it has no socket; the others are other sessions' business.      *)
GetEmptyClientInfo ==
    /\ Running
    /\ accepter = "search"
    /\ mSock = 0
    /\ accepter' = "accept"
    /\ UNCHANGED <<mSock, conns, recvVars, sendVars, ioVars, worker, processThread, sendThread,
                   fault>>

(* OnConnect makes the session connected before it clears it, *)
OnConnect ==
    /\ Running
    /\ accepter = "accept"
    /\ conns < MaxConn
    /\ conns' = conns + 1
    /\ mSock' = conns'
    /\ accepter' = "clearPos"
    /\ UNCHANGED <<recvVars, sendVars, ioVars, worker, processThread, sendThread, fault>>

(* and clears it without mSendLock. *)
ClearPos ==
    /\ Running
    /\ accepter = "clearPos"
    /\ mSendPos' = 0
    /\ accepter' = "clearSending"
    /\ UNCHANGED <<mSock, conns, recvVars, mSendLock, mIsSending, mSendBuf, mSendingBuf, ioVars,
                   worker, processThread, sendThread, fault>>

ClearSending ==
    /\ Running
    /\ accepter = "clearSending"
    /\ mIsSending' = FALSE
    /\ accepter' = "bind"
    /\ UNCHANGED <<mSock, conns, recvVars, mSendLock, mSendPos, mSendBuf, mSendingBuf, ioVars,
                   worker, processThread, sendThread, fault>>

(* Port and first receive; if either fails, Close and the thread returns. *)
Bind ==
    /\ Running
    /\ accepter = "bind"
    /\ \/ /\ PostReceive
          /\ accepter' = "search"
          /\ UNCHANGED mSock
       \/ /\ mSock' = 0
          /\ accepter' = "stopped"
          /\ UNCHANGED <<recvIO, fault>>
    /\ UNCHANGED <<conns, mPacketDataQueue, sendVars, ioVars, worker, processThread, sendThread>>

------------------------------------------------------------------------------
(* WokerThread, one disjunct per kind of completion.                        *)
WorkerLeavesAlone == UNCHANGED <<conns, accepter, processThread, sendThread>>

(* A message a client has not sent yet. *)
Unsent(m) == /\ m \notin Range(mPacketDataQueue)
             /\ processThread.msg # m
             /\ \A i \in 1 .. MAX_SOCK_SENDBUF : mSendBuf[i] # <<m, 1>>
             /\ \A i \in 1 .. MAX_SOCK_SENDBUF : mSendingBuf[i] # <<m, 1>>
             /\ \A c \in Conns : \A i \in 1 .. Len(wire[c]) : wire[c][i] # <<m, 1>>

(* Bounds what clients send to a few packets at a time. *)
MoreToCome == Cardinality({m \in Messages : ~ Unsent(m)}) < MaxPackets

(* A receive came back with data: OnReceive queues a copy, *)
OnReceive(w, m) ==
    /\ Running
    /\ worker[w].at = "wait"
    /\ recvIO # 0
    /\ Unsent(m) /\ MoreToCome
    /\ recvIO' = 0
    /\ mPacketDataQueue' = Append(mPacketDataQueue, m)
    /\ worker' = [worker EXCEPT ![w] = [at |-> "bindRecv", sock |-> recvIO]]
    /\ WorkerLeavesAlone
    /\ UNCHANGED <<mSock, sendVars, ioVars, fault>>

(* and BindRecv posts the next receive; nobody looks at its result. *)
BindRecv(w) ==
    /\ Running
    /\ worker[w].at = "bindRecv"
    /\ PostReceive \/ UNCHANGED <<recvIO, fault>>
    /\ worker' = [worker EXCEPT ![w] = Resting]
    /\ WorkerLeavesAlone
    /\ UNCHANGED <<mSock, mPacketDataQueue, sendVars, ioVars>>

(* A receive came back empty or failed: the session is to be closed. *)
TakeDisconnect(w) ==
    /\ Running
    /\ worker[w].at = "wait"
    /\ recvIO # 0
    /\ recvIO' = 0
    /\ worker' = [worker EXCEPT ![w] = [at |-> "close", sock |-> recvIO]]
    /\ WorkerLeavesAlone
    /\ UNCHANGED <<mSock, mPacketDataQueue, sendVars, ioVars, fault>>

(* A send came back.  A failed one, and one of no bytes, count as a *)
(* disconnection.                                                           *)
TakeSent(w) ==
    /\ Running
    /\ worker[w].at = "wait"
    /\ sendIO.is \in {"done", "failed"}
    /\ sendIO' = NoIO
    /\ LET at == IF sendIO.is = "done" /\ sendIO.len > 0 THEN "sendCompleted" ELSE "close"
       IN  worker' = [worker EXCEPT ![w] = [at |-> at, sock |-> sendIO.sock]]
    /\ WorkerLeavesAlone
    /\ UNCHANGED <<mSock, recvVars, sendVars, wire, fault>>

SendCompleted(w) ==
    /\ Running
    /\ worker[w].at = "sendCompleted"
    /\ mIsSending' = FALSE
    /\ worker' = [worker EXCEPT ![w] = Resting]
    /\ WorkerLeavesAlone
    /\ UNCHANGED <<mSock, recvVars, mSendLock, mSendPos, mSendBuf, mSendingBuf, ioVars, fault>>

Close(w) ==
    /\ Running
    /\ worker[w].at = "close"
    /\ mSock' = 0
    /\ worker' = [worker EXCEPT ![w] = Resting]
    /\ WorkerLeavesAlone
    /\ UNCHANGED <<recvVars, sendVars, ioVars, fault>>

------------------------------------------------------------------------------
(* SendMsg, called by the packet thread only.                               *)
SenderLeavesAlone == UNCHANGED <<sessionVars, recvIO, mIsSending, mSendingBuf, ioVars, worker,
                                 sendThread>>

(* Unlocked, OverflowsLate and, below, HasAnything, HasTwo, MaySend and       *)
(* SubtractSent are wrong on purpose: each is the plausible mistake the      *)
(* properties must notice in the definition after it.                        *)
Unlocked == TRUE
LockIsFree == mSendLock = "free"

OverflowsLate(size) == mSendPos + size > MAX_SOCK_SENDBUF + 1
Overflows(size) == mSendPos + size > MAX_SOCK_SENDBUF

(* The next packet: if it does not fit, what was collected is given up. *)
SendMsg ==
    /\ Running
    /\ processThread.at = "wait"
    /\ mPacketDataQueue # << >>
    /\ LockIsFree
    /\ mSendLock' = "SendMsg"
    /\ mPacketDataQueue' = Tail(mPacketDataQueue)
    /\ processThread' = [at |-> "copy", msg |-> Head(mPacketDataQueue), pos |-> 0]
    /\ mSendPos' = IF Overflows(Size[Head(mPacketDataQueue)]) THEN 0 ELSE mSendPos
    /\ SenderLeavesAlone
    /\ UNCHANGED <<mSendBuf, fault>>

(* The copy, to wherever mSendPos points by now. *)
CopyMsg ==
    /\ Running
    /\ processThread.at = "copy"
    /\ LET m == processThread.msg
           written == mSendPos + 1 .. mSendPos + Size[m]
       IN  /\ mSendBuf' = [i \in DOMAIN mSendBuf |->
                              IF i \in written THEN <<m, i - mSendPos>> ELSE mSendBuf[i]]
           /\ fault' = IF written \subseteq DOMAIN mSendBuf THEN fault ELSE "overrun"
    /\ processThread' = [processThread EXCEPT !.at = "add", !.pos = mSendPos]
    /\ SenderLeavesAlone
    /\ UNCHANGED <<mPacketDataQueue, mSendLock, mSendPos>>

(* mSendPos += dataSize_: the old value may have been read before or after a *)
(* Clear that came in between.                                              *)
AddSize ==
    /\ Running
    /\ processThread.at = "add"
    /\ \E pos \in {processThread.pos, mSendPos} : mSendPos' = pos + Size[processThread.msg]
    /\ mSendLock' = "free"
    /\ processThread' = NoMsg
    /\ SenderLeavesAlone
    /\ UNCHANGED <<mPacketDataQueue, mSendBuf, fault>>

------------------------------------------------------------------------------
(* SendThread: the tests of IsConnectd and SendIO, one field at a time.     *)
PollLeavesAlone == UNCHANGED <<sessionVars, recvVars, worker, processThread>>

HasAnything == FALSE
HasTwo == mSendPos <= 1
NothingCollected == mSendPos = 0

MaySend == FALSE
MayNotSend == mIsSending

Poll ==
    /\ Running
    /\ \/ sendThread = "poll" /\ sendThread' = IF mSock = 0 THEN "poll" ELSE "checkPos"
       \/ /\ sendThread = "checkPos"
          /\ sendThread' = IF NothingCollected THEN "poll" ELSE "checkSending"
       \/ /\ sendThread = "checkSending"
          /\ sendThread' = IF MayNotSend THEN "poll" ELSE "lock"
    /\ PollLeavesAlone
    /\ UNCHANGED <<sendVars, ioVars, fault>>

(* SendIO goes on under the lock: mIsSending, the copy, *)
SendIO ==
    /\ Running
    /\ sendThread = "lock"
    /\ LockIsFree
    /\ mSendLock' = "SendIO"
    /\ mIsSending' = TRUE
    /\ sendThread' = "copy"
    /\ PollLeavesAlone
    /\ UNCHANGED <<mSendPos, mSendBuf, mSendingBuf, ioVars, fault>>

CopyCollected ==
    /\ Running
    /\ sendThread = "copy"
    /\ mSendingBuf' = SubSeq(mSendBuf, 1, mSendPos)
                          \o SubSeq(mSendingBuf, mSendPos + 1, MAX_SOCK_SENDBUF)
    /\ sendThread' = "send"
    /\ PollLeavesAlone
    /\ UNCHANGED <<mSendLock, mIsSending, mSendPos, mSendBuf, ioVars, fault>>

(* the send of mSendPos bytes, which reads mSendPos again.  If it is refused *)
(* SendIO returns false, mIsSending stays, and nobody looks at the result.  *)
WSASend ==
    /\ Running
    /\ sendThread = "send"
    /\ \/ /\ mSock # 0
          /\ sendIO' = [sock |-> mSock, len |-> mSendPos, is |-> "kernel"]
          /\ fault' = IF sendIO.is # "none" THEN "sendOverlap" ELSE fault
          /\ sendThread' = "reset"
          /\ UNCHANGED mSendLock
       \/ /\ sendThread' = "poll"
          /\ mSendLock' = "free"
          /\ UNCHANGED <<sendIO, fault>>
    /\ PollLeavesAlone
    /\ UNCHANGED <<mIsSending, mSendPos, mSendBuf, mSendingBuf, wire>>

SubtractSent ==
    /\ Running
    /\ sendThread = "reset"
    /\ mSendPos' = mSendPos - sendIO.len
    /\ mSendLock' = "free"
    /\ sendThread' = "poll"
    /\ PollLeavesAlone
    /\ UNCHANGED <<mIsSending, mSendBuf, mSendingBuf, ioVars, fault>>

ResetPos ==
    /\ Running
    /\ sendThread = "reset"
    /\ mSendPos' = 0
    /\ mSendLock' = "free"
    /\ sendThread' = "poll"
    /\ PollLeavesAlone
    /\ UNCHANGED <<mIsSending, mSendBuf, mSendingBuf, ioVars, fault>>

------------------------------------------------------------------------------
(* The kernel sends the bytes that are in mSendingBuf when it gets to it, or *)
(* fails.  A socket that is not bound to the port yet reports nothing.      *)
Report(is) == IF accepter \in {"clearPos", "clearSending", "bind"} /\ sendIO.sock = mSock
                THEN NoIO ELSE [sendIO EXCEPT !.is = is]

KernelLeavesAlone == UNCHANGED <<sessionVars, recvVars, sendVars, worker, processThread,
                                 sendThread, fault>>

Transmit ==
    /\ Running
    /\ sendIO.is = "kernel"
    /\ wire' = [wire EXCEPT ![sendIO.sock] = @ \o SubSeq(mSendingBuf, 1, sendIO.len)]
    /\ sendIO' = Report("done")
    /\ KernelLeavesAlone

Fail ==
    /\ Running
    /\ sendIO.is = "kernel"
    /\ sendIO' = Report("failed")
    /\ UNCHANGED wire
    /\ KernelLeavesAlone

------------------------------------------------------------------------------
AccepterStep == GetEmptyClientInfo \/ OnConnect \/ ClearPos \/ ClearSending \/ Bind

WorkerStep(w) == BindRecv(w) \/ TakeSent(w) \/ SendCompleted(w) \/ Close(w)

ProcessStep == SendMsg \/ CopyMsg \/ AddSize

SendThreadStep == Poll \/ SendIO \/ CopyCollected \/ WSASend \/ ResetPos

Next == \/ AccepterStep
        \/ \E w \in Workers : \/ \E m \in Messages : OnReceive(w, m)
                              \/ TakeDisconnect(w)
                              \/ WorkerStep(w)
        \/ ProcessStep
        \/ SendThreadStep
        \/ Transmit
        \/ Fail

Spec == Init /\ [][Next]_vars

(* The threads run and the kernel finishes what it owns; no fairness for what *)
(* peers decide.  Weak fairness is enough for the lock: the packets and the *)
(* polls that find something collected end.                                 *)
Fairness == /\ \A w \in Workers : WF_vars(WorkerStep(w))
            /\ WF_vars(ProcessStep)
            /\ WF_vars(SendThreadStep)
            /\ WF_vars(Transmit \/ Fail)

FairSpec == Spec /\ Fairness

------------------------------------------------------------------------------
(* Every field, overlapped block and thread stage has its type. *)
TypeOK ==
    /\ mSock \in Socks
    /\ conns \in Socks
    /\ accepter \in {"search", "accept", "clearPos", "clearSending", "bind", "stopped"}
    /\ recvIO \in Socks
    /\ mPacketDataQueue \in Seq(Messages)
    /\ mSendLock \in {"free", "SendMsg", "SendIO"}
    /\ mIsSending \in BOOLEAN
    /\ mSendPos \in 0 .. MAX_SOCK_SENDBUF
    /\ mSendBuf \in Buffers
    /\ mSendingBuf \in Buffers
    /\ sendIO \in [sock : Socks, len : 0 .. MAX_SOCK_SENDBUF,
                   is : {"none", "kernel", "done", "failed"}]
    /\ worker \in [Workers -> [at : {"wait", "bindRecv", "sendCompleted", "close"}, sock : Socks]]
    /\ processThread \in [at : {"wait", "copy", "add"}, msg : Messages \cup {Nothing},
                          pos : 0 .. MAX_SOCK_SENDBUF]
    /\ sendThread \in {"poll", "checkPos", "checkSending", "lock", "copy", "send", "reset"}
    /\ wire \in [Conns -> Seq(Byte)]
    /\ fault \in {"none", "recvOverlap", "sendOverlap", "overrun"}

(* No message is copied past the end of mSendBuf and mSendPos never points   *)
(* past it (TypeOK), wherever the unlocked Clear falls between the test for *)
(* room, the copy and the addition.                                         *)
InsideBuffer == TypeOK /\ fault # "overrun"

(* What is said of the buffers from here on is said of a session's first     *)
(* connection: OnConnect clears a session without the lock, and whatever a   *)
(* thread was doing for the connection before goes on.                      *)
FirstConnection == conns <= 1

(* While a send is under way or its completion is on the port, mSendingBuf   *)
(* and the send overlapped are not touched, although SendIO tests           *)
(* mIsSending without the lock.                                             *)
SendingUntouched ==
    FirstConnection /\ sendIO.is # "none" =>
        mIsSending /\ sendThread \notin {"lock", "copy", "send"}

(* SendIO sends no 0 bytes: the worker that took the completion would take   *)
(* it for the peer's disconnection and close the session.                   *)
NoEmptySend == FirstConnection /\ sendIO.is # "none" => sendIO.len > 0

Bytes(m) == [i \in 1 .. Size[m] |-> <<m, i>>]

(* Each byte is one of a whole message. *)
Whole(bytes) ==
    \A i \in 1 .. Len(bytes) :
        \E m \in Messages : \E before \in 0 .. Len(bytes) - Size[m] :
            /\ i \in before + 1 .. before + Size[m]
            /\ \A k \in 1 .. Size[m] : bytes[before + k] = <<m, k>>

Collected == SubSeq(mSendBuf, 1, mSendPos)
Sending == IF sendIO.is = "kernel" THEN SubSeq(mSendingBuf, 1, sendIO.len) ELSE << >>

(* The peer gets whole messages: no send starts or ends inside one, and none *)
(* is overwritten while it is collected or sent.                            *)
WholeMessages == FirstConnection => Whole(Sending) /\ \A c \in Conns : Whole(wire[c])

(* The buffers' promise: packets are collected and leave in whole batches,   *)
(* in order, at most once; every step of the first connection keeps it.     *)
(* Between WSASend and the reset of mSendPos the lock keeps what was        *)
(* collected from being seen twice.                                         *)
Abstract == INSTANCE LossySender
                WITH Packets <- {Bytes(m) : m \in Messages},
                     collected <- IF sendThread = "reset" THEN << >> ELSE Collected,
                     batch <- Sending,
                     delivered <- wire[1]
InBatches == Abstract!Init /\ [][FirstConnection' => Abstract!Next]_(Abstract!vars)

(* WSASend refused: mIsSending waits for a completion that will not come. *)
Mute == /\ mIsSending
        /\ sendIO.is = "none"
        /\ sendThread \notin {"lock", "copy", "send"}
        /\ \A w \in Workers : worker[w].at # "sendCompleted"

(* A session that went mute stays mute until its slot is connected anew. *)
MuteUntilCleared == [][Mute /\ ~ Mute' => accepter = "clearSending" /\ ~ mIsSending']_vars

(* What is collected or being sent leaves the server, unless the session's   *)
(* first connection ends or it goes mute.                                   *)
NothingLingers ==
    \A m \in Messages : <<m, 1>> \in Range(Collected \o Sending)
        ~> \/ <<m, 1>> \notin Range(Collected \o Sending)
           \/ mSock = 0 \/ ~ FirstConnection
           \/ Mute

(* A completion closes the connection it is about, not a later one. *)
ClosesTheDisconnected ==
    \A w \in Workers : worker[w].at = "close" => mSock \in {0, worker[w].sock}
------------------------------------------------------------------------------
(* Why all this holds.                                                      *)

(* The lock is held by the thread that is where it says. *)
LockInv ==
    /\ mSendLock = "SendMsg" <=> processThread.at \in {"copy", "add"}
    /\ mSendLock = "SendIO" <=> sendThread \in {"copy", "send", "reset"}

(* The room SendMsg found is still there when it copies and when it adds:    *)
(* whoever else writes mSendPos makes it smaller.                           *)
RoomInv ==
    processThread.at \in {"copy", "add"} =>
        /\ processThread.msg \in Messages
        /\ mSendPos + Size[processThread.msg] <= MAX_SOCK_SENDBUF
        /\ processThread.pos + Size[processThread.msg] <= MAX_SOCK_SENDBUF

(* Only connections that were made are in use. *)
SocketInv ==
    /\ mSock <= conns
    /\ sendIO.is # "none" => sendIO.sock \in 1 .. conns

(* Until its first receive is posted a session has nothing to send. *)
FreshInv ==
    conns = 0 \/ accepter \in {"clearPos", "clearSending", "bind"} =>
        /\ recvIO = 0
        /\ mPacketDataQueue = << >>
        /\ ~ mIsSending
        /\ mSendPos = 0
        /\ sendIO.is = "none"
        /\ \A w \in Workers : worker[w].at = "wait"
        /\ processThread.at = "wait"
        /\ sendThread \in {"poll", "checkPos"}

(* One permission to send: the send thread has it, a send under way, or the  *)
(* worker about to give it back.                                            *)
PermissionInv ==
    LET completing == {w \in Workers : worker[w].at = "sendCompleted"}
    IN  /\ sendThread = "lock" => ~ mIsSending
        /\ sendThread \in {"copy", "send"} => mIsSending
        /\ completing # {} => /\ mIsSending
                              /\ sendThread \notin {"lock", "copy", "send"}
                              /\ sendIO.is = "none"
        /\ \A v, w \in completing : v = w

(* Something is collected from the moment the send thread has seen it until  *)
(* it resets mSendPos, except while SendMsg makes room for the next packet. *)
CollectedInv ==
    /\ sendThread \in {"checkSending", "lock"} => mSendPos > 0 \/ mSendLock = "SendMsg"
    /\ sendThread \in {"copy", "send"} => mSendPos > 0

(* What is collected is whole; a packet copied behind it stays until its     *)
(* size is added; what is about to be sent is what was collected.           *)
WholeInv ==
    /\ Whole(Collected)
    /\ processThread.at = "add" =>
           /\ processThread.pos = mSendPos
           /\ \A k \in 1 .. Size[processThread.msg] :
                  mSendBuf[mSendPos + k] = <<processThread.msg, k>>
    /\ sendThread = "send" => \A i \in 1 .. mSendPos : mSendingBuf[i] = mSendBuf[i]

(* All of it, the inductive invariant. *)
BufferInv ==
    /\ InsideBuffer /\ LockInv /\ RoomInv /\ SocketInv
    /\ FirstConnection => FreshInv /\ PermissionInv /\ CollectedInv /\ WholeInv
    /\ SendingUntouched /\ NoEmptySend /\ WholeMessages
==============================================================================
