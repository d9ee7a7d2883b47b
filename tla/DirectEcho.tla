------------------------------ MODULE DirectEcho ------------------------------
(***************************************************************************)
(* Stages 1 to 3 of the server: the worker that takes a receive sends the   *)
(* echo itself.  A client has one receive and one send overlapped, and one  *)
(* buffer for each; the send is posted whether or not the last one on the   *)
(* same buffer is done.  Stage 1 copies to the send buffer too, but sends   *)
(* from the receive buffer.  Stage 2 never closes a client's socket.        *)
(*                                                                          *)
(* One of the mClientInfos is modelled.  Its connections are numbered; 0 is *)
(* INVALID_SOCKET.  A connection is a stream of bytes: a message here is     *)
(* what one receive brings, and what a client sends in one go may come in   *)
(* several of them.  What a send puts on the wire is the message its buffer *)
(* holds by then.                                                           *)
(***************************************************************************)
EXTENDS Naturals, Sequences, SequencesExt

CONSTANTS Messages,      \* what clients may send
          Full,          \* those of exactly MAX_SOCKBUF bytes
          Workers,       \* mIOWorkerThreads
          Nothing,       \* what a buffer holds at first
          MaxParts,      \* bound: receives that what a client sends in one go may take
          MaxConn        \* bound: connections accepted for the client slot

ASSUME FullAssumption == Full \subseteq Messages
ASSUME NothingAssumption == Nothing \notin Messages
ASSUME ConnAssumption == MaxConn \in Nat
ASSUME PartsAssumption == MaxParts \in Nat \ {0}

VARIABLES
    stage,              \* whose WorkerThread and SendMsg: 1, 2 or 3
    client,             \* the program at the other end: see ClientMaySend
    parts,              \* receives still to come of what it sent on each connection
    m_socketClient,
    conns,              \* connections accepted so far
    accepter,           \* where AccepterThread is
    recvIO,             \* the receive overlapped: its connection and progress
    mRecvBuf,
    mSendBuf,
    sends,              \* sends with the kernel, oldest first: connection, message meant
    failedSends,        \* failed sends on the completion port
    broken,             \* connections on which a send has failed
    worker,             \* what each worker does, with which message
    received,           \* history: messages each connection's receives brought
    wire,               \* history: what was sent on each connection, and what was meant
    fault               \* the first undefined behaviour run into

world == <<stage, client, parts>>
socketVars == <<m_socketClient, conns, accepter>>
sendVars == <<sends, failedSends, broken, wire>>
vars == <<world, socketVars, recvIO, mRecvBuf, mSendBuf, sendVars, worker, received, fault>>

Conns == 1 .. MaxConn
Socks == 0 .. MaxConn
Contents == Messages \cup {Nothing}
NoReceive == [sock |-> 0, is |-> "none"]
Resting == [at |-> "wait", msg |-> Nothing]

Init == /\ stage \in 1 .. 3
        /\ client \in {"waits", "split", "streams"}
        /\ parts = [c \in Conns |-> 0]
        /\ m_socketClient = 0
        /\ conns = 0
        /\ accepter = "search"
        /\ recvIO = NoReceive
        /\ mRecvBuf = Nothing
        /\ mSendBuf = Nothing
        /\ sends = << >>
        /\ failedSends = 0
        /\ broken = {}
        /\ worker = [w \in Workers |-> Resting]
        /\ received = [c \in Conns |-> << >>]
        /\ wire = [c \in Conns |-> << >>]
        /\ fault = "none"

(* After undefined behaviour nothing is known, and the model stops. *)
Running == fault = "none"

(* WSARecv with the client's only receive overlapped. *)
PostReceive == /\ m_socketClient # 0
               /\ recvIO' = [sock |-> m_socketClient, is |-> "pending"]
               /\ fault' = IF recvIO # NoReceive THEN "recvOverlap" ELSE fault

------------------------------------------------------------------------------
(* AccepterThread.  The slot may be the one GetEmptyClientInfo returns       *)
(* whenever it has no socket; the others are other clients' business.       *)
GetEmptyClientInfo ==
    /\ Running
    /\ accepter = "search"
    /\ m_socketClient = 0
    /\ accepter' = "accept"
    /\ UNCHANGED <<world, m_socketClient, conns, recvIO, mRecvBuf, mSendBuf, sendVars, worker,
                   received, fault>>

(* accept's result goes straight into the slot; a failed one is tried again. *)
Accept ==
    /\ Running
    /\ accepter = "accept"
    /\ \/ /\ conns < MaxConn
          /\ conns' = conns + 1
          /\ m_socketClient' = conns'
          /\ accepter' = "bind"
       \/ /\ m_socketClient' = 0
          /\ accepter' = "search"
          /\ UNCHANGED conns
    /\ UNCHANGED <<world, recvIO, mRecvBuf, mSendBuf, sendVars, worker, received, fault>>

(* Port and first receive.  If either fails the thread returns and leaves    *)
(* the slot connected.                                                      *)
Bind ==
    /\ Running
    /\ accepter = "bind"
    /\ \/ /\ PostReceive
          /\ accepter' = "search"
       \/ /\ accepter' = "stopped"
          /\ UNCHANGED <<recvIO, fault>>
    /\ UNCHANGED <<world, m_socketClient, conns, mRecvBuf, mSendBuf, sendVars, worker, received>>

------------------------------------------------------------------------------
(* The kernel and the client.                                               *)

(* A client that waits sends only when it has an echo for all it sent: what  *)
(* it sends then comes in one receive, or is "split" over several.          *)
ClientMaySend(c) == client # "streams" => Len(wire[c]) = Len(received[c])

Arrive(c) ==
    \/ /\ parts[c] > 0
       /\ parts' = [parts EXCEPT ![c] = @ - 1]
    \/ /\ parts[c] = 0
       /\ ClientMaySend(c)
       /\ \E more \in 0 .. (IF client = "split" THEN MaxParts - 1 ELSE 0) :
              parts' = [parts EXCEPT ![c] = more]

Receive(m) ==
    /\ Running
    /\ recvIO.is = "pending"
    /\ \A c \in Conns : m \notin Range(received[c])
    /\ Arrive(recvIO.sock)
    /\ recvIO' = [recvIO EXCEPT !.is = "done"]
    /\ mRecvBuf' = m
    /\ received' = [received EXCEPT ![recvIO.sock] = Append(@, m)]
    /\ UNCHANGED <<stage, client, socketVars, mSendBuf, sendVars, worker, fault>>

(* The client has left, or the socket was closed. *)
ReceiveFails ==
    /\ Running
    /\ recvIO.is = "pending"
    /\ recvIO' = [recvIO EXCEPT !.is = "failed"]
    /\ UNCHANGED <<world, socketVars, mRecvBuf, mSendBuf, sendVars, worker, received, fault>>

(* A send reads its buffer when the kernel gets to it.  Its success is       *)
(* printed by some worker, which changes nothing.                           *)
Transmit ==
    /\ Running
    /\ sends # << >>
    /\ Head(sends).sock \notin broken
    /\ wire' = [wire EXCEPT ![Head(sends).sock] =
                   Append(@, [meant |-> Head(sends).msg,
                              sent |-> IF stage = 1 THEN mRecvBuf ELSE mSendBuf])]
    /\ sends' = Tail(sends)
    /\ UNCHANGED <<world, socketVars, recvIO, mRecvBuf, mSendBuf, failedSends, broken, worker,
                   received, fault>>

SendFails ==
    /\ Running
    /\ sends # << >>
    /\ broken' = broken \cup {Head(sends).sock}
    /\ sends' = Tail(sends)
    /\ failedSends' = failedSends + 1
    /\ UNCHANGED <<world, socketVars, recvIO, mRecvBuf, mSendBuf, worker, wire, received, fault>>

------------------------------------------------------------------------------
(* WorkerThread.                                                            *)

(* RepostFirst and, below, SendOnInvalid and SendWithoutCopy are wrong on    *)
(* purpose: each is the plausible mistake the properties must notice in the *)
(* definition after it.                                                     *)
RepostFirst(w) ==
    /\ Running
    /\ worker[w].at = "wait"
    /\ recvIO.is = "done"
    /\ recvIO' = [recvIO EXCEPT !.is = "pending"]
    /\ worker' = [worker EXCEPT ![w] = [at |-> "echo", msg |-> mRecvBuf]]
    /\ UNCHANGED <<world, socketVars, mRecvBuf, mSendBuf, sendVars, received, fault>>

(* Stages 1 and 2 put a 0 behind the bytes received.  Behind MAX_SOCKBUF of  *)
(* them it falls on m_eOperation, which is 0 for RECV, or on mSendBuf, which *)
(* SendMsg is about to write anyway.                                        *)
TakeReceive(w) ==
    /\ Running
    /\ worker[w].at = "wait"
    /\ recvIO.is = "done"
    /\ recvIO' = NoReceive
    /\ worker' = [worker EXCEPT ![w] = [at |-> "echo", msg |-> mRecvBuf]]
    /\ UNCHANGED <<world, socketVars, mRecvBuf, mSendBuf, sendVars, received, fault>>

(* An empty or failed completion; stage 2 only prints that it is one. *)
Disconnected(w) ==
    worker' = [worker EXCEPT ![w].at = IF stage = 2 THEN "wait" ELSE "close"]

TakeFailedReceive(w) ==
    /\ Running
    /\ worker[w].at = "wait"
    /\ recvIO.is = "failed"
    /\ recvIO' = NoReceive
    /\ Disconnected(w)
    /\ UNCHANGED <<world, socketVars, mRecvBuf, mSendBuf, sendVars, received, fault>>

TakeFailedSend(w) ==
    /\ Running
    /\ worker[w].at = "wait"
    /\ failedSends > 0
    /\ failedSends' = failedSends - 1
    /\ Disconnected(w)
    /\ UNCHANGED <<world, socketVars, recvIO, mRecvBuf, mSendBuf, sends, broken, wire, received,
                   fault>>

SendOnInvalid(m) == \/ sends' = Append(sends, [sock |-> m_socketClient, msg |-> m])
                    \/ UNCHANGED sends

(* WSASend takes the send, or refuses; nobody looks at SendMsg's result. *)
WSASend(m) == \/ /\ m_socketClient # 0
                 /\ sends' = Append(sends, [sock |-> m_socketClient, msg |-> m])
              \/ UNCHANGED sends

SendWithoutCopy(w) ==
    /\ Running
    /\ worker[w].at = "echo"
    /\ WSASend(worker[w].msg)
    /\ worker' = [worker EXCEPT ![w] = [at |-> "bindRecv", msg |-> Nothing]]
    /\ UNCHANGED <<world, socketVars, recvIO, mRecvBuf, mSendBuf, failedSends, broken, wire,
                   received, fault>>

(* SendMsg.  Stages 2 and 3 put a terminator behind the copy; behind one of  *)
(* MAX_SOCKBUF bytes it falls on the next client of the vector.             *)
SendMsg(w) ==
    /\ Running
    /\ worker[w].at = "echo"
    /\ mSendBuf' = mRecvBuf
    /\ fault' = IF stage # 1 /\ worker[w].msg \in Full THEN "overrun" ELSE fault
    /\ WSASend(worker[w].msg)
    /\ worker' = [worker EXCEPT ![w] = [at |-> "bindRecv", msg |-> Nothing]]
    /\ UNCHANGED <<world, socketVars, recvIO, mRecvBuf, failedSends, broken, wire, received>>

(* The next receive, on the same buffer; nobody looks at BindRecv's result. *)
BindRecv(w) ==
    /\ Running
    /\ worker[w].at = "bindRecv"
    /\ PostReceive \/ UNCHANGED <<recvIO, fault>>
    /\ worker' = [worker EXCEPT ![w] = Resting]
    /\ UNCHANGED <<world, socketVars, mRecvBuf, mSendBuf, sendVars, received>>

CloseSocket(w) ==
    /\ Running
    /\ worker[w].at = "close"
    /\ m_socketClient' = 0
    /\ worker' = [worker EXCEPT ![w] = Resting]
    /\ UNCHANGED <<world, conns, accepter, recvIO, mRecvBuf, mSendBuf, sendVars, received, fault>>

------------------------------------------------------------------------------
AccepterStep == GetEmptyClientInfo \/ Accept \/ Bind

KernelStep == (\E m \in Messages : Receive(m)) \/ ReceiveFails \/ Transmit \/ SendFails

WorkerStep(w) == \/ TakeReceive(w)
                 \/ TakeFailedReceive(w)
                 \/ TakeFailedSend(w)
                 \/ SendMsg(w)
                 \/ BindRecv(w)
                 \/ CloseSocket(w)

Next == AccepterStep \/ KernelStep \/ \E w \in Workers : WorkerStep(w)

Spec == Init /\ [][Next]_vars

------------------------------------------------------------------------------
(* Every field, overlapped block and thread stage has its type. *)
TypeOK ==
    /\ stage \in 1 .. 3
    /\ client \in {"waits", "split", "streams"}
    /\ parts \in [Conns -> Nat]
    /\ m_socketClient \in Socks
    /\ conns \in Socks
    /\ accepter \in {"search", "accept", "bind", "stopped"}
    /\ recvIO \in [sock : Socks, is : {"none", "pending", "done", "failed"}]
    /\ mRecvBuf \in Contents
    /\ mSendBuf \in Contents
    /\ sends \in Seq([sock : Conns, msg : Messages])
    /\ failedSends \in Nat
    /\ broken \subseteq Conns
    /\ worker \in [Workers -> [at : {"wait", "echo", "bindRecv", "close"}, msg : Contents]]
    /\ received \in [Conns -> Seq(Messages)]
    /\ wire \in [Conns -> Seq([meant : Messages, sent : Contents])]
    /\ fault \in {"none", "recvOverlap", "overrun"}

(* What a worker is about to echo is still in mRecvBuf when SendMsg gets to  *)
(* it: WorkerThread posts the next receive only afterwards, so on a client's *)
(* first connection no kernel and no other worker is at that buffer.        *)
ReceiveUntouched ==
    \A v, w \in Workers :
        conns = 1 /\ worker[w].at = "echo" => /\ mRecvBuf = worker[w].msg
                                              /\ recvIO = NoReceive
                                              /\ worker[v].at = "echo" => v = w

(* The messages meant by the sends of connection c, done or under way. *)
Meant(c) == [i \in DOMAIN wire[c] |-> wire[c][i].meant]
                \o [i \in DOMAIN sends |-> sends[i].msg]

(* Whichever workers handle them, the echoes of a client slot's first        *)
(* connection are posted and sent in the order of the receives, each once;  *)
(* one may be missing where WSASend refused it.                             *)
EchoInOrder ==
    conns = 1 => LET meant == Meant(1)
                     place(m) == CHOOSE i \in DOMAIN received[1] : received[1][i] = m
                 IN  /\ Range(meant) \subseteq Range(received[1])
                     /\ \A i, j \in DOMAIN meant : i < j => place(meant[i]) < place(meant[j])

(* Every echo sent is the message it is the echo of. *)
EchoesReceived == \A i \in DOMAIN wire[1] : wire[1][i].sent = wire[1][i].meant

(* On a slot's first connection, a client that waits for each echo before it *)
(* sends again, and whose messages each come in one receive, gets its own   *)
(* bytes back, although nothing in the server keeps a buffer from being     *)
(* used again while a send on it is under way.  Waiting alone is not enough: *)
(* of a message split over two receives the second overwrites the first.    *)
WaitingClientGetsEchoes == client = "waits" /\ conns = 1 => EchoesReceived

------------------------------------------------------------------------------
(* Why all this holds.                                                      *)

(* Only connections that were made are in use, and what a receive brought is *)
(* a message wherever it is by now.                                         *)
SlotInv ==
    /\ m_socketClient <= conns
    /\ recvIO.is # "none" => recvIO.sock \in 1 .. conns
    /\ recvIO.is = "none" => recvIO = NoReceive
    /\ recvIO.is = "done" => mRecvBuf \in Messages
    /\ \A i \in 1 .. Len(sends) : sends[i].sock <= conns
    /\ \A w \in Workers : worker[w].at = "echo" => worker[w].msg \in Messages
    /\ client = "waits" => \A c \in Conns : parts[c] = 0

Holders == {w \in Workers : worker[w].at \in {"echo", "bindRecv"}}

(* Until its first receive is posted nothing happens to a client. *)
FreshInv ==
    conns = 0 \/ accepter = "bind" =>
        /\ recvIO = NoReceive
        /\ Holders = {}
        /\ sends = << >>
        /\ \A c \in Conns : received[c] = << >> /\ wire[c] = << >>

(* One permission to use mRecvBuf: the posted receive has it, or the worker  *)
(* that took it and will post the next.                                     *)
PermissionInv ==
    /\ Holders # {} => recvIO = NoReceive
    /\ \A v, w \in Holders : v = w
    /\ fault # "recvOverlap"

(* The message whose echo is not posted yet. *)
Echoing(m) == \/ recvIO.is = "done" /\ mRecvBuf = m
              \/ \E w \in Workers : worker[w].at = "echo" /\ worker[w].msg = m

Received(m) == \E i \in 1 .. Len(received[1]) : received[1][i] = m
ReceivedBefore(m, n) == \E i, j \in 1 .. Len(received[1]) :
                            i < j /\ received[1][i] = m /\ received[1][j] = n

(* The messages received are distinct, and echoes keep their order from the  *)
(* receive to the wire.                                                     *)
OrderInv ==
    LET wired == 1 .. Len(wire[1])
        sending == 1 .. Len(sends)
    IN  /\ \A i, j \in 1 .. Len(received[1]) : received[1][i] = received[1][j] => i = j
        /\ \A i \in wired : Received(wire[1][i].meant)
        /\ \A i \in sending : Received(sends[i].msg)
        /\ \A i, j \in wired : i < j => ReceivedBefore(wire[1][i].meant, wire[1][j].meant)
        /\ \A i, j \in sending : i < j => ReceivedBefore(sends[i].msg, sends[j].msg)
        /\ \A i \in wired : \A j \in sending : ReceivedBefore(wire[1][i].meant, sends[j].msg)
        /\ \A m \in Messages :
               Echoing(m) => /\ Received(m)
                             /\ \A i \in wired : ReceivedBefore(wire[1][i].meant, m)
                             /\ \A i \in sending : ReceivedBefore(sends[i].msg, m)

(* A client that waits has one receive on its way at most, and both buffers  *)
(* hold it when its echo is sent.                                           *)
WaitingInv ==
    /\ Len(wire[1]) <= Len(received[1])
    /\ sends # << >> => /\ Len(sends) = 1
                        /\ sends[1].msg = mRecvBuf
                        /\ sends[1].msg = mSendBuf
    /\ (\E m \in Messages : Echoing(m)) => sends = << >>
    /\ sends # << >> \/ (\E m \in Messages : Echoing(m)) => Len(wire[1]) < Len(received[1])

(* All of it, the inductive invariant. *)
EchoInv ==
    /\ TypeOK /\ SlotInv
    /\ conns <= 1 => FreshInv /\ PermissionInv
    /\ ReceiveUntouched
    /\ conns = 1 => OrderInv
    /\ conns = 1 /\ client = "waits" => WaitingInv
    /\ WaitingClientGetsEchoes
==============================================================================
