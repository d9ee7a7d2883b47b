---------------------------- MODULE ServerLifecycle ----------------------------
(***************************************************************************)
(* From main to main's return: how the servers of stages 1 to 7 start their *)
(* threads and how they stop them, with the loops of these threads at work. *)
(* The stages differ in which threads there are, in who makes the           *)
(* completion port, in how a client is connected, in whether a refused      *)
(* association with the port is noticed, and in the order of DestroyThread. *)
(*                                                                          *)
(* What becomes of a send, and which slot a client gets, is the business of *)
(* the other modules: here a message is followed until SendMsg is called    *)
(* with it, which may queue it, collect it or find that it cannot be sent,  *)
(* and a slot is one of MAX_CLIENT.                                         *)
(***************************************************************************)
EXTENDS Naturals, Sequences, FiniteSets

CONSTANTS Stages,           \* the stages to look at
          Workers,          \* mIOWorkerThreads
          mProcessThread, mAccepterThread, mSendThread,
          Clients,          \* bound: each connects once and sends one message
          NoClient,
          MAX_CLIENT

ASSUME StagesAssumption == Stages \subseteq 1 .. 7
ASSUME ThreadAssumption ==
    /\ {mProcessThread, mAccepterThread, mSendThread} \cap Workers = {}
    /\ mProcessThread # mAccepterThread
    /\ mProcessThread # mSendThread
    /\ mAccepterThread # mSendThread
ASSUME ClientAssumption == IsFiniteSet(Clients) /\ NoClient \notin Clients /\ MAX_CLIENT \in Nat

VARIABLES
    stage,              \* whose main it is
    main,               \* the function or line main is at
    flags,              \* those of the mIs...Run flags that are true
    at,                 \* where each thread is: not started, in its loop, or back from it
    task,               \* the client whose completion a worker handles
    mListenSocket,
    mIOCPHandle,        \* INVALID_HANDLE_VALUE, NULL, open or closed
    mClientInfos,       \* whether CreateClient has built them
    posted,             \* AcceptEx calls the kernel holds (stage 7)
    conn,               \* each client's connection
    io,                 \* what the kernel has for it: a receive, a completion
    mPacketDataQueue,
    bound,              \* history: clients whose socket was associated with the port
    counted,            \* history: clients OnConnect was called for
    handedOver,         \* history: clients whose message SendMsg was called with
    fault               \* the first undefined behaviour run into

mainVars == <<main, flags, mClientInfos, mIOCPHandle>>
clientVars == <<conn, io, bound, counted>>
packetVars == <<mPacketDataQueue, handedOver>>
vars == <<stage, mainVars, at, task, mListenSocket, posted, clientVars, packetVars, fault>>

Threads == Workers \cup {mProcessThread, mAccepterThread, mSendThread}

FlagOf(t) == CASE t = mProcessThread  -> "mIsRunProcessThread"
               [] t = mAccepterThread -> "mIsAccepterRun"
               [] t = mSendThread     -> "mIsSenderRun"
               [] OTHER               -> "mIsWorkerRun"

(* The first thing each thread does in its loop. *)
BodyOf(t) == CASE t = mProcessThread  -> "deque"
               [] t = mAccepterThread -> "search"
               [] t = mSendThread     -> "poll"
               [] OTHER               -> "wait"

(* Stage 5 starts with its flags false; the others with these two true. *)
Init ==
    /\ stage \in Stages
    /\ main = "InitSocket"
    /\ flags = IF stage = 5 THEN {} ELSE {"mIsWorkerRun", "mIsAccepterRun"}
    /\ at = [t \in Threads |-> "none"]
    /\ task = [w \in Workers |-> NoClient]
    /\ mListenSocket = "invalid"
    /\ mIOCPHandle = "invalid"
    /\ mClientInfos = FALSE
    /\ posted = 0
    /\ conn = [c \in Clients |-> "away"]
    /\ io = [c \in Clients |-> "none"]
    /\ mPacketDataQueue = << >>
    /\ bound = {}
    /\ counted = {}
    /\ handedOver = {}
    /\ fault = "none"

------------------------------------------------------------------------------
(* main, on the way up.  It ignores what InitSocket, BindandListen and Run   *)
(* return and goes on.  Until Run nothing else runs, so that these two       *)
(* functions are a step each.                                               *)
InitSocket ==
    /\ main = "InitSocket"
    /\ mListenSocket' \in {"invalid", "open"}
    /\ main' = "BindandListen"
    /\ UNCHANGED <<stage, flags, mClientInfos, mIOCPHandle, at, task, posted, clientVars,
                   packetVars, fault>>

(* bind or listen may fail. *)
BindandListen ==
    /\ main = "BindandListen"
    /\ stage # 7
    /\ \/ UNCHANGED mListenSocket
       \/ mListenSocket = "open" /\ mListenSocket' = "listening"
    /\ main' = IF stage < 4 THEN "CreateClient" ELSE "Run"
    /\ UNCHANGED <<stage, flags, mClientInfos, mIOCPHandle, at, task, posted, clientVars,
                   packetVars, fault>>

(* Stage 7 goes on to make the port and to bind the listen socket to it. *)
BindandListen7 ==
    /\ main = "BindandListen"
    /\ stage = 7
    /\ \/ UNCHANGED <<mListenSocket, mIOCPHandle>>
       \/ /\ mListenSocket = "open"
          /\ \/ mListenSocket' = "listening" /\ mIOCPHandle' \in {"null", "open"}
             \/ mListenSocket' = "bound" /\ mIOCPHandle' = "open"
    /\ main' = "Run"
    /\ UNCHANGED <<stage, flags, mClientInfos, at, task, posted, clientVars, packetVars, fault>>

Start(T) == at' = [t \in Threads |-> IF t \in T THEN "test" ELSE at[t]]

(* RunWithoutFlag and, below, LeaveAccepter, AccepterFirst, JoinBeforeClose  *)
(* and TestsForInvalid are wrong on purpose: each is the plausible mistake  *)
(* the properties must notice in the definition after it.                   *)
RunWithoutFlag ==
    /\ main = "Run"
    /\ Start({mProcessThread})
    /\ main' = "CreateClient"
    /\ UNCHANGED <<stage, flags, mClientInfos, mIOCPHandle, task, mListenSocket, posted,
                   clientVars, packetVars, fault>>

(* Run starts the packet thread before there is anything else. *)
Run ==
    /\ main = "Run"
    /\ flags' = flags \cup {"mIsRunProcessThread"}
    /\ Start({mProcessThread})
    /\ main' = "CreateClient"
    /\ UNCHANGED <<stage, mClientInfos, mIOCPHandle, task, mListenSocket, posted, clientVars,
                   packetVars, fault>>

(* StartServer from here to CreateSendThread. *)
CreateClient ==
    /\ main = "CreateClient"
    /\ mClientInfos' = TRUE
    /\ main' = IF stage = 7 THEN "CreateWorkerThread" ELSE "CreatePort"
    /\ UNCHANGED <<stage, flags, mIOCPHandle, at, task, mListenSocket, posted, clientVars,
                   packetVars, fault>>

(* Without a port StartServer returns, and main waits for quit all the same. *)
CreatePort ==
    /\ main = "CreatePort"
    /\ \/ mIOCPHandle' = "open" /\ main' = "CreateWorkerThread"
       \/ mIOCPHandle' = "null" /\ main' = "getline"
    /\ UNCHANGED <<stage, flags, mClientInfos, at, task, mListenSocket, posted, clientVars,
                   packetVars, fault>>

(* The number of workers is a constant; stage 7's is 0 until Init has made   *)
(* the listen socket.                                                       *)
StartedWorkers == IF stage = 7 /\ mListenSocket = "invalid" THEN {} ELSE Workers

CreateWorkerThread ==
    /\ main = "CreateWorkerThread"
    /\ flags' = flags \cup {"mIsWorkerRun"}
    /\ Start(StartedWorkers)
    /\ main' = "CreateAccepterThread"
    /\ UNCHANGED <<stage, mClientInfos, mIOCPHandle, task, mListenSocket, posted, clientVars,
                   packetVars, fault>>

CreateAccepterThread ==
    /\ main = "CreateAccepterThread"
    /\ flags' = flags \cup {"mIsAccepterRun"}
    /\ Start({mAccepterThread})
    /\ main' = IF stage = 5 THEN "CreateSendThread" ELSE "getline"
    /\ UNCHANGED <<stage, mClientInfos, mIOCPHandle, task, mListenSocket, posted, clientVars,
                   packetVars, fault>>

CreateSendThread ==
    /\ main = "CreateSendThread"
    /\ flags' = flags \cup {"mIsSenderRun"}
    /\ Start({mSendThread})
    /\ main' = "getline"
    /\ UNCHANGED <<stage, mClientInfos, mIOCPHandle, task, mListenSocket, posted, clientVars,
                   packetVars, fault>>

------------------------------------------------------------------------------
(* main, on the way down.                                                   *)

LeaveAccepter ==
    [first |-> "StopWorkers", afterWorkers |-> "return", afterAccepter |-> "return"]

AccepterFirst ==
    [first |-> "StopAccepter", afterWorkers |-> "return", afterAccepter |-> "StopWorkers"]

(* The order of DestroyThread.  Stage 5 stops the accepter before the        *)
(* workers; every other stage has it the other way round.                   *)
DestroyThread ==
    [first |-> "StopWorkers", afterWorkers |-> "StopAccepter", afterAccepter |-> "return"]

DestroyThread5 ==
    [first |-> "StopSender", afterWorkers |-> "return", afterAccepter |-> "StopWorkers"]

Order == IF stage = 5 THEN DestroyThread5 ELSE DestroyThread

StepDown == UNCHANGED <<stage, mClientInfos, task, clientVars, packetVars, fault>>

Clear(from, flag, to) ==
    /\ main = from
    /\ flags' = flags \ {flag}
    /\ main' = to
    /\ StepDown
    /\ UNCHANGED <<mIOCPHandle, at, mListenSocket, posted>>

Join(from, T, to) ==
    /\ main = from
    /\ \A t \in T : at[t] \in {"none", "exited"}
    /\ main' = to
    /\ StepDown
    /\ UNCHANGED <<flags, mIOCPHandle, at, mListenSocket, posted>>

(* Someone types quit.  Stages 1 to 3 have no End of their own. *)
Quit ==
    /\ main = "getline"
    /\ main' = IF stage < 4 THEN Order.first ELSE "End"
    /\ StepDown
    /\ UNCHANGED <<flags, mIOCPHandle, at, mListenSocket, posted>>

End == \/ Clear("End", "mIsRunProcessThread", "JoinProcess")
       \/ Join("JoinProcess", {mProcessThread}, Order.first)

StopSender == \/ Clear("StopSender", "mIsSenderRun", "JoinSender")
              \/ Join("JoinSender", {mSendThread}, "StopAccepter")

CloseHandle ==
    /\ main = "CloseHandle"
    /\ mIOCPHandle' = "closed"
    /\ main' = "JoinWorkers"
    /\ StepDown
    /\ UNCHANGED <<flags, at, mListenSocket, posted>>

JoinBeforeClose == \/ Clear("StopWorkers", "mIsWorkerRun", "JoinWorkers")
                   \/ Join("JoinWorkers", Workers, "CloseHandle")
                   \/ CloseHandle

StopWorkers == \/ Clear("StopWorkers", "mIsWorkerRun", "CloseHandle")
               \/ CloseHandle
               \/ Join("JoinWorkers", Workers, Order.afterWorkers)

(* The AcceptEx calls on the socket fail.  The key of their completions is   *)
(* that of the listen socket, 0: a worker that takes one calls CloseSocket   *)
(* for no client.                                                           *)
closesocket ==
    /\ main = "closesocket"
    /\ mListenSocket' = "closed"
    /\ posted' = 0
    /\ fault' = IF posted > 0 /\ mListenSocket = "bound" /\ mIOCPHandle = "open"
                THEN "nullClient" ELSE fault
    /\ main' = "JoinAccepter"
    /\ UNCHANGED <<stage, flags, mClientInfos, mIOCPHandle, at, task, clientVars, packetVars>>

StopAccepter == \/ Clear("StopAccepter", "mIsAccepterRun", "closesocket")
                \/ closesocket
                \/ Join("JoinAccepter", {mAccepterThread}, Order.afterAccepter)

------------------------------------------------------------------------------
(* The threads.  Each tests its flag at the top of its loop.                *)
Goto(t, place) == at' = [at EXCEPT ![t] = place]

(* Reading mClientInfos while CreateClient fills it is a data race. *)
UseClients == fault' = IF mClientInfos THEN fault ELSE "clientsNotBuilt"

Test(t) ==
    /\ at[t] = "test"
    /\ Goto(t, IF FlagOf(t) \in flags THEN BodyOf(t) ELSE "exited")
    /\ UNCHANGED <<stage, mainVars, task, mListenSocket, posted, clientVars, packetVars, fault>>

(* AccepterThread of stages 1 to 6.                                         *)

(* Stage 6 looks at the first slot only.  With no slot the thread returns. *)
Capacity == IF stage = 6 THEN 1 ELSE MAX_CLIENT
Taken == Cardinality({c \in Clients : conn[c] \in {"accepted", "open"} \/ io[c] = "reset"})

GetEmptyClientInfo ==
    /\ stage # 7
    /\ at[mAccepterThread] = "search"
    /\ Goto(mAccepterThread, IF Taken < Capacity THEN "accept" ELSE "exited")
    /\ UseClients
    /\ UNCHANGED <<stage, mainVars, task, mListenSocket, posted, clientVars, packetVars>>

(* accept waits for a client, and fails once the socket is not listening. *)
Accept ==
    /\ at[mAccepterThread] = "accept"
    /\ \/ /\ mListenSocket = "listening"
          /\ \E c \in Clients : /\ conn[c] = "backlog"
                                /\ conn' = [conn EXCEPT ![c] = "accepted"]
          /\ Goto(mAccepterThread, "connect")
       \/ /\ mListenSocket # "listening"
          /\ Goto(mAccepterThread, "test")
          /\ UNCHANGED conn
    /\ UNCHANGED <<stage, mainVars, task, mListenSocket, posted, io, bound, counted, packetVars,
                   fault>>

(* BindIOCompletionPort: CreateIoCompletionPort associates the socket and    *)
(* returns NULL if the port is not there.  Stages 1 to 3 test for NULL; the  *)
(* others test for INVALID_HANDLE_VALUE, which it never is.                 *)
Associate(c) == bound' = IF mIOCPHandle = "open" THEN bound \cup {c} ELSE bound
TestsForInvalid == FALSE
BindFails == stage < 4 /\ mIOCPHandle # "open"

(* OnConnect of the slot: the port and the first receive.  When it fails the *)
(* thread returns; stages 1 to 3 leave the client connected.                *)
Connect(c) ==
    /\ at[mAccepterThread] = "connect"
    /\ conn[c] = "accepted"
    /\ Associate(c)
    /\ \/ /\ ~ BindFails
          /\ conn' = [conn EXCEPT ![c] = "open"]
          /\ io' = [io EXCEPT ![c] = "kernel"]
          /\ counted' = counted \cup {c}
          /\ Goto(mAccepterThread, "test")
       \/ /\ conn' = [conn EXCEPT ![c] = IF stage < 4 THEN "open" ELSE "closed"]
          /\ Goto(mAccepterThread, "exited")
          /\ UNCHANGED <<io, counted>>
    /\ UNCHANGED <<stage, mainVars, task, mListenSocket, posted, packetVars, fault>>

(* AccepterThread of stage 7: one sweep posts AcceptEx for any of the free   *)
(* slots, as their wait allows.  AcceptEx needs a listening socket.         *)
PostAccept ==
    /\ stage = 7
    /\ at[mAccepterThread] = "search"
    /\ \/ UNCHANGED posted
       \/ /\ mListenSocket \in {"listening", "bound"}
          /\ posted' \in posted + 1 .. MAX_CLIENT - Taken
    /\ Goto(mAccepterThread, "test")
    /\ UseClients
    /\ UNCHANGED <<stage, mainVars, task, mListenSocket, clientVars, packetVars>>

------------------------------------------------------------------------------
(* WorkerThread.                                                            *)

(* Without an open port GetQueuedCompletionStatus fails with no overlapped. *)
WaitFails(w) ==
    /\ at[w] = "wait"
    /\ mIOCPHandle # "open"
    /\ Goto(w, "test")
    /\ UNCHANGED <<stage, mainVars, task, mListenSocket, posted, clientVars, packetVars, fault>>

Take(w, c) ==
    /\ at[w] = "wait"
    /\ mIOCPHandle = "open"
    /\ io[c] \in {"data", "failed", "accept", "reset"}
    /\ \A v \in Workers : task[v] # c
    /\ task' = [task EXCEPT ![w] = c]
    /\ Goto(w, "handle")
    /\ UNCHANGED <<stage, mainVars, mListenSocket, posted, clientVars, packetVars, fault>>

Handled(w) == /\ task' = [task EXCEPT ![w] = NoClient]
              /\ Goto(w, "test")

(* A receive: the packet goes to the packet thread, in stages 1 to 3 to      *)
(* SendMsg at once.  BindRecv posts the next receive, which may never complete   *)
(* or, if it was refused, cannot.                                           *)
OnReceive(w) ==
    /\ at[w] = "handle"
    /\ io[task[w]] = "data"
    /\ IF stage < 4
       THEN /\ handedOver' = handedOver \cup {task[w]}
            /\ UNCHANGED mPacketDataQueue
       ELSE /\ mPacketDataQueue' = Append(mPacketDataQueue, task[w])
            /\ UNCHANGED handedOver
    /\ io' = [io EXCEPT ![task[w]] = "again"]
    /\ Handled(w)
    /\ UNCHANGED <<stage, mainVars, mListenSocket, posted, conn, bound, counted, fault>>

(* A failed or empty receive.  Stage 2 only prints it. *)
CloseSocket(w) ==
    /\ at[w] = "handle"
    /\ io[task[w]] = "failed"
    /\ conn' = IF stage = 2 THEN conn ELSE [conn EXCEPT ![task[w]] = "closed"]
    /\ io' = [io EXCEPT ![task[w]] = "none"]
    /\ Handled(w)
    /\ UNCHANGED <<stage, mainVars, mListenSocket, posted, bound, counted, packetVars, fault>>

(* An accept of stage 7: OnConnect of the slot here, in the worker. *)
Acceptcompletion(w) ==
    /\ at[w] = "handle"
    /\ io[task[w]] = "accept"
    /\ Associate(task[w])
    /\ \/ /\ conn' = [conn EXCEPT ![task[w]] = "open"]
          /\ io' = [io EXCEPT ![task[w]] = "kernel"]
          /\ counted' = counted \cup {task[w]}
       \/ /\ conn' = [conn EXCEPT ![task[w]] = "closed"]
          /\ io' = [io EXCEPT ![task[w]] = "none"]
          /\ UNCHANGED counted
    /\ Handled(w)
    /\ UNCHANGED <<stage, mainVars, mListenSocket, posted, packetVars, fault>>

(* An AcceptEx that failed.  Its completion has the key of the listen        *)
(* socket, 0: CloseSocket calls a method of no client, and the process ends. *)
CloseNull(w) ==
    /\ at[w] = "handle"
    /\ io[task[w]] = "reset"
    /\ main' = "crashed"
    /\ at' = [t \in Threads |-> "exited"]
    /\ mListenSocket' = "closed"
    /\ mIOCPHandle' = "closed"
    /\ posted' = 0
    /\ conn' = [c \in Clients |-> "closed"]
    /\ io' = [c \in Clients |-> "none"]
    /\ UNCHANGED <<stage, flags, mClientInfos, task, bound, counted, packetVars, fault>>

------------------------------------------------------------------------------
(* ProcessPacket: SendMsg for every packet, whatever its client is by now.  *)
ProcessPacket ==
    /\ at[mProcessThread] = "deque"
    /\ IF mPacketDataQueue = << >>
       THEN UNCHANGED <<packetVars, fault>>
       ELSE /\ UseClients
            /\ mPacketDataQueue' = Tail(mPacketDataQueue)
            /\ handedOver' = handedOver \cup {Head(mPacketDataQueue)}
    /\ Goto(mProcessThread, "test")
    /\ UNCHANGED <<stage, mainVars, task, mListenSocket, posted, clientVars>>

(* SendThread looks for connected clients and calls their SendIO. *)
SendThread ==
    /\ at[mSendThread] = "poll"
    /\ Goto(mSendThread, "test")
    /\ UseClients
    /\ UNCHANGED <<stage, mainVars, task, mListenSocket, posted, clientVars, packetVars>>

------------------------------------------------------------------------------
(* The kernel and the clients.                                              *)
Outside == UNCHANGED <<stage, mainVars, at, task, mListenSocket, bound, counted,
                       packetVars, fault>>

Arrive(c) ==
    /\ conn[c] = "away"
    /\ mListenSocket \in {"listening", "bound"}
    /\ conn' = [conn EXCEPT ![c] = "backlog"]
    /\ Outside
    /\ UNCHANGED <<io, posted>>

(* An AcceptEx completes: on the port, if the listen socket is bound to it. *)
CompleteAccept(c) ==
    /\ posted > 0
    /\ conn[c] = "backlog"
    /\ conn' = [conn EXCEPT ![c] = "accepted"]
    /\ io' = [io EXCEPT ![c] = IF mListenSocket = "bound" THEN "accept" ELSE "none"]
    /\ posted' = posted - 1
    /\ Outside

(* An AcceptEx fails: its client has reset the connection.  On a listen      *)
(* socket that is not bound to the port nobody hears of it.                 *)
FailAccept(c) ==
    /\ posted > 0
    /\ mListenSocket = "bound"
    /\ conn[c] = "backlog"
    /\ conn' = [conn EXCEPT ![c] = "closed"]
    /\ io' = [io EXCEPT ![c] = "reset"]
    /\ posted' = posted - 1
    /\ Outside

(* A receive completes with the client's message, or without: it has left. *)
CompleteReceive(c) ==
    /\ c \in bound
    /\ \/ io[c] = "kernel" /\ io' = [io EXCEPT ![c] = "data"]
       \/ io[c] \in {"kernel", "again"} /\ io' = [io EXCEPT ![c] = "failed"]
    /\ Outside
    /\ UNCHANGED <<conn, posted>>

------------------------------------------------------------------------------
MainStep == \/ InitSocket \/ BindandListen \/ BindandListen7 \/ Run
            \/ CreateClient \/ CreatePort
            \/ CreateWorkerThread \/ CreateAccepterThread \/ CreateSendThread
            \/ End \/ StopSender \/ StopWorkers \/ StopAccepter

AccepterStep == \/ Test(mAccepterThread)
                \/ GetEmptyClientInfo
                \/ Accept
                \/ \E c \in Clients : Connect(c)
                \/ PostAccept

WorkerStep(w) == \/ Test(w)
                 \/ WaitFails(w)
                 \/ \E c \in Clients : Take(w, c)
                 \/ OnReceive(w)
                 \/ CloseSocket(w)
                 \/ Acceptcompletion(w)

ProcessStep == Test(mProcessThread) \/ ProcessPacket
SendStep == Test(mSendThread) \/ SendThread

ClientStep(c) == Arrive(c) \/ CompleteAccept(c) \/ FailAccept(c) \/ CompleteReceive(c)

Next == \/ MainStep
        \/ Quit
        \/ AccepterStep
        \/ \E w \in Workers : WorkerStep(w) \/ CloseNull(w)
        \/ ProcessStep
        \/ SendStep
        \/ \E c \in Clients : ClientStep(c)

Spec == Init /\ [][Next]_vars

(* Every thread, main among them, gets to run; what clients do, and whether  *)
(* anybody types quit, is left open.                                        *)
FairSpec == /\ Spec
            /\ WF_vars(MainStep)
            /\ WF_vars(AccepterStep)
            /\ \A w \in Workers : WF_vars(WorkerStep(w) \/ CloseNull(w))
            /\ WF_vars(ProcessStep)
            /\ WF_vars(SendStep)

------------------------------------------------------------------------------
MainPlaces == {"InitSocket", "BindandListen", "Run", "CreateClient", "CreatePort",
               "CreateWorkerThread", "CreateAccepterThread", "CreateSendThread", "getline"}
QuitPlaces == {"End", "JoinProcess", "StopSender", "JoinSender", "StopWorkers", "CloseHandle",
               "JoinWorkers", "StopAccepter", "closesocket", "JoinAccepter", "return"}

ThreadPlaces == {"none", "test", "wait", "handle", "search", "accept", "connect", "deque", "poll",
                 "exited"}

(* Every handle, flag and thread place has its type. *)
TypeOK ==
    /\ stage \in Stages
    /\ main \in MainPlaces \cup QuitPlaces \cup {"crashed"}
    /\ flags \subseteq {"mIsRunProcessThread", "mIsWorkerRun", "mIsAccepterRun", "mIsSenderRun"}
    /\ at \in [Threads -> ThreadPlaces]
    /\ task \in [Workers -> Clients \cup {NoClient}]
    /\ mListenSocket \in {"invalid", "open", "listening", "bound", "closed"}
    /\ mIOCPHandle \in {"invalid", "null", "open", "closed"}
    /\ mClientInfos \in BOOLEAN
    /\ posted \in Nat
    /\ conn \in [Clients -> {"away", "backlog", "accepted", "open", "closed"}]
    /\ io \in [Clients -> {"none", "kernel", "data", "again", "failed", "accept", "reset"}]
    /\ mPacketDataQueue \in Seq(Clients)
    /\ bound \subseteq Clients
    /\ counted \subseteq Clients
    /\ handedOver \subseteq Clients
    /\ fault \in {"none", "nullClient", "clientsNotBuilt"}

(* When main returns, and the server it holds goes out of scope, no thread   *)
(* of that server is left, however far the start had come.                  *)
NoThreadOutlivesServer == main = "return" => \A t \in Threads : at[t] \in {"none", "exited"}

(* A client OnConnect was called for and that was counted has its socket on  *)
(* the port: in stages 1 to 3 because the accepter, which may connect one    *)
(* after DestroyThread has closed the port, notices; in stage 5 because it   *)
(* has been stopped by then.  In stages 4, 6 and 7 neither is so.           *)
CountedAreBound == stage \in {1, 2, 3, 5} => counted \subseteq bound

(* Stopping the server makes no worker close a null client: closesocket      *)
(* makes the outstanding AcceptEx calls fail, and their completions have the *)
(* null key, but stage 7 has got rid of the workers by then.  An AcceptEx    *)
(* that fails before is another matter: see CloseNull.                      *)
NoNullClientAtStop == fault # "nullClient"

(* No thread looks at the clients before CreateClient is done, though the    *)
(* packet thread is started before it and nothing makes it wait.            *)
ClientsBuiltFirst == fault # "clientsNotBuilt"

(* What main has joined when it is at a place of its way down. *)
BehindJoinProcess == QuitPlaces \ {"End", "JoinProcess"}
BehindJoinSender == BehindJoinProcess \ {"StopSender", "JoinSender"}
BehindJoinWorkers ==
    IF stage = 5 THEN {"return"} ELSE {"StopAccepter", "closesocket", "JoinAccepter", "return"}
BehindJoinAccepter ==
    IF stage = 5 THEN {"StopWorkers", "CloseHandle", "JoinWorkers", "return"} ELSE {"return"}
BehindCloseHandle == BehindJoinWorkers \cup {"JoinWorkers"}

Gone(t) == at[t] \in {"none", "exited"}

JoinInv == /\ main \in BehindJoinProcess => Gone(mProcessThread)
           /\ main \in BehindJoinSender => Gone(mSendThread)
           /\ main \in BehindJoinWorkers => \A w \in Workers : Gone(w)
           /\ main \in BehindJoinAccepter => Gone(mAccepterThread)
           /\ stage # 5 => Gone(mSendThread)
           /\ stage < 4 => Gone(mProcessThread)
           /\ main = "Run" => stage >= 4
           /\ main \in {"CreateSendThread", "StopSender", "JoinSender"} => stage = 5

(* The port: made before the accepter is started, but in stage 7, and closed *)
(* on the way down, in stage 5 after the accepter is gone.  Only stage 7     *)
(* accepts through it.                                                      *)
PortInv == /\ stage # 7 /\ main \in {"CreateWorkerThread", "CreateAccepterThread"}
                 => mIOCPHandle = "open"
           /\ main \in MainPlaces \ {"CreateSendThread", "getline"} => Gone(mAccepterThread)
           /\ stage = 5 /\ ~ Gone(mAccepterThread) => mIOCPHandle = "open"
           /\ main \in BehindCloseHandle => mIOCPHandle = "closed"
           /\ mListenSocket = "bound" => stage = 7
           /\ \A c \in Clients : io[c] \in {"accept", "reset"} => stage = 7

(* Until CreateClient only the packet thread runs, and it finds no packet. *)
BuiltInv == ~ mClientInfos => /\ main \in {"InitSocket", "BindandListen", "Run", "CreateClient"}
                              /\ \A t \in Threads \ {mProcessThread} : at[t] = "none"
                              /\ mPacketDataQueue = << >>

(* A worker that handles something handles a client's completion. *)
HandleInv == \A w \in Workers : at[w] = "handle" => task[w] \in Clients

(* The inductive invariant: starting and stopping in all seven stages. *)
LifecycleInv == /\ TypeOK
                /\ HandleInv
                /\ JoinInv
                /\ PortInv
                /\ BuiltInv
                /\ CountedAreBound
                /\ NoNullClientAtStop
                /\ ClientsBuiltFirst

(* Once someone has typed quit, main returns: no join waits for ever for a   *)
(* thread that waits in accept or on the port, or for one that never ran.   *)
(* Only the crash of CloseNull can come before it.                          *)
QuitTerminates == main \in QuitPlaces ~> main \in {"return", "crashed"}

(* A message a receive has completed with reaches SendMsg, by way of a worker *)
(* and, from stage 4, of the queue and the packet thread, unless the server  *)
(* is being stopped or crashes.  Whether SendMsg sends it is another matter:  *)
(* SendQueue, DoubleBuffer and the others say when it does not.             *)
HandedOverUnlessQuit ==
    \A c \in Clients :
        io[c] = "data" ~> c \in handedOver \/ main \in QuitPlaces \cup {"crashed"}
==============================================================================
