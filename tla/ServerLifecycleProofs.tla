------------------------- MODULE ServerLifecycleProofs -------------------------
(* Proofs about ServerLifecycle, for any stages, workers, clients and        *)
(* number of slots.                                                         *)
EXTENDS ServerLifecycle, FiniteSetTheorems, TLAPS

LEMMA InitInv == Init => LifecycleInv
<1> SUFFICES ASSUME Init PROVE LifecycleInv
  OBVIOUS
<1>1. TypeOK
  <2>1. /\ main \in MainPlaces \cup QuitPlaces \cup {"crashed"}
        /\ flags \subseteq {"mIsRunProcessThread", "mIsWorkerRun", "mIsAccepterRun", "mIsSenderRun"}
    BY DEF Init, MainPlaces
  <2>2. at \in [Threads -> ThreadPlaces]
    BY DEF Init, ThreadPlaces
  <2>3. /\ mListenSocket \in {"invalid", "open", "listening", "bound", "closed"}
        /\ mIOCPHandle \in {"invalid", "null", "open", "closed"}
        /\ fault \in {"none", "nullClient", "clientsNotBuilt"}
    BY DEF Init
  <2>4. /\ conn \in [Clients -> {"away", "backlog", "accepted", "open", "closed"}]
        /\ io \in [Clients -> {"none", "kernel", "data", "again", "failed", "accept", "reset"}]
        /\ task \in [Workers -> Clients \cup {NoClient}]
    BY DEF Init
  <2>5. stage \in Stages /\ posted \in Nat /\ mPacketDataQueue \in Seq(Clients)
    BY DEF Init
  <2>7. mClientInfos \in BOOLEAN
    BY DEF Init
  <2>6. bound \subseteq Clients /\ counted \subseteq Clients /\ handedOver \subseteq Clients
    BY DEF Init
  <2> QED
    BY <2>1, <2>2, <2>3, <2>4, <2>5, <2>6, <2>7 DEF TypeOK
<1>2. HandleInv /\ JoinInv /\ PortInv /\ BuiltInv
  BY ThreadAssumption
  DEF Init, HandleInv, JoinInv, PortInv, BuiltInv, Gone, Threads, QuitPlaces, BehindJoinProcess,
      BehindJoinSender, BehindJoinWorkers, BehindJoinAccepter, BehindCloseHandle
<1>3. CountedAreBound /\ NoNullClientAtStop /\ ClientsBuiltFirst
  BY DEF Init, CountedAreBound, NoNullClientAtStop, ClientsBuiltFirst
<1> QED
  BY <1>1, <1>2, <1>3 DEF LifecycleInv

------------------------------------------------------------------------------
(* The moves of a thread keep the type of at.                                *)
LEMMA GotoType ==
  ASSUME at \in [Threads -> ThreadPlaces], NEW t, NEW p \in ThreadPlaces, Goto(t, p)
  PROVE  at' \in [Threads -> ThreadPlaces]
BY DEF Goto

LEMMA StartType ==
  ASSUME at \in [Threads -> ThreadPlaces], NEW T, Start(T)
  PROVE  at' \in [Threads -> ThreadPlaces]
BY DEF Start, ThreadPlaces

(* A thread that moves was neither new nor gone, and is not new afterwards;  *)
(* the others stay where they are.                                          *)
Moves(t) == /\ t \in Threads
            /\ ~ Gone(t)
            /\ \E p \in ThreadPlaces \ {"none"} : Goto(t, p)

LEMMA MovesOne ==
  ASSUME TypeOK, NEW t, Moves(t)
  PROVE  /\ at' \in [Threads -> ThreadPlaces]
         /\ at'[t] # "none"
         /\ \A u \in Threads \ {t} : at'[u] = at[u]
         /\ \A u \in Threads : Gone(u) => Gone(u)'
         /\ \A u \in Threads : at'[u] = "none" <=> at[u] = "none"
BY DEF TypeOK, Moves, Goto, Gone, ThreadPlaces

(* What each step of a thread does to at.                                    *)
LEMMA ThreadMoves ==
  ASSUME TypeOK
  PROVE  /\ AccepterStep => Moves(mAccepterThread)
         /\ \A w \in Workers : WorkerStep(w) => Moves(w)
         /\ ProcessStep => Moves(mProcessThread)
         /\ SendStep => Moves(mSendThread)
<1>1. ASSUME NEW t \in Threads, Test(t) PROVE Moves(t)
  <2>1. Goto(t, BodyOf(t)) \/ Goto(t, "exited")
    BY <1>1 DEF Test
  <2>2. BodyOf(t) \in ThreadPlaces \ {"none"}
    BY DEF BodyOf, ThreadPlaces
  <2> QED
    BY <1>1, <2>1, <2>2 DEF Test, Moves, Gone, ThreadPlaces
<1>2. AccepterStep => Moves(mAccepterThread)
  BY <1>1 DEF AccepterStep, GetEmptyClientInfo, Accept, Connect, PostAccept, Moves, Gone, Threads,
              ThreadPlaces
<1>3. ASSUME NEW w \in Workers, WorkerStep(w) PROVE Moves(w)
  BY <1>1, <1>3 DEF WorkerStep, WaitFails, Take, OnReceive, CloseSocket, Acceptcompletion, Handled,
                    Moves, Gone, Threads, ThreadPlaces
<1>4. ProcessStep => Moves(mProcessThread)
  BY <1>1 DEF ProcessStep, ProcessPacket, Moves, Gone, Threads, ThreadPlaces
<1>5. SendStep => Moves(mSendThread)
  BY <1>1 DEF SendStep, SendThread, Moves, Gone, Threads, ThreadPlaces
<1> QED
  BY <1>2, <1>3, <1>4, <1>5

(* What a step of a thread leaves alone.                                     *)
LEMMA ThreadsLeave ==
  ASSUME \/ AccepterStep \/ (\E w \in Workers : WorkerStep(w)) \/ ProcessStep \/ SendStep
  PROVE  UNCHANGED <<stage, mainVars, mListenSocket>>
BY DEF AccepterStep, Test, GetEmptyClientInfo, Accept, Connect, PostAccept,
       WorkerStep, WaitFails, Take, OnReceive, CloseSocket, Acceptcompletion,
       ProcessStep, ProcessPacket, SendStep, SendThread

------------------------------------------------------------------------------
LEMMA MainType == TypeOK /\ (MainStep \/ Quit) => TypeOK'
<1> SUFFICES ASSUME TypeOK, MainStep \/ Quit PROVE TypeOK'
  OBVIOUS
<1> USE DEF mainVars, clientVars, packetVars
<1>rest. ASSUME UNCHANGED <<stage, task, clientVars, packetVars>>,
                main' \in MainPlaces \cup QuitPlaces,
                flags' \subseteq {"mIsRunProcessThread", "mIsWorkerRun", "mIsAccepterRun",
                                 "mIsSenderRun"},
                at' \in [Threads -> ThreadPlaces],
                mListenSocket' \in {"invalid", "open", "listening", "bound", "closed"},
                mIOCPHandle' \in {"invalid", "null", "open", "closed"},
                mClientInfos' \in BOOLEAN,
                posted' \in Nat,
                fault' \in {"none", "nullClient", "clientsNotBuilt"}
         PROVE  TypeOK'
  BY <1>rest DEF TypeOK
<1>1. CASE InitSocket
  BY <1>1, <1>rest DEF InitSocket, TypeOK, MainPlaces
<1>2. CASE BindandListen
  BY <1>2, <1>rest DEF BindandListen, TypeOK, MainPlaces
<1>3. CASE BindandListen7
  BY <1>3, <1>rest DEF BindandListen7, TypeOK, MainPlaces
<1>4. CASE Run
  BY <1>4, <1>rest, StartType DEF Run, TypeOK, MainPlaces
<1>5. CASE CreateClient
  BY <1>5, <1>rest DEF CreateClient, TypeOK, MainPlaces
<1>6. CASE CreatePort
  BY <1>6, <1>rest DEF CreatePort, TypeOK, MainPlaces
<1>7. CASE CreateWorkerThread
  BY <1>7, <1>rest, StartType DEF CreateWorkerThread, TypeOK, MainPlaces
<1>8. CASE CreateAccepterThread
  BY <1>8, <1>rest, StartType DEF CreateAccepterThread, TypeOK, MainPlaces
<1>9. CASE CreateSendThread
  BY <1>9, <1>rest, StartType DEF CreateSendThread, TypeOK, MainPlaces
<1>10. Order.first \in QuitPlaces /\ Order.afterWorkers \in QuitPlaces
       /\ Order.afterAccepter \in QuitPlaces
  BY DEF Order, DestroyThread, DestroyThread5, QuitPlaces
<1>11. ASSUME NEW from, NEW flag, NEW to \in QuitPlaces, Clear(from, flag, to) PROVE TypeOK'
  BY <1>11, <1>rest DEF Clear, StepDown, TypeOK
<1>12. ASSUME NEW from, NEW T, NEW to \in QuitPlaces, Join(from, T, to) PROVE TypeOK'
  BY <1>12, <1>rest DEF Join, StepDown, TypeOK
<1>13. CASE Quit
  BY <1>13, <1>10, <1>rest DEF Quit, StepDown, TypeOK, QuitPlaces
<1>14. CASE CloseHandle
  BY <1>14, <1>rest DEF CloseHandle, StepDown, TypeOK, QuitPlaces
<1>15. CASE closesocket
  BY <1>15, <1>rest DEF closesocket, TypeOK, QuitPlaces
<1>16. CASE End
  BY <1>16, <1>10, <1>11, <1>12 DEF End, QuitPlaces
<1>17. CASE StopSender
  BY <1>17, <1>11, <1>12 DEF StopSender, QuitPlaces
<1>18. CASE StopWorkers
  BY <1>18, <1>10, <1>11, <1>12, <1>14 DEF StopWorkers, QuitPlaces
<1>19. CASE StopAccepter
  BY <1>19, <1>10, <1>11, <1>12, <1>15 DEF StopAccepter, QuitPlaces
<1> QED
  BY <1>1, <1>2, <1>3, <1>4, <1>5, <1>6, <1>7, <1>8, <1>9, <1>13, <1>16, <1>17, <1>18, <1>19
  DEF MainStep

LEMMA ThreadType ==
  ASSUME TypeOK, HandleInv,
         \/ AccepterStep \/ (\E w \in Workers : WorkerStep(w)) \/ ProcessStep \/ SendStep
  PROVE  TypeOK' /\ HandleInv'
<1> USE DEF clientVars, packetVars
<1> DEFINE Conn == {"away", "backlog", "accepted", "open", "closed"}
           IO == {"none", "kernel", "data", "again", "failed", "accept", "reset"}
<1>at. /\ at' \in [Threads -> ThreadPlaces]
       /\ UNCHANGED <<stage, mainVars, mListenSocket>>
  BY MovesOne, ThreadMoves, ThreadsLeave
<1>fault. ASSUME UseClients PROVE fault' \in {"none", "nullClient", "clientsNotBuilt"}
  BY <1>fault DEF UseClients, TypeOK
<1>rest. ASSUME task' \in [Workers -> Clients \cup {NoClient}],
                posted' \in Nat,
                conn' \in [Clients -> Conn],
                io' \in [Clients -> IO],
                mPacketDataQueue' \in Seq(Clients),
                bound' \subseteq Clients, counted' \subseteq Clients, handedOver' \subseteq Clients,
                fault' \in {"none", "nullClient", "clientsNotBuilt"}
         PROVE  TypeOK'
  BY <1>at, <1>rest DEF TypeOK, mainVars
<1>same. ASSUME UNCHANGED <<task, posted, clientVars, packetVars>>,
                UseClients \/ UNCHANGED fault
         PROVE  TypeOK'
  BY <1>same, <1>rest, <1>fault DEF TypeOK
<1>others. ASSUME UNCHANGED task, NEW t \in Threads \ Workers, NEW p \in ThreadPlaces, Goto(t, p)
           PROVE  HandleInv'
  BY <1>others DEF TypeOK, HandleInv, Goto, Threads
<1>1. ASSUME NEW t \in Threads, Test(t) PROVE TypeOK' /\ HandleInv'
  <2>1. TypeOK'
    BY <1>1, <1>same DEF Test
  <2>2. Goto(t, BodyOf(t)) \/ Goto(t, "exited")
    BY <1>1 DEF Test
  <2>3. BodyOf(t) # "handle"
    BY DEF BodyOf
  <2>4. HandleInv'
    BY <1>1, <2>2, <2>3 DEF Test, TypeOK, HandleInv, Goto, Threads
  <2> QED
    BY <2>1, <2>4
<1>threads. /\ mAccepterThread \in Threads \ Workers
            /\ mProcessThread \in Threads \ Workers
            /\ mSendThread \in Threads \ Workers
            /\ Workers \subseteq Threads
  BY ThreadAssumption DEF Threads
<1>2. CASE GetEmptyClientInfo
  <2>1. TypeOK'
    BY <1>2, <1>same DEF GetEmptyClientInfo
  <2>2. HandleInv'
    BY <1>2, <1>others, <1>threads DEF GetEmptyClientInfo, ThreadPlaces
  <2> QED
    BY <2>1, <2>2
<1>3. CASE Accept
  <2>1. conn' \in [Clients -> Conn]
    BY <1>3 DEF Accept, TypeOK
  <2>2. TypeOK'
    BY <1>3, <2>1, <1>rest DEF Accept, TypeOK
  <2>3. HandleInv'
    BY <1>3, <1>others, <1>threads DEF Accept, ThreadPlaces
  <2> QED
    BY <2>2, <2>3
<1>4. ASSUME NEW c \in Clients, Connect(c) PROVE TypeOK' /\ HandleInv'
  <2>1. /\ conn' \in [Clients -> Conn]
        /\ io' \in [Clients -> IO]
        /\ bound' \subseteq Clients
        /\ counted' \subseteq Clients
    BY <1>4 DEF Connect, Associate, TypeOK
  <2>2. TypeOK'
    BY <1>4, <2>1, <1>rest DEF Connect, TypeOK
  <2>3. HandleInv'
    BY <1>4, <1>others, <1>threads DEF Connect, ThreadPlaces
  <2> QED
    BY <2>2, <2>3
<1>5. CASE PostAccept
  <2>1. posted' \in Nat
    <3>1. Taken \in Nat
      <4>1. IsFiniteSet({c \in Clients : conn[c] \in {"accepted", "open"} \/ io[c] = "reset"})
        BY ClientAssumption, FS_Subset
      <4> QED
        BY <4>1, FS_CardinalityType DEF Taken
    <3> QED
      BY <1>5, <3>1, ClientAssumption DEF PostAccept, TypeOK
  <2>2. TypeOK'
    BY <1>5, <2>1, <1>rest, <1>fault DEF PostAccept, TypeOK
  <2>3. HandleInv'
    BY <1>5, <1>others, <1>threads DEF PostAccept, ThreadPlaces
  <2> QED
    BY <2>2, <2>3
<1>6. ASSUME NEW w \in Workers, WorkerStep(w) PROVE TypeOK' /\ HandleInv'
  <2>1. CASE Test(w)
    BY <1>1, <1>threads, <2>1
  <2>2. CASE WaitFails(w)
    <3>1. TypeOK'
      BY <2>2, <1>same DEF WaitFails
    <3>2. HandleInv'
      BY <2>2, <1>threads DEF WaitFails, HandleInv, Goto, TypeOK
    <3> QED
      BY <3>1, <3>2
  <2>3. ASSUME NEW c \in Clients, Take(w, c) PROVE TypeOK' /\ HandleInv'
    <3>1. TypeOK'
      BY <2>3, <1>rest DEF Take, TypeOK
    <3>2. HandleInv'
      BY <2>3, <1>threads DEF Take, HandleInv, Goto, TypeOK
    <3> QED
      BY <3>1, <3>2
  <2>handled. ASSUME Handled(w)
              PROVE  /\ task' \in [Workers -> Clients \cup {NoClient}]
                     /\ HandleInv'
    BY <2>handled, <1>threads DEF Handled, HandleInv, Goto, TypeOK
  <2>4. CASE OnReceive(w)
    <3>1. task[w] \in Clients
      BY <2>4 DEF OnReceive, HandleInv
    <3>2. /\ io' \in [Clients -> IO]
          /\ mPacketDataQueue' \in Seq(Clients)
          /\ handedOver' \subseteq Clients
      <4>1. Append(mPacketDataQueue, task[w]) \in Seq(Clients)
        BY <3>1 DEF TypeOK
      <4>2. io' \in [Clients -> IO]
        BY <2>4 DEF OnReceive, TypeOK
      <4>3. CASE stage < 4
        BY <2>4, <3>1, <4>2, <4>3 DEF OnReceive, TypeOK
      <4>4. CASE ~ (stage < 4)
        BY <2>4, <4>1, <4>2, <4>4 DEF OnReceive, TypeOK
      <4> QED
        BY <4>3, <4>4
    <3> QED
      BY <2>4, <3>2, <2>handled, <1>rest DEF OnReceive, TypeOK
  <2>5. CASE CloseSocket(w)
    <3>1. conn' \in [Clients -> Conn] /\ io' \in [Clients -> IO]
      BY <2>5 DEF CloseSocket, TypeOK
    <3> QED
      BY <2>5, <3>1, <2>handled, <1>rest DEF CloseSocket, TypeOK
  <2>6. CASE Acceptcompletion(w)
    <3>1. task[w] \in Clients
      BY <2>6 DEF Acceptcompletion, HandleInv
    <3>2. /\ conn' \in [Clients -> Conn]
          /\ io' \in [Clients -> IO]
          /\ bound' \subseteq Clients
          /\ counted' \subseteq Clients
      BY <2>6, <3>1 DEF Acceptcompletion, Associate, TypeOK
    <3> QED
      BY <2>6, <3>2, <2>handled, <1>rest DEF Acceptcompletion, TypeOK
  <2> QED
    BY <1>6, <2>1, <2>2, <2>3, <2>4, <2>5, <2>6 DEF WorkerStep
<1>7. CASE ProcessPacket
  <2>1. /\ mPacketDataQueue' \in Seq(Clients)
        /\ handedOver' \subseteq Clients
    <3>1. CASE mPacketDataQueue = << >>
      BY <1>7, <3>1 DEF ProcessPacket, TypeOK
    <3>2. CASE mPacketDataQueue # << >>
      <4>1. Head(mPacketDataQueue) \in Clients /\ Tail(mPacketDataQueue) \in Seq(Clients)
        BY <3>2 DEF TypeOK
      <4> QED
        BY <1>7, <3>2, <4>1 DEF ProcessPacket, TypeOK
    <3> QED
      BY <3>1, <3>2
  <2>2. fault' \in {"none", "nullClient", "clientsNotBuilt"}
    BY <1>7, <1>fault DEF ProcessPacket, TypeOK
  <2>3. TypeOK'
    BY <1>7, <2>1, <2>2, <1>rest DEF ProcessPacket, TypeOK
  <2>4. HandleInv'
    BY <1>7, <1>others, <1>threads DEF ProcessPacket, ThreadPlaces
  <2> QED
    BY <2>3, <2>4
<1>8. CASE SendThread
  <2>1. TypeOK'
    BY <1>8, <1>same DEF SendThread
  <2>2. HandleInv'
    BY <1>8, <1>others, <1>threads DEF SendThread, ThreadPlaces
  <2> QED
    BY <2>1, <2>2
<1> QED
  BY <1>threads, <1>1, <1>2, <1>3, <1>4, <1>5, <1>6, <1>7, <1>8
  DEF AccepterStep, ProcessStep, SendStep

LEMMA ClientType ==
  ASSUME TypeOK, NEW c \in Clients, ClientStep(c)
  PROVE  TypeOK'
<1>1. CASE Arrive(c)
  BY <1>1 DEF Arrive, Outside, TypeOK, mainVars, packetVars
<1>2. CASE CompleteAccept(c)
  BY <1>2 DEF CompleteAccept, Outside, TypeOK, mainVars, packetVars
<1>3. CASE CompleteReceive(c)
  BY <1>3 DEF CompleteReceive, Outside, TypeOK, mainVars, packetVars
<1>4. CASE FailAccept(c)
  BY <1>4 DEF FailAccept, Outside, TypeOK, mainVars, packetVars
<1> QED
  BY <1>1, <1>2, <1>3, <1>4 DEF ClientStep

(* The step that ends the process: nothing runs after it.                    *)
LEMMA CrashType ==
  ASSUME TypeOK, NEW w \in Workers, CloseNull(w)
  PROVE  /\ TypeOK' /\ main' = "crashed"
         /\ \A t \in Threads : at'[t] = "exited"
         /\ \A c \in Clients : io'[c] = "none"
<1>1. /\ at' \in [Threads -> ThreadPlaces]
      /\ conn' \in [Clients -> {"away", "backlog", "accepted", "open", "closed"}]
      /\ io' \in [Clients -> {"none", "kernel", "data", "again", "failed", "accept", "reset"}]
  BY DEF CloseNull, ThreadPlaces
<1>2. TypeOK'
  BY <1>1 DEF CloseNull, TypeOK, packetVars
<1> QED
  BY <1>2 DEF CloseNull

------------------------------------------------------------------------------
(* What a step of main does to the threads.                                  *)
LEMMA MainLeaves ==
  ASSUME MainStep \/ Quit, main \notin MainPlaces \/ main = "getline"
  PROVE  UNCHANGED <<stage, at, mClientInfos, mPacketDataQueue, bound, counted>>
BY DEF MainPlaces, QuitPlaces, MainStep, Quit, InitSocket, BindandListen, BindandListen7, Run,
       CreateClient, CreatePort, CreateWorkerThread, CreateAccepterThread, CreateSendThread,
       End, StopSender, StopWorkers, StopAccepter, CloseHandle, closesocket, Clear, Join, StepDown,
       clientVars, packetVars

(* Threads that are gone stay gone, and main stops each after the one before *)
(* it.                                                                      *)
LEMMA JoinStep ==
  ASSUME TypeOK, JoinInv, Next
  PROVE  JoinInv'
<1> DEFINE Steady == /\ UNCHANGED <<stage, main>>
                     /\ \A t \in Threads : Gone(t) => Gone(t)'
<1>threads. /\ mAccepterThread \in Threads /\ mProcessThread \in Threads
            /\ mSendThread \in Threads /\ Workers \subseteq Threads
  BY DEF Threads
<1>1. CASE Steady
  BY <1>1, <1>threads DEF JoinInv, BehindJoinProcess, BehindJoinSender, BehindJoinWorkers,
     BehindJoinAccepter
<1>2. ASSUME AccepterStep \/ (\E w \in Workers : WorkerStep(w)) \/ ProcessStep \/ SendStep
      PROVE  Steady
  BY <1>2, ThreadMoves, ThreadsLeave, MovesOne DEF mainVars
<1>3. ASSUME NEW c \in Clients, ClientStep(c) PROVE Steady
  BY <1>3 DEF ClientStep, Arrive, CompleteAccept, FailAccept, CompleteReceive, Outside,
     mainVars, Gone
<1>4. CASE InitSocket \/ BindandListen \/ BindandListen7 \/ CreateClient \/ CreatePort
  BY <1>4, StagesAssumption
  DEF InitSocket, BindandListen, BindandListen7, CreateClient, CreatePort, JoinInv, Gone,
  QuitPlaces,
      BehindJoinProcess, BehindJoinSender, BehindJoinWorkers, BehindJoinAccepter, TypeOK
<1>5. CASE Run \/ CreateWorkerThread \/ CreateAccepterThread \/ CreateSendThread
  BY <1>5, <1>threads, ThreadAssumption, StagesAssumption
  DEF Run, CreateWorkerThread, StartedWorkers, CreateAccepterThread, CreateSendThread, Start,
  JoinInv, Gone,
      QuitPlaces, BehindJoinProcess, BehindJoinSender, BehindJoinWorkers, BehindJoinAccepter, TypeOK
<1>6. CASE Quit \/ End \/ StopSender \/ StopWorkers \/ StopAccepter
  BY <1>6
  DEF Quit, End, StopSender, StopWorkers, StopAccepter, CloseHandle, closesocket, Clear, Join,
      StepDown, Order, DestroyThread, DestroyThread5, JoinInv, Gone, QuitPlaces, TypeOK,
      BehindJoinProcess, BehindJoinSender, BehindJoinWorkers, BehindJoinAccepter
<1>7. ASSUME NEW w \in Workers, CloseNull(w) PROVE JoinInv'
  <2>1. main' = "crashed" /\ \A t \in Threads : Gone(t)'
    BY <1>7, CrashType DEF Gone
  <2> QED
    BY <2>1, <1>threads
    DEF JoinInv, QuitPlaces, BehindJoinProcess, BehindJoinSender, BehindJoinWorkers,
    BehindJoinAccepter
<1> QED
  BY <1>1, <1>2, <1>3, <1>4, <1>5, <1>6, <1>7 DEF Next, MainStep

(* main makes the port before it starts the accepter and closes it once.     *)
LEMMA PortStep ==
  ASSUME TypeOK, HandleInv, JoinInv, PortInv, Next
  PROVE  PortInv'
<1>threads. mAccepterThread \in Threads
  BY DEF Threads
<1> DEFINE Steady == /\ UNCHANGED <<stage, main, mIOCPHandle, mListenSocket>>
                     /\ \A t \in Threads : Gone(t) => Gone(t)'
                     /\ \A c \in Clients : io'[c] \in {"accept", "reset"} => stage = 7
<1>1. CASE Steady
  BY <1>1, <1>threads DEF PortInv, BehindCloseHandle, BehindJoinWorkers
<1>2. ASSUME AccepterStep \/ (\E w \in Workers : WorkerStep(w)) \/ ProcessStep \/ SendStep
      PROVE  Steady
  <2>1. \A c \in Clients : io'[c] \in {"accept", "reset"} => io'[c] = io[c]
    BY <1>2 DEF AccepterStep, Test, GetEmptyClientInfo, Accept, Connect, PostAccept,
       WorkerStep, WaitFails, Take, OnReceive, CloseSocket, Acceptcompletion,
       ProcessStep, ProcessPacket, SendStep, SendThread, clientVars, TypeOK
  <2> QED
    BY <1>2, <2>1, ThreadMoves, ThreadsLeave, MovesOne DEF mainVars, PortInv
<1>3. ASSUME NEW c \in Clients, ClientStep(c) PROVE Steady
  BY <1>3 DEF ClientStep, Arrive, CompleteAccept, FailAccept, CompleteReceive, Outside,
     mainVars, Gone, TypeOK,
              PortInv
<1>4. CASE InitSocket \/ BindandListen \/ BindandListen7 \/ CreateClient \/ CreatePort
  BY <1>4
  DEF InitSocket, BindandListen, BindandListen7, CreateClient, CreatePort, PortInv, Gone,
  MainPlaces,
      QuitPlaces, BehindCloseHandle, BehindJoinWorkers, clientVars
<1>5. CASE Run \/ CreateWorkerThread \/ CreateAccepterThread \/ CreateSendThread
  BY <1>5, <1>threads, ThreadAssumption
  DEF Run, CreateWorkerThread, StartedWorkers, CreateAccepterThread, CreateSendThread, Start,
  PortInv, Gone,
      MainPlaces, QuitPlaces, BehindCloseHandle, BehindJoinWorkers, clientVars, TypeOK
<1>6. CASE Quit \/ End \/ StopSender \/ StopWorkers \/ StopAccepter
  BY <1>6
  DEF Quit, End, StopSender, StopWorkers, StopAccepter, CloseHandle, closesocket, Clear, Join,
      StepDown, Order, DestroyThread, DestroyThread5, PortInv, JoinInv, Gone, MainPlaces, QuitPlaces,
      BehindCloseHandle, BehindJoinWorkers, BehindJoinAccepter, clientVars
<1>7. ASSUME NEW w \in Workers, CloseNull(w) PROVE PortInv'
  <2>1. /\ main' = "crashed" /\ mListenSocket' = "closed"
        /\ Gone(mAccepterThread)'
        /\ \A c \in Clients : io'[c] = "none"
    BY <1>7, <1>threads, CrashType DEF CloseNull, Gone
  <2> QED
    BY <2>1 DEF PortInv, MainPlaces, BehindCloseHandle, BehindJoinWorkers
<1> QED
  BY <1>1, <1>2, <1>3, <1>4, <1>5, <1>6, <1>7 DEF Next, MainStep

(* Before CreateClient is done no thread can get at the clients.             *)
LEMMA BuiltStep ==
  ASSUME TypeOK, HandleInv, BuiltInv, Next
  PROVE  BuiltInv'
<1>threads. /\ mAccepterThread \in Threads \ {mProcessThread}
            /\ mSendThread \in Threads \ {mProcessThread}
            /\ Workers \subseteq Threads \ {mProcessThread}
            /\ mProcessThread \in Threads
  BY ThreadAssumption DEF Threads
<1>1. CASE mClientInfos /\ UNCHANGED mClientInfos
  BY <1>1 DEF BuiltInv
<1>2. CASE ~ mClientInfos
  <2>1. /\ main \in {"InitSocket", "BindandListen", "Run", "CreateClient"}
        /\ \A t \in Threads \ {mProcessThread} : at[t] = "none"
        /\ mPacketDataQueue = << >>
    BY <1>2 DEF BuiltInv
  <2>2. ~ AccepterStep /\ ~ SendStep /\ \A w \in Workers : ~ WorkerStep(w)
    BY <2>1, <1>threads, ThreadMoves DEF Moves, Gone
  <2>3. ASSUME ProcessStep PROVE BuiltInv'
    <3>1. /\ UNCHANGED <<main, mPacketDataQueue>>
          /\ \A t \in Threads \ {mProcessThread} : at'[t] = "none"
      BY <2>1, <2>3, ThreadMoves, MovesOne, ThreadsLeave
      DEF ProcessStep, Test, ProcessPacket, mainVars, packetVars
    <3> QED
      BY <2>1, <3>1 DEF BuiltInv
  <2>4. ASSUME NEW c \in Clients, ClientStep(c) PROVE BuiltInv'
    BY <2>1, <2>4 DEF ClientStep, Arrive, CompleteAccept, FailAccept, CompleteReceive, Outside,
       mainVars,
                      packetVars, BuiltInv
  <2>5. CASE InitSocket \/ BindandListen \/ BindandListen7 \/ Run
    BY <2>1, <2>5, <1>threads
    DEF InitSocket, BindandListen, BindandListen7, Run, Start, packetVars, BuiltInv
  <2>6. CASE CreateClient
    BY <2>6 DEF CreateClient, BuiltInv
  <2>7. ASSUME NEW w \in Workers, CloseNull(w) PROVE FALSE
    BY <2>1, <2>7, <1>threads DEF CloseNull
  <2> QED
    BY <2>1, <2>2, <2>3, <2>4, <2>5, <2>6, <2>7
    DEF Next, MainStep, CreatePort, CreateWorkerThread, CreateAccepterThread, CreateSendThread,
    Quit,
        End, StopSender, StopWorkers, StopAccepter, CloseHandle, closesocket, Clear, Join
<1>3. mClientInfos => mClientInfos'
  <2>1. MainStep \/ Quit => mClientInfos' \/ UNCHANGED mClientInfos
    BY DEF MainStep, Quit, InitSocket, BindandListen, BindandListen7, Run, CreateClient, CreatePort,
       CreateWorkerThread, CreateAccepterThread, CreateSendThread, End, StopSender, StopWorkers,
       StopAccepter, CloseHandle, closesocket, Clear, Join, StepDown
  <2>2. ASSUME AccepterStep \/ (\E w \in Workers : WorkerStep(w)) \/ ProcessStep \/ SendStep
        PROVE  UNCHANGED mClientInfos
    BY <2>2, ThreadsLeave DEF mainVars
  <2>3. ASSUME NEW c \in Clients, ClientStep(c) PROVE UNCHANGED mClientInfos
    BY <2>3 DEF ClientStep, Arrive, CompleteAccept, FailAccept, CompleteReceive, Outside, mainVars
  <2>4. ASSUME NEW w \in Workers, CloseNull(w) PROVE UNCHANGED mClientInfos
    BY <2>4 DEF CloseNull
  <2> QED
    BY <2>1, <2>2, <2>3, <2>4 DEF Next
<1> QED
  BY <1>1, <1>2, <1>3 DEF BuiltInv

(* Whoever connects a client has the port, or notices that it is gone.       *)
LEMMA CountedStep ==
  ASSUME TypeOK, HandleInv, PortInv, CountedAreBound, Next
  PROVE  CountedAreBound'
<1>1. CASE UNCHANGED <<stage, bound, counted>>
  BY <1>1 DEF CountedAreBound
<1>2. ASSUME NEW c \in Clients, Connect(c) PROVE CountedAreBound'
  <2>1. stage = 5 => mIOCPHandle = "open"
    BY <1>2 DEF Connect, PortInv, Gone
  <2> QED
    BY <1>2, <2>1, StagesAssumption DEF Connect, Associate, BindFails, CountedAreBound, TypeOK
<1>3. ASSUME NEW w \in Workers, Acceptcompletion(w) PROVE CountedAreBound'
  <2>1. stage = 7
    BY <1>3 DEF Acceptcompletion, HandleInv, PortInv
  <2> QED
    BY <1>3, <2>1 DEF Acceptcompletion, CountedAreBound
<1>9. ASSUME NEW w \in Workers, CloseNull(w) PROVE UNCHANGED <<stage, bound, counted>>
  BY <1>9 DEF CloseNull
<1>4. ASSUME MainStep \/ Quit PROVE UNCHANGED <<stage, bound, counted>>
  BY <1>4
  DEF MainStep, Quit, InitSocket, BindandListen, BindandListen7, Run, CreateClient, CreatePort,
      CreateWorkerThread, CreateAccepterThread, CreateSendThread, End, StopSender, StopWorkers,
      StopAccepter, CloseHandle, closesocket, Clear, Join, StepDown, clientVars
<1>5. ASSUME NEW c \in Clients, ClientStep(c) PROVE UNCHANGED <<stage, bound, counted>>
  BY <1>5 DEF ClientStep, Arrive, CompleteAccept, FailAccept, CompleteReceive, Outside
<1>6. ASSUME ProcessStep \/ SendStep PROVE UNCHANGED <<stage, bound, counted>>
  BY <1>6 DEF ProcessStep, SendStep, Test, ProcessPacket, SendThread, clientVars
<1>7. ASSUME AccepterStep PROVE CountedAreBound'
  BY <1>1, <1>2, <1>7 DEF AccepterStep, Test, GetEmptyClientInfo, Accept, PostAccept, clientVars
<1>8. ASSUME NEW w \in Workers, WorkerStep(w) PROVE CountedAreBound'
  BY <1>1, <1>3, <1>8 DEF WorkerStep, Test, WaitFails, Take, OnReceive, CloseSocket, clientVars
<1> QED
  BY <1>1, <1>4, <1>5, <1>6, <1>7, <1>8, <1>9 DEF Next

(* closesocket finds stage 7's port closed, and who looks at the clients     *)
(* finds them built.                                                        *)
LEMMA FaultStep ==
  ASSUME TypeOK, HandleInv, PortInv, BuiltInv, NoNullClientAtStop, ClientsBuiltFirst, Next
  PROVE  NoNullClientAtStop' /\ ClientsBuiltFirst'
<1>1. CASE UNCHANGED fault
  BY <1>1 DEF NoNullClientAtStop, ClientsBuiltFirst
<1>2. CASE closesocket
  <2>1. mListenSocket = "bound" => mIOCPHandle = "closed"
    BY <1>2, StagesAssumption
    DEF closesocket, PortInv, BehindCloseHandle, BehindJoinWorkers, TypeOK
  <2> QED
    BY <1>1, <1>2, <2>1 DEF closesocket
<1>3. ASSUME \/ GetEmptyClientInfo \/ PostAccept \/ SendThread
             \/ ProcessPacket /\ mPacketDataQueue # << >>
      PROVE  UNCHANGED fault
  <2>1. mClientInfos
    BY <1>3, ThreadAssumption
    DEF GetEmptyClientInfo, PostAccept, SendThread, BuiltInv, Threads
  <2> QED
    BY <1>3, <2>1 DEF GetEmptyClientInfo, PostAccept, SendThread, ProcessPacket, UseClients
<1>4. ASSUME MainStep \/ Quit, ~ closesocket PROVE UNCHANGED fault
  BY <1>4
  DEF MainStep, Quit, InitSocket, BindandListen, BindandListen7, Run, CreateClient, CreatePort,
      CreateWorkerThread, CreateAccepterThread, CreateSendThread, End, StopSender, StopWorkers,
      StopAccepter, CloseHandle, Clear, Join, StepDown
<1>5. ASSUME NEW c \in Clients, ClientStep(c) PROVE UNCHANGED fault
  BY <1>5 DEF ClientStep, Arrive, CompleteAccept, FailAccept, CompleteReceive, Outside
<1>6. ASSUME ProcessStep \/ SendStep PROVE UNCHANGED fault
  BY <1>3, <1>6 DEF ProcessStep, SendStep, Test, ProcessPacket
<1>7. ASSUME AccepterStep PROVE UNCHANGED fault
  BY <1>3, <1>7 DEF AccepterStep, Test, Accept, Connect
<1>8. ASSUME NEW w \in Workers, WorkerStep(w) PROVE UNCHANGED fault
  BY <1>8 DEF WorkerStep, Test, WaitFails, Take, OnReceive, CloseSocket, Acceptcompletion
<1>9. ASSUME NEW w \in Workers, CloseNull(w) PROVE UNCHANGED fault
  BY <1>9 DEF CloseNull
<1> QED
  BY <1>1, <1>2, <1>4, <1>5, <1>6, <1>7, <1>8, <1>9 DEF Next

LEMMA StepInv == LifecycleInv /\ [Next]_vars => LifecycleInv'
<1> SUFFICES ASSUME LifecycleInv, [Next]_vars PROVE LifecycleInv'
  OBVIOUS
<1> USE DEF LifecycleInv
<1>1. CASE Next
  <2>1. TypeOK' /\ HandleInv'
    <3>1. CASE MainStep \/ Quit
      <4>1. TypeOK'
        BY <3>1, MainType
      <4>2. UNCHANGED task
        BY <3>1
        DEF MainStep, Quit, InitSocket, BindandListen, BindandListen7, Run, CreateClient,
        CreatePort,
            CreateWorkerThread, CreateAccepterThread, CreateSendThread, End, StopSender,
            StopWorkers,
            StopAccepter, CloseHandle, closesocket, Clear, Join, StepDown
      <4>3. UNCHANGED at \/ \E T : Start(T)
        BY <3>1
        DEF MainStep, Quit, InitSocket, BindandListen, BindandListen7, Run, CreateClient,
        CreatePort,
            CreateWorkerThread, CreateAccepterThread, CreateSendThread, End, StopSender,
            StopWorkers,
            StopAccepter, CloseHandle, closesocket, Clear, Join
      <4> QED
        BY <4>1, <4>2, <4>3 DEF HandleInv, Start, Threads
    <3>2. CASE AccepterStep \/ (\E w \in Workers : WorkerStep(w)) \/ ProcessStep \/ SendStep
      BY <3>2, ThreadType
    <3>3. ASSUME NEW c \in Clients, ClientStep(c) PROVE TypeOK' /\ HandleInv'
      <4>1. UNCHANGED <<at, task>>
        BY <3>3 DEF ClientStep, Arrive, CompleteAccept, FailAccept, CompleteReceive, Outside
      <4> QED
        BY <3>3, <4>1, ClientType DEF HandleInv
    <3>4. ASSUME NEW w \in Workers, CloseNull(w) PROVE TypeOK' /\ HandleInv'
      BY <3>4, CrashType DEF HandleInv, Threads
    <3> QED
      BY <1>1, <3>1, <3>2, <3>3, <3>4 DEF Next
  <2>2. JoinInv' /\ PortInv' /\ BuiltInv' /\ CountedAreBound'
    BY <1>1, JoinStep, PortStep, BuiltStep, CountedStep
  <2>3. NoNullClientAtStop' /\ ClientsBuiltFirst'
    BY <1>1, FaultStep
  <2> QED
    BY <2>1, <2>2, <2>3
<1>2. CASE UNCHANGED vars
  <2> USE <1>2 DEF vars, mainVars, clientVars, packetVars
  <2>1. TypeOK' /\ HandleInv'
    BY DEF TypeOK, HandleInv
  <2>2. JoinInv' /\ PortInv' /\ BuiltInv'
    BY DEF JoinInv, PortInv, BuiltInv, Gone, BehindJoinProcess, BehindJoinSender, BehindJoinWorkers,
           BehindJoinAccepter, BehindCloseHandle
  <2>3. CountedAreBound' /\ NoNullClientAtStop' /\ ClientsBuiltFirst'
    BY DEF CountedAreBound, NoNullClientAtStop, ClientsBuiltFirst
  <2> QED
    BY <2>1, <2>2, <2>3
<1> QED
  BY <1>1, <1>2

------------------------------------------------------------------------------
(* The inductive invariant of starting and stopping (types, who has been     *)
(* joined when, the life of the port and of the clients) holds in every      *)
(* reachable state of every stage.                                          *)
THEOREM LifecycleInvariant == Spec => []LifecycleInv
BY InitInv, StepInv, PTL DEF Spec

(* When main returns no thread of its server is left.                        *)
THEOREM NoThreadOutlives == Spec => []NoThreadOutlivesServer
<1>1. LifecycleInv => NoThreadOutlivesServer
  <2> SUFFICES ASSUME LifecycleInv, main = "return", NEW t \in Threads
               PROVE  Gone(t)
    BY DEF NoThreadOutlivesServer, Gone
  <2> QED
    BY DEF LifecycleInv, JoinInv, Threads, BehindJoinProcess, BehindJoinSender, BehindJoinWorkers,
           BehindJoinAccepter, QuitPlaces
<1> QED
  BY <1>1, LifecycleInvariant, PTL

(* In stages 1, 2, 3 and 5 a client that was counted is on the port, also    *)
(* when it was accepted while the server was being stopped.                 *)
THEOREM CountedBound == Spec => []CountedAreBound
<1>1. LifecycleInv => CountedAreBound
  BY DEF LifecycleInv
<1> QED
  BY <1>1, LifecycleInvariant, PTL

(* The AcceptEx calls that closesocket cancels reach no worker: stopping the *)
(* server closes no null client.                                            *)
THEOREM NullClientNotAtStop == Spec => []NoNullClientAtStop
<1>1. LifecycleInv => NoNullClientAtStop
  BY DEF LifecycleInv
<1> QED
  BY <1>1, LifecycleInvariant, PTL

(* No thread uses the clients before CreateClient has built them all.        *)
THEOREM ClientsFirst == Spec => []ClientsBuiltFirst
<1>1. LifecycleInv => ClientsBuiltFirst
  BY DEF LifecycleInv
<1> QED
  BY <1>1, LifecycleInvariant, PTL
==============================================================================
