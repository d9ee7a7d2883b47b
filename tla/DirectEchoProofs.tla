--------------------------- MODULE DirectEchoProofs ---------------------------
(* Proofs about DirectEcho, for any messages, any number of workers and      *)
(* connections.                                                             *)
EXTENDS DirectEcho, SequenceTheorems, TLAPS

(* The order of the echoes depends on a few variables only. *)
LEMMA Kept ==
  ASSUME EchoInv, conns' = 1 => conns = 1, client' = client,
         UNCHANGED <<received, wire, sends, mRecvBuf, mSendBuf>>,
         \A m \in Messages : Echoing(m)' => Echoing(m)
  PROVE  /\ conns' = 1 => OrderInv'
         /\ conns' = 1 /\ client' = "waits" => WaitingInv'
<1>1. ASSUME conns' = 1 PROVE OrderInv'
  <2>1. OrderInv
    BY <1>1 DEF EchoInv
  <2> QED
    BY <2>1 DEF OrderInv, Received, ReceivedBefore
<1>2. ASSUME conns' = 1, client' = "waits" PROVE WaitingInv'
  <2>1. WaitingInv
    BY <1>2 DEF EchoInv
  <2> QED
    BY <2>1 DEF WaitingInv
<1> QED
  BY <1>1, <1>2

(* Each action keeps the inductive invariant. *)
LEMMA GetEmptyClientInfoStep ==
  ASSUME EchoInv, GetEmptyClientInfo
  PROVE  EchoInv'
<1> USE ConnAssumption DEF EchoInv
<1>1. TypeOK'
  BY DEF TypeOK, SlotInv, Conns, Socks, Contents, NoReceive, Resting, GetEmptyClientInfo,
     world, socketVars, sendVars
<1>2. SlotInv'
  BY DEF SlotInv, TypeOK, Socks, NoReceive, Resting, GetEmptyClientInfo, world, socketVars,
     sendVars
<1>3. conns' <= 1 => conns <= 1
  BY DEF TypeOK, Socks, GetEmptyClientInfo, world, socketVars, sendVars
<1>4. conns' <= 1 => FreshInv' /\ PermissionInv'
  BY <1>3 DEF FreshInv, PermissionInv, Holders, SlotInv, TypeOK, Socks, NoReceive, Resting,
     Running, GetEmptyClientInfo, world, socketVars, sendVars
<1>5. ReceiveUntouched'
  BY <1>3 DEF ReceiveUntouched, PermissionInv, FreshInv, Holders, TypeOK, Socks, NoReceive,
     Resting, GetEmptyClientInfo, world, socketVars, sendVars
<1>6. \A m \in Messages : Echoing(m)' => Echoing(m)
  BY DEF Echoing, FreshInv, TypeOK, Resting, NoReceive, GetEmptyClientInfo, world, socketVars,
     sendVars
<1>7. /\ conns' = 1 => OrderInv'
      /\ conns' = 1 /\ client' = "waits" => WaitingInv'
  BY <1>3, <1>6, Kept DEF GetEmptyClientInfo, world, socketVars, sendVars
<1>8. WaitingClientGetsEchoes'
  BY <1>3 DEF WaitingClientGetsEchoes, EchoesReceived, FreshInv, TypeOK, Conns, Socks,
     GetEmptyClientInfo, world, socketVars, sendVars
<1> QED
  BY <1>1, <1>2, <1>4, <1>5, <1>7, <1>8

(* Accept: the slot's next connection; what belongs to the last one is over. *)
LEMMA AcceptStep ==
  ASSUME EchoInv, Accept
  PROVE  EchoInv'
<1> USE ConnAssumption DEF EchoInv
<1>1. TypeOK'
  <2>1. conns' \in Socks /\ m_socketClient' \in Socks
    BY DEF TypeOK, Socks, Accept
  <2> QED
    BY <2>1 DEF TypeOK, Accept, world, socketVars, sendVars
<1>2. SlotInv'
  <2>1. m_socketClient' <= conns' /\ conns <= conns' /\ conns' \in Nat
    BY DEF TypeOK, SlotInv, Socks, Accept
  <2>2. UNCHANGED <<client, parts, recvIO, sends, worker, mRecvBuf>>
    BY DEF Accept, world, socketVars, sendVars
  <2>3. \A i \in 1 .. Len(sends) : sends[i].sock \in Nat
    <3>1. sends \in Seq([sock : Conns, msg : Messages])
      BY DEF TypeOK
    <3>2. \A i \in 1 .. Len(sends) : sends[i] \in [sock : Conns, msg : Messages]
      BY <3>1, ElementOfSeq
    <3> QED
      BY <3>2 DEF Conns
  <2>4. recvIO.sock \in Nat /\ conns \in Nat
    BY DEF TypeOK, Socks
  <2> QED
    BY <2>1, <2>2, <2>3, <2>4 DEF SlotInv
<1>3. conns' <= 1 => conns <= 1
  BY DEF TypeOK, Socks, Accept, world, socketVars, sendVars
<1>4. conns' <= 1 => FreshInv' /\ PermissionInv'
  BY <1>3 DEF FreshInv, PermissionInv, Holders, SlotInv, TypeOK, Socks, NoReceive, Resting,
     Running, Accept, world, socketVars, sendVars
<1>5. ReceiveUntouched'
  BY <1>3 DEF ReceiveUntouched, PermissionInv, FreshInv, Holders, TypeOK, Socks, NoReceive,
     Resting, Accept, world, socketVars, sendVars
<1>same. UNCHANGED <<client, recvIO, worker, received, wire, sends, mRecvBuf, mSendBuf>>
  BY DEF Accept, world, socketVars, sendVars
<1>6. conns' = 1 => OrderInv'
  <2>1. CASE conns = 1
    BY <1>same, <2>1, Kept DEF Echoing
  <2>2. ASSUME conns' = 1, conns # 1 PROVE OrderInv'
    <3>1. conns = 0 /\ 1 \in Conns
      BY <1>3, <2>2 DEF TypeOK, Socks, Conns, Accept
    <3>2. /\ received'[1] = << >> /\ wire'[1] = << >> /\ sends' = << >>
          /\ \A m \in Messages : ~ Echoing(m)'
      BY <1>same, <3>1 DEF FreshInv, Holders, Echoing, NoReceive
    <3> QED
      BY <3>2 DEF OrderInv
  <2> QED
    BY <2>1, <2>2
<1>7. conns' = 1 /\ client' = "waits" => WaitingInv'
  <2>1. CASE conns = 1
    BY <1>same, <2>1, Kept DEF Echoing
  <2>2. ASSUME conns' = 1, conns # 1 PROVE WaitingInv'
    <3>1. conns = 0 /\ 1 \in Conns
      BY <1>3, <2>2 DEF TypeOK, Socks, Conns, Accept
    <3>2. /\ received'[1] = << >> /\ wire'[1] = << >> /\ sends' = << >>
          /\ \A m \in Messages : ~ Echoing(m)'
      BY <1>same, <3>1 DEF FreshInv, Holders, Echoing, NoReceive
    <3> QED
      BY <3>2 DEF WaitingInv
  <2> QED
    BY <2>1, <2>2
<1>8. WaitingClientGetsEchoes'
  BY SMTT(30), <1>3 DEF WaitingClientGetsEchoes, EchoesReceived, FreshInv, TypeOK, Conns, Socks,
     Accept,
     world, socketVars, sendVars
<1> QED
  BY <1>1, <1>2, <1>4, <1>5, <1>6, <1>7, <1>8

(* Bind: the first receive of the connection, or none if it is refused. *)
LEMMA BindStep ==
  ASSUME EchoInv, Bind
  PROVE  EchoInv'
<1> USE ConnAssumption DEF EchoInv
<1>1. TypeOK'
  <2>1. recvIO' \in [sock : Socks, is : {"none", "pending", "done", "failed"}]
    BY DEF TypeOK, Socks, NoReceive, Bind, PostReceive, world, socketVars, sendVars
  <2>2. worker' \in [Workers -> [at : {"wait", "echo", "bindRecv", "close"}, msg : Contents]]
    BY DEF TypeOK, SlotInv, Contents, Resting, Bind, PostReceive, world, socketVars, sendVars
  <2> QED
    BY <2>1, <2>2 DEF TypeOK, Socks, Bind, PostReceive, world, socketVars, sendVars
<1>2. SlotInv'
  BY DEF SlotInv, TypeOK, Socks, NoReceive, Resting, Bind, PostReceive, world, socketVars,
     sendVars
<1>3. conns' <= 1 => conns <= 1
  BY DEF TypeOK, Socks, Bind, PostReceive, world, socketVars, sendVars
<1>4. conns' <= 1 => FreshInv' /\ PermissionInv'
  BY <1>3 DEF FreshInv, PermissionInv, Holders, SlotInv, TypeOK, Socks, NoReceive, Resting,
     Running, Bind, PostReceive, world, socketVars, sendVars
<1>5. ReceiveUntouched'
  BY <1>3 DEF ReceiveUntouched, PermissionInv, FreshInv, Holders, TypeOK, Socks, NoReceive,
     Resting, Bind, PostReceive, world, socketVars, sendVars
<1>6. \A m \in Messages : Echoing(m)' => Echoing(m)
  BY DEF Echoing, FreshInv, TypeOK, Resting, NoReceive, Bind, PostReceive, world, socketVars,
     sendVars
<1>7. /\ conns' = 1 => OrderInv'
      /\ conns' = 1 /\ client' = "waits" => WaitingInv'
  BY <1>3, <1>6, Kept DEF Bind, PostReceive, world, socketVars, sendVars
<1>8. WaitingClientGetsEchoes'
  BY <1>3 DEF WaitingClientGetsEchoes, EchoesReceived, FreshInv, TypeOK, Conns, Socks, Bind,
     PostReceive, world, socketVars, sendVars
<1> QED
  BY <1>1, <1>2, <1>4, <1>5, <1>7, <1>8

(* ReceiveFails: the receive comes back without a message. *)
LEMMA ReceiveFailsStep ==
  ASSUME EchoInv, ReceiveFails
  PROVE  EchoInv'
<1> USE ConnAssumption DEF EchoInv
<1>1. TypeOK'
  BY DEF TypeOK, SlotInv, Conns, Socks, Contents, NoReceive, Resting, ReceiveFails, world,
     socketVars, sendVars
<1>2. SlotInv'
  BY DEF SlotInv, TypeOK, Socks, NoReceive, Resting, ReceiveFails, world, socketVars, sendVars
<1>3. conns' <= 1 => conns <= 1
  BY DEF TypeOK, Socks, ReceiveFails, world, socketVars, sendVars
<1>4. conns' <= 1 => FreshInv' /\ PermissionInv'
  BY <1>3 DEF FreshInv, PermissionInv, Holders, SlotInv, TypeOK, Socks, NoReceive, Resting,
     Running, ReceiveFails, world, socketVars, sendVars
<1>5. ReceiveUntouched'
  BY <1>3 DEF ReceiveUntouched, PermissionInv, FreshInv, Holders, TypeOK, Socks, NoReceive,
     Resting, ReceiveFails, world, socketVars, sendVars
<1>6. \A m \in Messages : Echoing(m)' => Echoing(m)
  BY DEF Echoing, FreshInv, TypeOK, Resting, NoReceive, ReceiveFails, world, socketVars, sendVars
<1>7. /\ conns' = 1 => OrderInv'
      /\ conns' = 1 /\ client' = "waits" => WaitingInv'
  BY <1>3, <1>6, Kept DEF ReceiveFails, world, socketVars, sendVars
<1>8. WaitingClientGetsEchoes'
  BY <1>3 DEF WaitingClientGetsEchoes, EchoesReceived, FreshInv, TypeOK, Conns, Socks,
     ReceiveFails, world, socketVars, sendVars
<1> QED
  BY <1>1, <1>2, <1>4, <1>5, <1>7, <1>8

(* TakeReceive: the receive block goes from the port to one worker. *)
LEMMA TakeReceiveStep ==
  ASSUME EchoInv, NEW w \in Workers, TakeReceive(w)
  PROVE  EchoInv'
<1> USE ConnAssumption DEF EchoInv
<1>1. TypeOK'
  <2>1. recvIO' \in [sock : Socks, is : {"none", "pending", "done", "failed"}]
    BY DEF TypeOK, Socks, NoReceive, TakeReceive, world, socketVars, sendVars
  <2>2. worker' \in [Workers -> [at : {"wait", "echo", "bindRecv", "close"}, msg : Contents]]
    BY DEF TypeOK, SlotInv, Contents, Resting, TakeReceive, world, socketVars, sendVars
  <2> QED
    BY <2>1, <2>2 DEF TypeOK, Socks, TakeReceive, world, socketVars, sendVars
<1>2. SlotInv'
  BY DEF SlotInv, TypeOK, Socks, NoReceive, Resting, TakeReceive, world, socketVars, sendVars
<1>3. conns' <= 1 => conns <= 1
  BY DEF TypeOK, Socks, TakeReceive, world, socketVars, sendVars
<1>4. conns' <= 1 => FreshInv' /\ PermissionInv'
  BY <1>3 DEF FreshInv, PermissionInv, Holders, SlotInv, TypeOK, Socks, NoReceive, Resting,
     Running, TakeReceive, world, socketVars, sendVars
<1>5. ReceiveUntouched'
  BY <1>3 DEF ReceiveUntouched, PermissionInv, FreshInv, Holders, TypeOK, Socks, NoReceive,
     Resting, TakeReceive, world, socketVars, sendVars
<1>6. \A m \in Messages : Echoing(m)' => Echoing(m)
  BY DEF Echoing, FreshInv, TypeOK, Resting, NoReceive, TakeReceive, world, socketVars, sendVars
<1>7. /\ conns' = 1 => OrderInv'
      /\ conns' = 1 /\ client' = "waits" => WaitingInv'
  BY <1>3, <1>6, Kept DEF TakeReceive, world, socketVars, sendVars
<1>8. WaitingClientGetsEchoes'
  BY <1>3 DEF WaitingClientGetsEchoes, EchoesReceived, FreshInv, TypeOK, Conns, Socks,
     TakeReceive, world, socketVars, sendVars
<1> QED
  BY <1>1, <1>2, <1>4, <1>5, <1>7, <1>8

(* TakeFailedReceive: the worker gives the connection up, *)
LEMMA TakeFailedReceiveStep ==
  ASSUME EchoInv, NEW w \in Workers, TakeFailedReceive(w)
  PROVE  EchoInv'
<1> USE ConnAssumption DEF EchoInv
<1>1. TypeOK'
  <2>1. recvIO' \in [sock : Socks, is : {"none", "pending", "done", "failed"}]
    BY DEF TypeOK, Socks, NoReceive, TakeFailedReceive, Disconnected, world, socketVars, sendVars
  <2>2. worker' \in [Workers -> [at : {"wait", "echo", "bindRecv", "close"}, msg : Contents]]
    <3>1. worker \in [Workers -> [at : {"wait", "echo", "bindRecv", "close"}, msg : Contents]]
      BY DEF TypeOK
    <3>2. worker' = [worker EXCEPT ![w].at = IF stage = 2 THEN "wait" ELSE "close"]
      BY DEF TakeFailedReceive, Disconnected
    <3> HIDE DEF EchoInv
    <3> QED
      BY <3>1, <3>2
  <2> QED
    BY <2>1, <2>2 DEF TypeOK, Socks, TakeFailedReceive, Disconnected, world, socketVars, sendVars
<1>2. SlotInv'
  BY DEF SlotInv, TypeOK, Socks, NoReceive, Resting, TakeFailedReceive, Disconnected, world,
     socketVars, sendVars
<1>3. conns' <= 1 => conns <= 1
  BY DEF TypeOK, Socks, TakeFailedReceive, Disconnected, world, socketVars, sendVars
<1>4. conns' <= 1 => FreshInv' /\ PermissionInv'
  BY <1>3 DEF FreshInv, PermissionInv, Holders, SlotInv, TypeOK, Socks, NoReceive, Resting,
     Running, TakeFailedReceive, Disconnected, world, socketVars, sendVars
<1>5. ReceiveUntouched'
  BY <1>3 DEF ReceiveUntouched, PermissionInv, FreshInv, Holders, TypeOK, Socks, NoReceive,
     Resting, TakeFailedReceive, Disconnected, world, socketVars, sendVars
<1>6. \A m \in Messages : Echoing(m)' => Echoing(m)
  BY DEF Echoing, FreshInv, TypeOK, Resting, NoReceive, TakeFailedReceive, Disconnected, world,
     socketVars, sendVars
<1>7. /\ conns' = 1 => OrderInv'
      /\ conns' = 1 /\ client' = "waits" => WaitingInv'
  BY <1>3, <1>6, Kept DEF TakeFailedReceive, Disconnected, world, socketVars, sendVars
<1>8. WaitingClientGetsEchoes'
  BY <1>3 DEF WaitingClientGetsEchoes, EchoesReceived, FreshInv, TypeOK, Conns, Socks,
     TakeFailedReceive, Disconnected, world, socketVars, sendVars
<1> QED
  BY <1>1, <1>2, <1>4, <1>5, <1>7, <1>8

(* TakeFailedSend: and so does one that finds a send failed. *)
LEMMA TakeFailedSendStep ==
  ASSUME EchoInv, NEW w \in Workers, TakeFailedSend(w)
  PROVE  EchoInv'
<1> USE ConnAssumption DEF EchoInv
<1>1. TypeOK'
  <2>1. recvIO' \in [sock : Socks, is : {"none", "pending", "done", "failed"}]
    BY DEF TypeOK, Socks, NoReceive, TakeFailedSend, Disconnected, world, socketVars, sendVars
  <2>2. worker' \in [Workers -> [at : {"wait", "echo", "bindRecv", "close"}, msg : Contents]]
    BY ZenonT(40) DEF TypeOK, SlotInv, Contents, Resting, TakeFailedSend, Disconnected, world,
       socketVars,
       sendVars
  <2>3. failedSends' \in Nat
    BY DEF TypeOK, TakeFailedSend
  <2> QED
    BY <2>1, <2>2, <2>3 DEF TypeOK, Socks, TakeFailedSend, Disconnected, world, socketVars,
       sendVars
<1>2. SlotInv'
  BY DEF SlotInv, TypeOK, Socks, NoReceive, Resting, TakeFailedSend, Disconnected, world,
     socketVars, sendVars
<1>3. conns' <= 1 => conns <= 1
  BY DEF TypeOK, Socks, TakeFailedSend, Disconnected, world, socketVars, sendVars
<1>4. conns' <= 1 => FreshInv' /\ PermissionInv'
  BY <1>3 DEF FreshInv, PermissionInv, Holders, SlotInv, TypeOK, Socks, NoReceive, Resting,
     Running, TakeFailedSend, Disconnected, world, socketVars, sendVars
<1>5. ReceiveUntouched'
  BY <1>3 DEF ReceiveUntouched, PermissionInv, FreshInv, Holders, TypeOK, Socks, NoReceive,
     Resting, TakeFailedSend, Disconnected, world, socketVars, sendVars
<1>6. \A m \in Messages : Echoing(m)' => Echoing(m)
  BY DEF Echoing, FreshInv, TypeOK, Resting, NoReceive, TakeFailedSend, Disconnected, world,
     socketVars, sendVars
<1>7. /\ conns' = 1 => OrderInv'
      /\ conns' = 1 /\ client' = "waits" => WaitingInv'
  BY <1>3, <1>6, Kept DEF TakeFailedSend, Disconnected, world, socketVars, sendVars
<1>8. WaitingClientGetsEchoes'
  BY <1>3 DEF WaitingClientGetsEchoes, EchoesReceived, FreshInv, TypeOK, Conns, Socks,
     TakeFailedSend, Disconnected, world, socketVars, sendVars
<1> QED
  BY <1>1, <1>2, <1>4, <1>5, <1>7, <1>8

(* BindRecv: the worker posts the next receive on the block it has. *)
LEMMA BindRecvStep ==
  ASSUME EchoInv, NEW w \in Workers, BindRecv(w)
  PROVE  EchoInv'
<1> USE ConnAssumption DEF EchoInv
<1>1. TypeOK'
  <2>1. recvIO' \in [sock : Socks, is : {"none", "pending", "done", "failed"}]
    BY DEF TypeOK, Socks, NoReceive, BindRecv, PostReceive, world, socketVars, sendVars
  <2>2. worker' \in [Workers -> [at : {"wait", "echo", "bindRecv", "close"}, msg : Contents]]
    BY DEF TypeOK, SlotInv, Contents, Resting, BindRecv, PostReceive, world, socketVars, sendVars
  <2> QED
    BY <2>1, <2>2 DEF TypeOK, Socks, BindRecv, PostReceive, world, socketVars, sendVars
<1>2. SlotInv'
  BY DEF SlotInv, TypeOK, Socks, NoReceive, Resting, BindRecv, PostReceive, world, socketVars,
     sendVars
<1>3. conns' <= 1 => conns <= 1
  BY DEF TypeOK, Socks, BindRecv, PostReceive, world, socketVars, sendVars
<1>4. conns' <= 1 => FreshInv' /\ PermissionInv'
  BY <1>3 DEF FreshInv, PermissionInv, Holders, SlotInv, TypeOK, Socks, NoReceive, Resting,
     Running, BindRecv, PostReceive, world, socketVars, sendVars
<1>5. ReceiveUntouched'
  BY <1>3 DEF ReceiveUntouched, PermissionInv, FreshInv, Holders, TypeOK, Socks, NoReceive,
     Resting, BindRecv, PostReceive, world, socketVars, sendVars
<1>6. \A m \in Messages : Echoing(m)' => Echoing(m)
  BY DEF Echoing, FreshInv, TypeOK, Resting, NoReceive, BindRecv, PostReceive, world,
     socketVars, sendVars
<1>7. /\ conns' = 1 => OrderInv'
      /\ conns' = 1 /\ client' = "waits" => WaitingInv'
  BY <1>3, <1>6, Kept DEF BindRecv, PostReceive, world, socketVars, sendVars
<1>8. WaitingClientGetsEchoes'
  BY <1>3 DEF WaitingClientGetsEchoes, EchoesReceived, FreshInv, TypeOK, Conns, Socks,
     BindRecv, PostReceive, world, socketVars, sendVars
<1> QED
  BY <1>1, <1>2, <1>4, <1>5, <1>7, <1>8

(* CloseSocket: the slot is empty again. *)
LEMMA CloseSocketStep ==
  ASSUME EchoInv, NEW w \in Workers, CloseSocket(w)
  PROVE  EchoInv'
<1> USE ConnAssumption DEF EchoInv
<1>1. TypeOK'
  <2>1. recvIO' \in [sock : Socks, is : {"none", "pending", "done", "failed"}]
    BY DEF TypeOK, Socks, NoReceive, CloseSocket, world, socketVars, sendVars
  <2>2. worker' \in [Workers -> [at : {"wait", "echo", "bindRecv", "close"}, msg : Contents]]
    BY DEF TypeOK, SlotInv, Contents, Resting, CloseSocket, world, socketVars, sendVars
  <2>3. m_socketClient' \in Socks
    BY DEF Socks, CloseSocket
  <2> QED
    BY <2>1, <2>2, <2>3 DEF TypeOK, Socks, CloseSocket, world, socketVars, sendVars
<1>2. SlotInv'
  BY DEF SlotInv, TypeOK, Socks, NoReceive, Resting, CloseSocket, world, socketVars, sendVars
<1>3. conns' <= 1 => conns <= 1
  BY DEF TypeOK, Socks, CloseSocket, world, socketVars, sendVars
<1>4. conns' <= 1 => FreshInv' /\ PermissionInv'
  BY <1>3 DEF FreshInv, PermissionInv, Holders, SlotInv, TypeOK, Socks, NoReceive, Resting,
     Running, CloseSocket, world, socketVars, sendVars
<1>5. ReceiveUntouched'
  BY <1>3 DEF ReceiveUntouched, PermissionInv, FreshInv, Holders, TypeOK, Socks, NoReceive,
     Resting, CloseSocket, world, socketVars, sendVars
<1>6. \A m \in Messages : Echoing(m)' => Echoing(m)
  BY DEF Echoing, FreshInv, TypeOK, Resting, NoReceive, CloseSocket, world, socketVars, sendVars
<1>7. /\ conns' = 1 => OrderInv'
      /\ conns' = 1 /\ client' = "waits" => WaitingInv'
  BY <1>3, <1>6, Kept DEF CloseSocket, world, socketVars, sendVars
<1>8. WaitingClientGetsEchoes'
  BY <1>3 DEF WaitingClientGetsEchoes, EchoesReceived, FreshInv, TypeOK, Conns, Socks,
     CloseSocket, world, socketVars, sendVars
<1> QED
  BY <1>1, <1>2, <1>4, <1>5, <1>7, <1>8

(* A receive with the kernel is on a connection that was made. *)
LEMMA ReceiveConn ==
  ASSUME EchoInv, recvIO.is # "none"
  PROVE  recvIO.sock \in Conns
BY ConnAssumption DEF EchoInv, SlotInv, TypeOK, Conns, Socks

(* The receive brings the newest message. *)
LEMMA ReceiveStep ==
  ASSUME EchoInv, NEW m \in Messages, Receive(m)
  PROVE  EchoInv'
<1> USE ConnAssumption DEF EchoInv
<1>1. TypeOK'
  <2>1. recvIO' \in [sock : Socks, is : {"none", "pending", "done", "failed"}]
    BY DEF TypeOK, Receive
  <2>2. received' \in [Conns -> Seq(Messages)]
    BY AppendProperties DEF TypeOK, Receive
  <2>3. parts' \in [Conns -> Nat]
    <3> DEFINE c == recvIO.sock
    <3>1. c \in Conns /\ parts[c] \in Nat /\ parts \in [Conns -> Nat]
      BY ReceiveConn DEF TypeOK, Receive
    <3>2. Arrive(c)
      BY DEF Receive
    <3> HIDE DEF c
    <3> QED
      BY <3>1, <3>2, PartsAssumption DEF Arrive
  <2> QED
    BY <2>1, <2>2, <2>3 DEF TypeOK, Contents, Receive, socketVars, sendVars
<1>2. SlotInv'
  <2>1. ASSUME client = "waits" PROVE \A c \in Conns : parts'[c] = 0
    BY <2>1, ReceiveConn DEF SlotInv, TypeOK, Receive, Arrive
  <2> QED
    BY <2>1 DEF SlotInv, TypeOK, Socks, NoReceive, Receive, socketVars, sendVars
<1>3. UNCHANGED <<conns, client, accepter, sends, wire, worker, mSendBuf>>
  BY DEF Receive, world, socketVars, sendVars
<1>4. conns' <= 1 => FreshInv' /\ PermissionInv'
  BY <1>3 DEF FreshInv, PermissionInv, Holders, NoReceive, Receive
<1>5. conns <= 1 => \A w \in Workers : worker[w].at # "echo"
  BY DEF PermissionInv, Holders, NoReceive, Receive
<1>6. ReceiveUntouched'
  BY <1>3, <1>5 DEF ReceiveUntouched
<1> DEFINE r == received[1]
           n == Len(r)
<1>7. ASSUME conns = 1
      PROVE  /\ recvIO.sock = 1
             /\ r \in Seq(Messages) /\ n \in Nat
             /\ Len(received'[1]) = n + 1
             /\ \A i \in 1 .. n : received'[1][i] = r[i]
             /\ received'[1][n + 1] = m
             /\ \A i \in 1 .. n : r[i] # m
             /\ \A x \in Messages : Echoing(x)' => x = m
  <2>1. recvIO.sock = 1 /\ 1 \in Conns
    BY <1>7 DEF SlotInv, TypeOK, Conns, Socks, Receive
  <2>2. r \in Seq(Messages) /\ received'[1] = Append(r, m) /\ m \notin Range(r)
    BY <2>1 DEF TypeOK, Receive
  <2>3. \A i \in 1 .. n : r[i] # m
    BY <2>2, LenProperties DEF Range
  <2>4. \A x \in Messages : Echoing(x)' => x = m
    BY <1>3, <1>5, <1>7 DEF Echoing, Receive
  <2> HIDE DEF r
  <2> QED
    BY <2>1, <2>2, <2>3, <2>4, AppendProperties, LenProperties
<1> HIDE DEF r, n
<1>8. ASSUME conns' = 1 PROVE OrderInv'
  <2>1. conns = 1 /\ OrderInv
    BY <1>3, <1>8
  <2>2. ASSUME NEW x, Received(x) PROVE Received(x)' /\ ReceivedBefore(x, m)'
    BY SMTT(30), <1>7, <2>1, <2>2 DEF Received, ReceivedBefore, r, n
  <2>3. ASSUME NEW x, NEW y, ReceivedBefore(x, y) PROVE ReceivedBefore(x, y)'
    <3>1. PICK i, j \in 1 .. n : i < j /\ r[i] = x /\ r[j] = y
      BY <2>3 DEF ReceivedBefore, r, n
    <3>2. /\ i \in 1 .. n + 1 /\ j \in 1 .. n + 1
          /\ received'[1][i] = x /\ received'[1][j] = y
      BY <1>7, <2>1, <3>1
    <3> QED
      BY <1>7, <2>1, <3>1, <3>2 DEF ReceivedBefore
  <2>4. \A i, j \in 1 .. Len(received'[1]) : received'[1][i] = received'[1][j] => i = j
    <3>1. \A i, j \in 1 .. n : r[i] = r[j] => i = j
      BY <2>1 DEF OrderInv, r, n
    <3>2. SUFFICES ASSUME NEW i \in 1 .. n + 1, NEW j \in 1 .. n + 1,
                          received'[1][i] = received'[1][j]
                   PROVE  i = j
      BY <1>7, <2>1
    <3>3. n \in Nat /\ (i \in 1 .. n \/ i = n + 1) /\ (j \in 1 .. n \/ j = n + 1)
      BY <1>7, <2>1
    <3>4. CASE i \in 1 .. n /\ j \in 1 .. n
      BY <1>7, <2>1, <3>1, <3>2, <3>4
    <3> QED
      BY <1>7, <2>1, <3>2, <3>3, <3>4
  <2>5. Received(m)'
    BY <1>7, <2>1 DEF Received
  <2> QED
    BY <1>3, <1>7, <2>1, <2>2, <2>3, <2>4, <2>5 DEF OrderInv
<1>9. ASSUME conns' = 1, client' = "waits" PROVE WaitingInv'
  <2>1. conns = 1 /\ client = "waits" /\ WaitingInv
    BY <1>3, <1>9
  <2>2. Len(wire[1]) = n
    <3>1. parts[1] = 0
      BY <1>7, <2>1, ReceiveConn DEF SlotInv, Receive
    <3> QED
      BY <1>7, <2>1, <3>1 DEF Receive, Arrive, ClientMaySend, r, n
  <2>3. sends = << >>
    BY <1>7, <2>1, <2>2 DEF WaitingInv, r, n
  <2> QED
    BY <1>3, <1>7, <2>1, <2>2, <2>3 DEF WaitingInv
<1>10. WaitingClientGetsEchoes'
  BY <1>3 DEF WaitingClientGetsEchoes, EchoesReceived
<1> QED
  BY <1>1, <1>2, <1>3, <1>4, <1>6, <1>8, <1>9, <1>10

(* The kernel gets to the oldest send. *)
LEMMA TransmitStep ==
  ASSUME EchoInv, Transmit
  PROVE  EchoInv'
<1> USE ConnAssumption DEF EchoInv
<1> DEFINE first == Head(sends)
           rest == Tail(sends)
           echo == [meant |-> first.msg, sent |-> IF stage = 1 THEN mRecvBuf ELSE mSendBuf]
<1>1. /\ sends \in Seq([sock : Conns, msg : Messages])
      /\ sends # << >> /\ Len(sends) \in Nat /\ Len(sends) >= 1
      /\ first \in [sock : Conns, msg : Messages]
      /\ rest \in Seq([sock : Conns, msg : Messages])
      /\ Len(rest) = Len(sends) - 1
      /\ \A i \in 1 .. Len(rest) : rest[i] = sends[i + 1]
  <2>1. sends \in Seq([sock : Conns, msg : Messages]) /\ sends # << >>
    BY DEF TypeOK, Transmit
  <2>2. Len(sends) \in Nat /\ Len(sends) >= 1
    <3>1. Len(sends) \in Nat \ {0}
      BY <2>1, EmptySeq
    <3> QED
      BY <3>1
  <2>3. /\ first \in [sock : Conns, msg : Messages]
        /\ rest \in Seq([sock : Conns, msg : Messages])
        /\ Len(rest) = Len(sends) - 1
        /\ \A i \in 1 .. Len(rest) : rest[i] = sends[i + 1]
    BY <2>1, HeadTailProperties
  <2> QED
    BY <2>1, <2>2, <2>3
<1>2. sends' = rest /\ wire' = [wire EXCEPT ![first.sock] = Append(@, echo)]
  BY DEF Transmit
<1>3. echo \in [meant : Messages, sent : Contents]
  BY <1>1 DEF TypeOK
<1> HIDE DEF first, rest, echo
<1>4. UNCHANGED <<world, socketVars, recvIO, mRecvBuf, mSendBuf, failedSends, broken, worker,
                  received, fault, stage, client, parts, m_socketClient, conns, accepter>>
  BY DEF Transmit, world, socketVars
<1>5. TypeOK'
  <2>1. wire' \in [Conns -> Seq([meant : Messages, sent : Contents])]
    BY <1>2, <1>3, AppendProperties DEF TypeOK
  <2> QED
    BY <1>1, <1>2, <1>4, <2>1 DEF TypeOK
<1>6. SlotInv'
  BY <1>1, <1>2, <1>4 DEF SlotInv
<1>7. conns' <= 1 => FreshInv' /\ PermissionInv'
  BY <1>1, <1>4 DEF FreshInv, PermissionInv, Holders
<1>8. ReceiveUntouched'
  BY <1>4 DEF ReceiveUntouched
<1> DEFINE old == wire[1]
           n == Len(old)
<1>9. ASSUME conns = 1
      PROVE  /\ n \in Nat /\ Len(wire'[1]) = n + 1
             /\ \A i \in 1 .. n : wire'[1][i] = old[i]
             /\ wire'[1][n + 1] = echo
  <2>1. first.sock = 1 /\ 1 \in Conns
    BY <1>1, <1>9 DEF SlotInv, Conns, first
  <2>2. old \in Seq([meant : Messages, sent : Contents]) /\ wire'[1] = Append(old, echo)
    BY <1>2, <2>1 DEF TypeOK
  <2> HIDE DEF old
  <2> QED
    BY <1>3, <2>2, AppendProperties, LenProperties
<1> HIDE DEF old, n
<1>10. ASSUME conns' = 1 PROVE OrderInv'
  <2>1. conns = 1 /\ OrderInv
    BY <1>4, <1>10
  <2>2. echo.meant = sends[1].msg /\ 1 \in 1 .. Len(sends)
    BY <1>1 DEF echo, first
  <2>7. /\ \A i \in 1 .. n : Received(old[i].meant)
        /\ \A i, j \in 1 .. n : i < j => ReceivedBefore(old[i].meant, old[j].meant)
        /\ \A i \in 1 .. n : ReceivedBefore(old[i].meant, echo.meant)
        /\ \A i \in 1 .. n : \A m \in Messages : Echoing(m) => ReceivedBefore(old[i].meant, m)
    BY <2>1, <2>2 DEF OrderInv, old, n
  <2>8. /\ \A i \in 1 .. Len(rest) : /\ i + 1 \in 1 .. Len(sends)
                                      /\ Received(rest[i].msg)
                                      /\ ReceivedBefore(echo.meant, rest[i].msg)
        /\ \A i \in 1 .. n : \A j \in 1 .. Len(rest) : ReceivedBefore(old[i].meant, rest[j].msg)
        /\ \A i, j \in 1 .. Len(rest) : i < j => ReceivedBefore(rest[i].msg, rest[j].msg)
        /\ \A m \in Messages : Echoing(m) =>
               \A j \in 1 .. Len(rest) : ReceivedBefore(rest[j].msg, m)
    <3>1. \A i \in 1 .. Len(rest) : i + 1 \in 1 .. Len(sends) /\ 1 < i + 1
      BY <1>1
    <3>2. \A i, j \in 1 .. Len(rest) : i < j => i + 1 < j + 1
      BY <1>1
    <3> QED
      BY <1>1, <2>1, <2>2, <3>1, <3>2 DEF OrderInv, old, n
  <2>9. Received(echo.meant) /\ \A m \in Messages : Echoing(m) => ReceivedBefore(echo.meant, m)
    BY <2>1, <2>2 DEF OrderInv
  <2>3. \A x : Received(x)' = Received(x) /\ Echoing(x)' = Echoing(x)
    BY <1>4 DEF Received, Echoing
  <2>4. \A x, y : ReceivedBefore(x, y)' = ReceivedBefore(x, y)
    BY <1>4 DEF ReceivedBefore
  <2>5. ASSUME NEW i \in 1 .. n + 1
        PROVE  /\ Received(wire'[1][i].meant)
               /\ \A j \in 1 .. n + 1 :
                     i < j => ReceivedBefore(wire'[1][i].meant, wire'[1][j].meant)
               /\ \A j \in 1 .. Len(rest) : ReceivedBefore(wire'[1][i].meant, rest[j].msg)
               /\ \A m \in Messages : Echoing(m) => ReceivedBefore(wire'[1][i].meant, m)
    <3>1. n \in Nat /\ wire'[1][n + 1] = echo /\ \A k \in 1 .. n : wire'[1][k] = old[k]
      BY <1>9, <2>1
    <3>2. CASE i \in 1 .. n
      <4>1. \A j \in 1 .. n + 1 : j \in 1 .. n \/ j = n + 1
        BY <3>1
      <4> QED
        BY <2>7, <2>8, <3>1, <3>2, <4>1
    <3>3. CASE i = n + 1
      <4>1. \A j \in 1 .. n + 1 : ~ (i < j)
        BY <3>1, <3>3
      <4> QED
        BY <2>8, <2>9, <3>1, <3>3, <4>1
    <3> QED
      BY <3>1, <3>2, <3>3
  <2>6. \A i, j \in 1 .. Len(received[1]) : received[1][i] = received[1][j] => i = j
    BY <2>1 DEF OrderInv
  <2>10. \A m \in Messages : Echoing(m) => Received(m)
    BY <2>1 DEF OrderInv
  <2> QED
    BY <1>2, <1>4, <1>9, <2>1, <2>3, <2>4, <2>5, <2>6, <2>8, <2>10 DEF OrderInv
<1>11. ASSUME conns = 1, client = "waits"
       PROVE  /\ sends' = << >> /\ n + 1 <= Len(received[1])
              /\ \A m \in Messages : ~ Echoing(m)
              /\ echo.sent = echo.meant
  <2>1. WaitingInv
    BY <1>11
  <2>2. Len(sends) = 1 /\ sends[1].msg = mRecvBuf /\ sends[1].msg = mSendBuf
    BY <1>1, <2>1 DEF WaitingInv
  <2>3. rest = << >>
    BY <1>1, <2>2, EmptySeq
  <2>4. received[1] \in Seq(Messages)
    BY <1>11 DEF TypeOK, Conns, Socks
  <2>5. n + 1 <= Len(received[1])
    BY <1>1, <1>9, <1>11, <2>1, <2>4, LenProperties DEF WaitingInv, n, old
  <2> QED
    BY <1>1, <1>2, <2>1, <2>2, <2>3, <2>5 DEF WaitingInv, echo, first
<1>12. conns' = 1 /\ client' = "waits" => WaitingInv'
  BY <1>4, <1>9, <1>11 DEF WaitingInv, Echoing
<1>13. WaitingClientGetsEchoes'
  BY SMTT(30), <1>4, <1>9, <1>11, LenProperties DEF WaitingClientGetsEchoes, EchoesReceived, old, n
<1> QED
  BY <1>5, <1>6, <1>7, <1>8, <1>10, <1>12, <1>13

(* A send that fails leaves a gap in the echoes. *)
LEMMA SendFailsStep ==
  ASSUME EchoInv, SendFails
  PROVE  EchoInv'
<1> USE ConnAssumption DEF EchoInv
<1> DEFINE rest == Tail(sends)
<1>1. /\ sends \in Seq([sock : Conns, msg : Messages])
      /\ sends # << >>
      /\ rest \in Seq([sock : Conns, msg : Messages])
      /\ Len(rest) = Len(sends) - 1 /\ Len(sends) \in Nat
      /\ \A i \in 1 .. Len(rest) : rest[i] = sends[i + 1]
      /\ Head(sends) \in [sock : Conns, msg : Messages]
  <2>1. sends \in Seq([sock : Conns, msg : Messages]) /\ sends # << >>
    BY DEF TypeOK, SendFails
  <2>2. Len(sends) \in Nat
    BY <2>1, LenProperties
  <2>3. /\ rest \in Seq([sock : Conns, msg : Messages])
        /\ Len(rest) = Len(sends) - 1
        /\ \A i \in 1 .. Len(rest) : rest[i] = sends[i + 1]
        /\ Head(sends) \in [sock : Conns, msg : Messages]
    BY <2>1, HeadTailProperties
  <2> QED
    BY <2>1, <2>2, <2>3
<1>2. /\ sends' = rest
      /\ broken' = broken \cup {Head(sends).sock}
      /\ failedSends' = failedSends + 1
  BY DEF SendFails
<1> HIDE DEF rest
<1>3. UNCHANGED <<stage, client, parts, m_socketClient, conns, accepter, recvIO, mRecvBuf, mSendBuf,
                  worker, wire, received, fault>>
  BY DEF SendFails, world, socketVars
<1>4. TypeOK'
  <2>1. broken' \subseteq Conns
    BY <1>1, <1>2 DEF TypeOK
  <2>2. failedSends' \in Nat
    BY <1>2 DEF TypeOK
  <2> QED
    BY <1>1, <1>2, <1>3, <2>1, <2>2 DEF TypeOK
<1>5. \A i \in 1 .. Len(rest) : i + 1 \in 1 .. Len(sends)
  BY <1>1
<1>6. SlotInv'
  BY <1>1, <1>2, <1>3, <1>5 DEF SlotInv
<1>7. conns' <= 1 => FreshInv' /\ PermissionInv'
  BY <1>1, <1>3 DEF FreshInv, PermissionInv, Holders
<1>8. ReceiveUntouched'
  BY <1>3 DEF ReceiveUntouched
<1>9. ASSUME conns' = 1 PROVE OrderInv'
  <2>1. OrderInv
    BY <1>3, <1>9
  <2>2. \A x : Received(x)' = Received(x) /\ Echoing(x)' = Echoing(x)
    BY <1>3 DEF Received, Echoing
  <2>3. \A x, y : ReceivedBefore(x, y)' = ReceivedBefore(x, y)
    BY <1>3 DEF ReceivedBefore
  <2>4. \A i, j \in 1 .. Len(rest) : i < j => i + 1 < j + 1
    BY <1>1
  <2> QED
    BY ZenonT(40), <1>1, <1>2, <1>3, <1>5, <2>1, <2>2, <2>3, <2>4 DEF OrderInv
<1>10. ASSUME conns' = 1, client' = "waits" PROVE WaitingInv'
  <2>1. WaitingInv /\ 1 \in Conns
    BY <1>3, <1>10 DEF TypeOK, Conns, Socks
  <2>2. Len(rest) = 0
    BY <1>1, <2>1 DEF WaitingInv
  <2>3. rest = << >>
    BY <1>1, <2>2, EmptySeq
  <2> QED
    BY <1>2, <1>3, <2>1, <2>3 DEF WaitingInv, Echoing
<1>11. WaitingClientGetsEchoes'
  BY <1>3 DEF WaitingClientGetsEchoes, EchoesReceived
<1> QED
  BY <1>4, <1>6, <1>7, <1>8, <1>9, <1>10, <1>11

(* The worker copies the newest message and sends it. *)
LEMMA SendMsgStep ==
  ASSUME EchoInv, NEW w \in Workers, SendMsg(w)
  PROVE  EchoInv'
<1> USE ConnAssumption DEF EchoInv
<1> DEFINE m == worker[w].msg
           send == [sock |-> m_socketClient, msg |-> m]
<1>1. m \in Messages
  BY DEF SendMsg, SlotInv
<1>2. /\ worker' = [worker EXCEPT ![w] = [at |-> "bindRecv", msg |-> Nothing]]
      /\ mSendBuf' = mRecvBuf
      /\ fault' \in {fault, "overrun"}
  BY DEF SendMsg
<1>3. UNCHANGED <<stage, client, parts, m_socketClient, conns, accepter, recvIO, mRecvBuf,
                  failedSends, broken, wire, received>>
  BY DEF SendMsg, world, socketVars
<1>4. sends' = sends \/ (send \in [sock : Conns, msg : Messages] /\ sends' = Append(sends, send))
  BY <1>1 DEF SendMsg, WSASend, TypeOK, Socks, Conns
<1>5. sends \in Seq([sock : Conns, msg : Messages]) /\ Len(sends) \in Nat
  <2>1. sends \in Seq([sock : Conns, msg : Messages])
    BY DEF TypeOK
  <2> QED
    BY <2>1, LenProperties
<1> DEFINE n == Len(sends)
<1>6. ASSUME sends' # sends
      PROVE  /\ sends' \in Seq([sock : Conns, msg : Messages])
             /\ Len(sends') = n + 1
             /\ \A i \in 1 .. n : sends'[i] = sends[i]
             /\ sends'[n + 1] = send
  <2> DEFINE S == [sock : Conns, msg : Messages]
  <2> HIDE DEF S, send
  <2>1. send \in S /\ sends \in Seq(S) /\ sends' = Append(sends, send)
    BY <1>4, <1>5, <1>6 DEF S
  <2>2. /\ sends' \in Seq(S)
        /\ Len(sends') = n + 1
        /\ \A i \in 1 .. n : sends'[i] = sends[i]
        /\ sends'[n + 1] = send
    BY <2>1, AppendProperties
  <2> QED
    BY <2>2 DEF S
<1>7. worker[w].at = "echo" /\ Echoing(m)
  BY DEF SendMsg, Echoing
<1> HIDE DEF m, n
<1>8. TypeOK'
  <2>1. worker' \in [Workers -> [at : {"wait", "echo", "bindRecv", "close"}, msg : Contents]]
    BY <1>2 DEF TypeOK, Contents
  <2>2. sends' \in Seq([sock : Conns, msg : Messages])
    BY <1>5, <1>6
  <2> QED
    BY <1>2, <1>3, <2>1, <2>2 DEF TypeOK
<1>9. SlotInv'
  <2>1. \A i \in 1 .. Len(sends') : sends'[i].sock <= conns
    BY SMTT(30), <1>3, <1>5, <1>6 DEF SlotInv, n
  <2> QED
    BY <1>2, <1>3, <2>1 DEF SlotInv, TypeOK
<1>10. \A v \in Workers : /\ v # w => worker'[v] = worker[v]
                          /\ worker'[w].at = "bindRecv"
  BY <1>2 DEF TypeOK
<1>11. conns' <= 1 => FreshInv' /\ PermissionInv'
  BY <1>2, <1>3, <1>7, <1>10 DEF FreshInv, PermissionInv, Holders
<1>12. ReceiveUntouched'
  BY <1>3, <1>10 DEF ReceiveUntouched
<1>13. conns = 1 => /\ mRecvBuf = m /\ recvIO = NoReceive
                    /\ \A x \in Messages : ~ Echoing(x)'
  BY <1>3, <1>7, <1>10 DEF ReceiveUntouched, Echoing, NoReceive, m
<1>14. ASSUME conns' = 1 PROVE OrderInv'
  <2>1. conns = 1 /\ OrderInv
    BY <1>3, <1>14
  <2>2. \A x : Received(x)' = Received(x)
    BY <1>3 DEF Received
  <2>3. \A x, y : ReceivedBefore(x, y)' = ReceivedBefore(x, y)
    BY <1>3 DEF ReceivedBefore
  <2>4. CASE sends' = sends
    BY <1>3, <1>13, <2>1, <2>2, <2>3, <2>4 DEF OrderInv
  <2>5. CASE sends' # sends
    <3>1. /\ Received(m)
          /\ \A i \in 1 .. Len(wire[1]) : ReceivedBefore(wire[1][i].meant, m)
          /\ \A i \in 1 .. n : ReceivedBefore(sends[i].msg, m)
      BY <1>1, <1>7, <2>1 DEF OrderInv, n
    <3>2. n \in Nat /\ \A i \in 1 .. n + 1 : i \in 1 .. n \/ i = n + 1
      BY <1>5 DEF n
    <3>3. ASSUME NEW i \in 1 .. n + 1, NEW j \in 1 .. n + 1, i < j
          PROVE  ReceivedBefore(sends'[i].msg, sends'[j].msg)
      <4>1. i \in 1 .. n
        BY <3>2, <3>3
      <4> QED
        BY <1>6, <2>1, <2>5, <3>1, <3>2, <3>3, <4>1 DEF OrderInv, n
    <3>4. \A i \in 1 .. n + 1 : /\ Received(sends'[i].msg)
                               /\ \A j \in 1 .. Len(wire[1]) :
                                      ReceivedBefore(wire[1][j].meant, sends'[i].msg)
      BY <1>6, <2>1, <2>5, <3>1, <3>2 DEF OrderInv, n
    <3> QED
      BY <1>3, <1>6, <1>13, <2>1, <2>2, <2>3, <2>5, <3>3, <3>4 DEF OrderInv
  <2> QED
    BY <2>4, <2>5
<1>15. ASSUME conns' = 1, client' = "waits" PROVE WaitingInv'
  <2>1. conns = 1 /\ WaitingInv
    BY <1>3, <1>15
  <2>2. sends = << >> /\ Len(wire[1]) < Len(received[1])
    BY <1>1, <1>7, <2>1 DEF WaitingInv
  <2>3. n = 0
    BY <2>2 DEF n
  <2>4. CASE sends' = sends
    BY <1>3, <1>13, <2>1, <2>2, <2>4 DEF WaitingInv
  <2>5. CASE sends' # sends
    BY <1>2, <1>3, <1>6, <1>13, <2>1, <2>2, <2>3, <2>5 DEF WaitingInv
  <2> QED
    BY <2>4, <2>5
<1>16. WaitingClientGetsEchoes'
  BY <1>3 DEF WaitingClientGetsEchoes, EchoesReceived
<1> QED
  BY <1>8, <1>9, <1>11, <1>12, <1>14, <1>15, <1>16

------------------------------------------------------------------------------
(* It holds at first, and every step keeps it. *)
LEMMA InitInv == Init => EchoInv
<1> SUFFICES ASSUME Init PROVE EchoInv
  OBVIOUS
<1> USE ConnAssumption
<1>1. TypeOK
  <2>1. worker \in [Workers -> [at : {"wait", "echo", "bindRecv", "close"}, msg : Contents]]
    BY DEF Init, Resting, Contents
  <2>2. recvIO \in [sock : Socks, is : {"none", "pending", "done", "failed"}]
    BY DEF Init, NoReceive, Socks
  <2>3. /\ received \in [Conns -> Seq(Messages)]
        /\ wire \in [Conns -> Seq([meant : Messages, sent : Contents])]
        /\ sends \in Seq([sock : Conns, msg : Messages])
    BY DEF Init
  <2> QED
    BY <2>1, <2>2, <2>3 DEF Init, TypeOK, Socks, Contents
<1>2. SlotInv /\ FreshInv /\ PermissionInv
  BY DEF Init, SlotInv, FreshInv, PermissionInv, Holders, NoReceive, Resting
<1> QED
  BY <1>1, <1>2 DEF Init, EchoInv, ReceiveUntouched, WaitingClientGetsEchoes

LEMMA NextInv == EchoInv /\ [Next]_vars => EchoInv'
<1> SUFFICES ASSUME EchoInv, [Next]_vars PROVE EchoInv'
  OBVIOUS
<1>1. CASE UNCHANGED vars
  <2> USE <1>1 DEF vars, world, socketVars, sendVars, EchoInv
  <2>1. TypeOK' /\ SlotInv'
    BY DEF TypeOK, SlotInv
  <2>2. conns <= 1 => FreshInv' /\ PermissionInv'
    BY DEF FreshInv, PermissionInv, Holders
  <2>3. ReceiveUntouched' /\ WaitingClientGetsEchoes'
    BY DEF ReceiveUntouched, WaitingClientGetsEchoes, EchoesReceived
  <2>4. /\ conns' = 1 => OrderInv'
        /\ conns' = 1 /\ client' = "waits" => WaitingInv'
    BY Kept DEF Echoing
  <2> QED
    BY <2>1, <2>2, <2>3, <2>4
<1> QED
  BY <1>1, GetEmptyClientInfoStep, AcceptStep, BindStep, ReceiveStep, ReceiveFailsStep,
     TransmitStep, SendFailsStep, TakeReceiveStep, TakeFailedReceiveStep, TakeFailedSendStep,
     SendMsgStep, BindRecvStep, CloseSocketStep
  DEF Next, AccepterStep, KernelStep, WorkerStep

(* The inductive invariant of a client slot of stages 1 to 3.  With it, on a *)
(* first connection no receive is posted on an overlapped block in use.     *)
THEOREM Invariance == Spec => []EchoInv
BY InitInv, NextInv, PTL DEF Spec

(* What a worker is about to echo is still in mRecvBuf, on a first           *)
(* connection: one worker at a time handles it and no receive is posted.    *)
THEOREM ReceiveUntouchedTheorem == Spec => []ReceiveUntouched
<1>1. EchoInv => ReceiveUntouched
  BY DEF EchoInv
<1> QED
  BY <1>1, Invariance, PTL

(* On a slot's first connection, a client that waits for each echo and whose *)
(* messages each come in one receive gets its own bytes back.               *)
THEOREM WaitingClientTheorem == Spec => []WaitingClientGetsEchoes
<1>1. EchoInv => WaitingClientGetsEchoes
  BY DEF EchoInv
<1> QED
  BY <1>1, Invariance, PTL

(* The messages meant by the sends of the first connection, as one sequence. *)
LEMMA MeantSequence ==
  ASSUME EchoInv, conns = 1
  PROVE  LET n == Len(wire[1])
             meant == Meant(1)
         IN  /\ n \in Nat /\ Len(sends) \in Nat
             /\ DOMAIN meant = 1 .. n + Len(sends)
             /\ \A i \in 1 .. n : meant[i] = wire[1][i].meant
             /\ \A i \in 1 .. Len(sends) : meant[n + i] = sends[i].msg
<1> DEFINE n == Len(wire[1])
           a == [i \in DOMAIN wire[1] |-> wire[1][i].meant]
           b == [i \in DOMAIN sends |-> sends[i].msg]
<1>1. /\ wire[1] \in Seq([meant : Messages, sent : Contents])
      /\ sends \in Seq([sock : Conns, msg : Messages])
  <2>1. 1 \in Conns
    BY ConnAssumption DEF EchoInv, TypeOK, Conns, Socks
  <2> QED
    BY <2>1 DEF EchoInv, TypeOK
<1>2. /\ n \in Nat /\ DOMAIN wire[1] = 1 .. n
      /\ Len(sends) \in Nat /\ DOMAIN sends = 1 .. Len(sends)
  BY <1>1, LenProperties
<1>3. /\ \A i \in 1 .. n : wire[1][i] \in [meant : Messages, sent : Contents]
      /\ \A i \in 1 .. Len(sends) : sends[i] \in [sock : Conns, msg : Messages]
  BY <1>1, ElementOfSeq
<1>4. a \in Seq(Messages) /\ b \in Seq(Messages)
  BY <1>2, <1>3, IsASeq
<1>5. Len(a) = n /\ Len(b) = Len(sends)
  BY <1>2, <1>4, LenProperties
<1>6. /\ \A i \in 1 .. n : a[i] = wire[1][i].meant
      /\ \A i \in 1 .. Len(sends) : b[i] = sends[i].msg
  BY <1>2
<1>7. Meant(1) = a \o b
  BY DEF Meant
<1> HIDE DEF a, b, n
<1>8. /\ a \o b \in Seq(Messages) /\ Len(a \o b) = n + Len(sends)
      /\ \A i \in 1 .. n + Len(sends) : (a \o b)[i] = IF i <= n THEN a[i] ELSE b[i - n]
  <2>1. /\ a \o b \in Seq(Messages) /\ Len(a \o b) = Len(a) + Len(b)
        /\ \A i \in 1 .. Len(a) + Len(b) :
               (a \o b)[i] = IF i <= Len(a) THEN a[i] ELSE b[i - Len(a)]
    BY <1>4, ConcatProperties
  <2> QED
    BY <1>5, <2>1
<1>9. DOMAIN (a \o b) = 1 .. n + Len(sends)
  BY <1>8, LenProperties
<1>10. \A i \in 1 .. n : (a \o b)[i] = a[i]
  BY <1>2, <1>8
<1>11. \A i \in 1 .. Len(sends) : (a \o b)[n + i] = b[i]
  BY <1>2, <1>8
<1> QED
  BY <1>2, <1>6, <1>7, <1>9, <1>10, <1>11 DEF n

(* The echoes of a first connection are posted and sent in the order of the  *)
(* receives, each once, whichever workers handle them.                      *)
THEOREM EchoInOrderTheorem == Spec => []EchoInOrder
<1>1. EchoInv => EchoInOrder
  <2> SUFFICES ASSUME EchoInv, conns = 1
               PROVE  LET meant == Meant(1)
                          place(m) == CHOOSE i \in DOMAIN received[1] : received[1][i] = m
                      IN  /\ Range(meant) \subseteq Range(received[1])
                          /\ \A i, j \in DOMAIN meant : i < j => place(meant[i]) < place(meant[j])
    BY DEF EchoInOrder
  <2> DEFINE n == Len(wire[1])
             k == Len(sends)
             meant == Meant(1)
             r == received[1]
             place(m) == CHOOSE i \in DOMAIN r : r[i] = m
  <2>1. OrderInv
    BY DEF EchoInv
  <2>2. DOMAIN r = 1 .. Len(r)
    <3>1. r \in Seq(Messages)
      BY ConnAssumption DEF EchoInv, TypeOK, Conns, Socks
    <3> QED
      BY <3>1, LenProperties
  <2>3. /\ n \in Nat /\ k \in Nat
        /\ DOMAIN meant = 1 .. n + k
        /\ \A i \in 1 .. n : meant[i] = wire[1][i].meant
        /\ \A i \in 1 .. k : meant[n + i] = sends[i].msg
    BY MeantSequence
  <2>4. \A i \in DOMAIN r : place(r[i]) = i
    BY <2>1, <2>2 DEF OrderInv
  <2> HIDE DEF place, meant, n, k
  <2>5. ASSUME NEW x, NEW y, ReceivedBefore(x, y) PROVE place(x) < place(y)
    BY <2>2, <2>4, <2>5 DEF ReceivedBefore
  <2>6. \A i \in 1 .. n + k : i \in 1 .. n \/ (i - n \in 1 .. k /\ n + (i - n) = i)
    BY <2>3
  <2>7. ASSUME NEW i \in DOMAIN meant PROVE Received(meant[i])
    <3>1. CASE i \in 1 .. n
      BY <2>1, <2>3, <3>1 DEF OrderInv, n
    <3>2. CASE i - n \in 1 .. k /\ n + (i - n) = i
      <4>1. meant[i] = sends[i - n].msg
        BY <2>3, <3>2
      <4> QED
        BY <2>1, <3>2, <4>1 DEF OrderInv, k
    <3> QED
      BY <2>3, <2>6, <3>1, <3>2
  <2>8. Range(meant) \subseteq Range(r)
    BY <2>2, <2>7 DEF Range, Received
  <2>9. ASSUME NEW i \in DOMAIN meant, NEW j \in DOMAIN meant, i < j
        PROVE  ReceivedBefore(meant[i], meant[j])
    <3>1. CASE i \in 1 .. n /\ j \in 1 .. n
      BY <2>1, <2>3, <2>9, <3>1 DEF OrderInv, n
    <3>2. CASE i \in 1 .. n /\ j - n \in 1 .. k /\ n + (j - n) = j
      <4>1. meant[j] = sends[j - n].msg /\ meant[i] = wire[1][i].meant
        BY <2>3, <3>2
      <4> QED
        BY <2>1, <3>2, <4>1 DEF OrderInv, k, n
    <3>3. CASE /\ i - n \in 1 .. k /\ n + (i - n) = i
               /\ j - n \in 1 .. k /\ n + (j - n) = j
      <4>1. meant[j] = sends[j - n].msg /\ meant[i] = sends[i - n].msg
        BY <2>3, <3>3
      <4>2. i - n < j - n
        BY <2>3, <2>9
      <4> QED
        BY <2>1, <3>3, <4>1, <4>2 DEF OrderInv, k
    <3>4. ~ (i - n \in 1 .. k /\ j \in 1 .. n)
      BY <2>3, <2>9
    <3> QED
      BY <2>3, <2>6, <3>1, <3>2, <3>3, <3>4
  <2> QED
    BY <2>5, <2>8, <2>9 DEF meant, place
<1> QED
  BY <1>1, Invariance, PTL
==============================================================================
