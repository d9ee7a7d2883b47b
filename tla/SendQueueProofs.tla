--------------------------- MODULE SendQueueProofs ---------------------------
(* Proofs about SendQueue, for any number of workers, messages and           *)
(* connections.                                                             *)
EXTENDS SendQueue, SequenceTheorems, TLAPS

(* Moving the front of a queue to the end of the list of what has left it    *)
(* (SendCompleted) keeps the concatenation of the two.                      *)
LEMMA MoveFront ==
  ASSUME NEW S, NEW f \in Seq(S), NEW q \in Seq(S), q # << >>
  PROVE  /\ Append(f, Head(q)) \in Seq(S)
         /\ Tail(q) \in Seq(S)
         /\ Append(f, Head(q)) \o Tail(q) = f \o q
<1>1. /\ Head(q) \in S /\ Tail(q) \in Seq(S)
      /\ Len(Tail(q)) = Len(q) - 1
      /\ \A i \in 1 .. Len(Tail(q)) : Tail(q)[i] = q[i + 1]
  BY HeadTailProperties
<1> DEFINE g == Append(f, Head(q))
<1>2. /\ g \in Seq(S) /\ Len(g) = Len(f) + 1
      /\ \A i \in 1 .. Len(f) : g[i] = f[i]
      /\ g[Len(f) + 1] = q[1]
  BY <1>1
<1> HIDE DEF g
<1>3. /\ g \o Tail(q) \in Seq(S) /\ Len(g \o Tail(q)) = Len(g) + Len(Tail(q))
      /\ \A i \in 1 .. Len(g) + Len(Tail(q)) : (g \o Tail(q))[i] =
                IF i <= Len(g) THEN g[i] ELSE Tail(q)[i - Len(g)]
  BY <1>1, <1>2, ConcatProperties
<1>4. /\ f \o q \in Seq(S) /\ Len(f \o q) = Len(f) + Len(q)
      /\ \A i \in 1 .. Len(f) + Len(q) : (f \o q)[i] =
                IF i <= Len(f) THEN f[i] ELSE q[i - Len(f)]
  BY ConcatProperties
<1>5. Len(f) \in Nat /\ Len(q) \in Nat /\ Len(q) >= 1
  BY LenProperties, EmptySeq
<1>6. ASSUME NEW i \in 1 .. Len(f) + Len(q)
      PROVE  (g \o Tail(q))[i] = (f \o q)[i]
  BY <1>1, <1>2, <1>3, <1>4, <1>5
<1>7. g \o Tail(q) = f \o q
  BY SMTT(30), <1>1, <1>2, <1>3, <1>4, <1>5, <1>6, SeqEqual
<1> QED
  BY <1>1, <1>2, <1>7 DEF g

(* Pushing at the end of a queue (SendMsg) pushes at the end of the whole.   *)
LEMMA PushBack ==
  ASSUME NEW S, NEW f \in Seq(S), NEW q \in Seq(S), NEW e \in S,
         NEW r, r = Append(q, e)
  PROVE  Append(f \o q, e) = f \o r
<1>1. Append(q, e) \in Seq(S) /\ Append(q, e) # << >>
  OBVIOUS
<1>2. f \o q \in Seq(S) /\ f \o Append(q, e) \in Seq(S) /\ Append(f \o q, e) \in Seq(S)
  BY <1>1, ConcatProperties
<1>3. Append(f \o q, e) = f \o Append(q, e)
  <2>1. /\ Len(f) \in Nat /\ Len(q) \in Nat
        /\ Len(f \o q) = Len(f) + Len(q)
        /\ Len(Append(f \o q, e)) = Len(f) + Len(q) + 1
        /\ Len(f \o Append(q, e)) = Len(f) + Len(q) + 1
    BY <1>1, <1>2, ConcatProperties, LenProperties
  <2>2. ASSUME NEW i \in 1 .. Len(f) + Len(q) + 1
        PROVE  Append(f \o q, e)[i] = (f \o Append(q, e))[i]
    <3> DEFINE pushed == Append(q, e)
    <3>1. /\ Len(pushed) = Len(q) + 1
          /\ \A j \in 1 .. Len(q) : pushed[j] = q[j]
          /\ pushed[Len(q) + 1] = e
      OBVIOUS
    <3>2. (f \o pushed)[i] = IF i <= Len(f) THEN f[i] ELSE pushed[i - Len(f)]
      BY <1>1, <2>1, <3>1, ConcatProperties
    <3>3. i <= Len(f) + Len(q) =>
             (f \o q)[i] = IF i <= Len(f) THEN f[i] ELSE q[i - Len(f)]
      BY <2>1, ConcatProperties
    <3>4. Append(f \o q, e)[i] = IF i <= Len(f) + Len(q) THEN (f \o q)[i] ELSE e
      BY <1>2, <2>1
    <3> QED
      BY <2>1, <3>1, <3>2, <3>3, <3>4
  <2> QED
    BY <1>2, <2>1, <2>2, SeqEqual
<1> QED
  BY <1>3

(* The front of the queue is what comes after what has left it.              *)
LEMMA FrontOfRest ==
  ASSUME NEW S, NEW f \in Seq(S), NEW q \in Seq(S), q # << >>
  PROVE  /\ Len(f) < Len(f \o q)
         /\ (f \o q)[Len(f) + 1] = Head(q)
BY ConcatProperties, LenProperties, EmptySeq

(* A new message at the end of a list without repetitions repeats nothing.   *)
LEMMA AppendNew ==
  ASSUME NEW S, NEW s \in Seq(S), NEW t \in Seq(S), NEW e \in S,
         IsInjective(s \o t), e \notin Range(t) \cup Range(s)
  PROVE  IsInjective(s \o Append(t, e))
<1>1. s \o t \in Seq(S) /\ Append(s \o t, e) = s \o Append(t, e)
  <2>1. s \o t \in Seq(S)
    BY ConcatProperties
  <2>2. Append(s \o t, e) = s \o Append(t, e)
    BY PushBack
  <2> QED
    BY <2>1, <2>2
<1>2. /\ Len(s) \in Nat /\ Len(t) \in Nat /\ Len(s \o t) = Len(s) + Len(t)
      /\ DOMAIN s = 1 .. Len(s) /\ DOMAIN t = 1 .. Len(t)
      /\ DOMAIN (s \o t) = 1 .. Len(s) + Len(t)
  BY ConcatProperties, LenProperties
<1>3. ASSUME NEW i \in 1 .. Len(s) + Len(t)
      PROVE  (s \o t)[i] # e
  <2>1. (s \o t)[i] = IF i <= Len(s) THEN s[i] ELSE t[i - Len(s)]
    BY <1>2, ConcatProperties
  <2>2. CASE i <= Len(s)
    BY <1>2, <2>1, <2>2 DEF Range
  <2>3. CASE ~(i <= Len(s))
    <3>1. i - Len(s) \in 1 .. Len(t)
      BY <1>2, <2>3
    <3> QED
      BY <1>2, <2>1, <2>3, <3>1 DEF Range
  <2> QED
    BY <2>2, <2>3
<1> DEFINE r == s \o t
<1>4. /\ Len(Append(r, e)) = Len(r) + 1
      /\ \A i \in 1 .. Len(r) : Append(r, e)[i] = r[i]
      /\ Append(r, e)[Len(r) + 1] = e
      /\ DOMAIN Append(r, e) = 1 .. Len(r) + 1
  BY <1>1
<1>5. \A a, b \in 1 .. Len(r) : r[a] = r[b] => a = b
  BY <1>2 DEF IsInjective
<1>6. \A i \in 1 .. Len(r) : r[i] # e
  BY <1>2, <1>3
<1>7. Len(r) \in Nat
  BY <1>2
<1> HIDE DEF r
<1>8. IsInjective(Append(r, e))
  BY <1>4, <1>5, <1>6, <1>7 DEF IsInjective
<1> QED
  BY <1>1, <1>8 DEF r

------------------------------------------------------------------------------
LEMMA InitQueue == Init => QueueInv
<1> SUFFICES ASSUME Init PROVE QueueInv
  OBVIOUS
<1>1. TypeOK
  BY ConnAssumption DEF Init, TypeOK, Conns, WorkerStages, IOStates
<1>2. /\ LockInv /\ OneSendAtATime /\ FreesWhatCompleted /\ OnePermission
      /\ NothingForgotten
  BY ThreadAssumption DEF Init, LockInv, OneSendAtATime, FreesWhatCompleted, OnePermission,
     NothingForgotten
<1>3. HistoryInv
  BY DEF Init, HistoryInv, IsInjective
<1> QED
  BY <1>1, <1>2, <1>3 DEF QueueInv

(* The steps of the accepter, of the receive path and of Close leave the     *)
(* send queue alone.                                                        *)
LEMMA QueueUntouched ==
  ASSUME QueueInv, TypeOK', UNCHANGED <<queueVars, delivered, processThread>>,
         \A w \in Workers : \/ worker'[w] = worker[w]
                            \/ /\ worker[w] \notin {"complete", "popped"}
                               /\ worker'[w] \notin {"complete", "popped"},
         IsInjective(submitted \o mPacketDataQueue)'
  PROVE  QueueInv'
<1> USE DEF queueVars, QueueInv
<1>1. LockInv'
  BY DEF LockInv
<1>2. OneSendAtATime' /\ FreesWhatCompleted'
  BY DEF OneSendAtATime, FreesWhatCompleted
<1>3. OnePermission'
  BY DEF OnePermission
<1>4. HistoryInv'
  BY DEF HistoryInv
<1>5. NothingForgotten'
  BY DEF NothingForgotten
<1> QED
  BY <1>1, <1>2, <1>3, <1>4, <1>5

(* Taking a completed receive keeps the count of the others.                 *)
LEMMA ReceiveTakenType ==
  ASSUME TypeOK, ReceiveTaken
  PROVE  recvIO' \in [Conns -> Nat]
BY DEF TypeOK, ReceiveTaken

(* A send is on the connection the session has when WSASend takes it.        *)
LEMMA SentOnType ==
  ASSUME TypeOK, SendIO \/ UNCHANGED <<io, sentOn>>
  PROVE  sentOn' \in [Messages -> 0 .. MaxConn]
BY DEF TypeOK, SendIO

LEMMA NextQueue == QueueInv /\ [Next]_vars => QueueInv'
<1> SUFFICES ASSUME QueueInv, [Next]_vars PROVE QueueInv'
  OBVIOUS
<1> USE DEF QueueInv
<1> USE ConnAssumption, ThreadAssumption
<1>1. CASE GetEmptyClientInfo
  <2>1. TypeOK'
    BY <1>1 DEF TypeOK, GetEmptyClientInfo, queueVars, threadVars
  <2> QED
    BY <1>1, <2>1, QueueUntouched DEF HistoryInv, GetEmptyClientInfo, queueVars, threadVars
<1>2. CASE OnConnect
  <2>1. TypeOK'
    BY <1>2 DEF TypeOK, OnConnect, queueVars, threadVars, Conns
  <2> QED
    BY <1>2, <2>1, QueueUntouched DEF HistoryInv, OnConnect, queueVars, threadVars
<1>3. CASE BindIOCompletionPort \/ BindFirstRecv
  <2>1. TypeOK'
    <3>0. mSock # 0 => mSock \in Conns
      BY DEF TypeOK, Conns
    <3>1. CASE BindIOCompletionPort
      BY <3>0, <3>1 DEF TypeOK, BindIOCompletionPort, queueVars, threadVars
    <3>2. CASE BindFirstRecv
      <4>1. recvIO' \in [Conns -> Nat]
        BY <3>0, <3>2 DEF TypeOK, BindFirstRecv
      <4> QED
        BY <3>2, <4>1 DEF TypeOK, BindFirstRecv, queueVars, threadVars
    <3> QED
      BY <1>3, <3>1, <3>2
  <2> QED
    BY <1>3, <2>1, QueueUntouched DEF HistoryInv, BindIOCompletionPort, BindFirstRecv, queueVars,
       threadVars
<1>4. ASSUME NEW w \in Workers, NEW m \in Messages, OnReceive(w, m)
      PROVE  QueueInv'
  <2>1. TypeOK'
    <3>1. mPacketDataQueue' \in Seq(Messages)
      BY <1>4 DEF TypeOK, OnReceive
    <3>2. recvIO' \in [Conns -> Nat]
      BY <1>4, ReceiveTakenType DEF OnReceive
    <3> QED
      BY <1>4, <3>1, <3>2 DEF TypeOK, OnReceive, queueVars, WorkerStages
  <2>2. IsInjective(submitted \o mPacketDataQueue)'
    BY <1>4, AppendNew DEF OnReceive, Unsent, HistoryInv, TypeOK, queueVars
  <2> QED
    BY <1>4, <2>1, <2>2, QueueUntouched DEF OnReceive, TypeOK
<1>5. ASSUME NEW w \in Workers, BindRecv(w)
      PROVE  QueueInv'
  <2>1. TypeOK'
    <3>1. recvIO' \in [Conns -> Nat]
      <4>1. mSock # 0 => mSock \in Conns
        BY DEF TypeOK, Conns
      <4>2. recvIO \in [Conns -> Nat]
        BY DEF TypeOK
      <4>3. recvIO' = recvIO \/ (mSock # 0 /\ recvIO' = [recvIO EXCEPT ![mSock] = @ + 1])
        BY <1>5 DEF BindRecv
      <4> QED
        BY <4>1, <4>2, <4>3
    <3> QED
      BY <1>5, <3>1 DEF TypeOK, BindRecv, queueVars, WorkerStages
  <2> QED
    BY <1>5, <2>1, QueueUntouched DEF HistoryInv, BindRecv, TypeOK, queueVars
<1>6. ASSUME NEW w \in Workers, TakeDisconnect(w)
      PROVE  QueueInv'
  <2>1. TypeOK'
    <3>1. recvIO' \in [Conns -> Nat]
      BY <1>6, ReceiveTakenType DEF TakeDisconnect
    <3> QED
      BY <1>6, <3>1 DEF TypeOK, TakeDisconnect, queueVars, WorkerStages
  <2> QED
    BY <1>6, <2>1, QueueUntouched DEF HistoryInv, TakeDisconnect, TypeOK, queueVars
<1>7. ASSUME NEW w \in Workers, Close(w)
      PROVE  QueueInv'
  <2>1. TypeOK'
    BY <1>7 DEF TypeOK, Close, queueVars, WorkerStages, Conns
  <2> QED
    BY <1>7, <2>1, QueueUntouched DEF HistoryInv, Close, TypeOK, queueVars
<1>8. ASSUME NEW w \in Workers, TakeSent(w)
      PROVE  QueueInv'
  <2> PICK m \in Messages : io[m] = "done" /\ io' = [io EXCEPT ![m] = "reported"]
    BY <1>8 DEF TakeSent
  <2>1. /\ mSendDataqueue # << >> /\ m = Head(mSendDataqueue)
        /\ \A v \in Workers : worker[v] # "popped"
        /\ processThread = "pushed" => Len(mSendDataqueue) # 1
    BY DEF OneSendAtATime, OnePermission, TypeOK
  <2>2. \A v \in Workers : worker[v] # "complete"
    BY <2>1 DEF FreesWhatCompleted
  <2>3. TypeOK'
    BY <1>8 DEF TypeOK, TakeSent, netVars, WorkerStages, IOStates
  <2>4. LockInv'
    BY <1>8, <2>1 DEF LockInv, TakeSent, TypeOK
  <2>5. OneSendAtATime' /\ FreesWhatCompleted'
    BY <1>8, <2>1, <2>2 DEF OneSendAtATime, FreesWhatCompleted, TakeSent, TypeOK
  <2>6. OnePermission'
    BY <1>8, <2>1, <2>2 DEF OnePermission, TakeSent, TypeOK
  <2>7. HistoryInv'
    BY <1>8, <2>1 DEF HistoryInv, TakeSent, TypeOK
  <2>8. NothingForgotten'
    BY <1>8, <2>1 DEF NothingForgotten, TakeSent, TypeOK
  <2> QED
    BY <2>3, <2>4, <2>5, <2>6, <2>7, <2>8
<1>9. ASSUME NEW w \in Workers, TakeFailed(w)
      PROVE  QueueInv'
  <2> PICK m \in Messages : io[m] = "failed" /\ io' = [io EXCEPT ![m] = "lost"]
    BY <1>9 DEF TakeFailed
  <2>1. /\ mSendDataqueue # << >> /\ m = Head(mSendDataqueue)
        /\ \A v \in Workers : worker[v] # "popped"
        /\ processThread = "pushed" => Len(mSendDataqueue) # 1
    BY DEF OneSendAtATime, OnePermission, TypeOK
  <2>2. \A v \in Workers : worker[v] # "complete"
    BY <2>1 DEF FreesWhatCompleted
  <2>3. TypeOK'
    BY <1>9 DEF TypeOK, TakeFailed, netVars, WorkerStages, IOStates
  <2>4. LockInv'
    BY <1>9, <2>1 DEF LockInv, TakeFailed, TypeOK
  <2>5. OneSendAtATime' /\ FreesWhatCompleted'
    BY <1>9, <2>1, <2>2 DEF OneSendAtATime, FreesWhatCompleted, TakeFailed, TypeOK
  <2>6. OnePermission'
    BY <1>9, <2>1, <2>2 DEF OnePermission, TakeFailed, TypeOK
  <2>7. HistoryInv'
    BY <1>9, <2>1 DEF HistoryInv, TakeFailed, TypeOK
  <2>8. NothingForgotten'
    BY <1>9, <2>1 DEF NothingForgotten, TakeFailed, TypeOK
  <2> QED
    BY <2>3, <2>4, <2>5, <2>6, <2>7, <2>8
<1>10. ASSUME NEW w \in Workers, SendCompleted(w)
       PROVE  QueueInv'
  <2> DEFINE h == Head(mSendDataqueue)
             q == Tail(mSendDataqueue)
  <2>1. /\ mSendDataqueue # << >> /\ io[h] = "reported" /\ mSendLock = Free
        /\ \A v \in Workers : v # w => worker[v] # "complete"
        /\ \A v \in Workers : worker[v] # "popped"
        /\ processThread # "pushed"
    BY <1>10 DEF SendCompleted, LockIsFree, FreesWhatCompleted, OnePermission, LockInv
  <2>2. /\ h \in Messages /\ q \in Seq(Messages) /\ freed' = Append(freed, h)
        /\ freed' \in Seq(Messages) /\ freed' \o q = freed \o mSendDataqueue
    <3>1. freed \in Seq(Messages) /\ mSendDataqueue \in Seq(Messages)
      BY DEF TypeOK
    <3>2. /\ Append(freed, h) \in Seq(Messages)
          /\ Append(freed, h) \o q = freed \o mSendDataqueue
      BY <2>1, <3>1, MoveFront, Zenon
    <3>3. h \in Messages /\ q \in Seq(Messages)
      BY <2>1, <3>1, HeadTailProperties
    <3> QED
      BY <1>10, <3>2, <3>3 DEF SendCompleted
  <2>3. q # << >> => Head(q) \in Messages
    BY <2>2, HeadTailProperties
  <2>4. \A m \in Messages : io'[m] = "none"
    BY <1>10, <2>1 DEF SendCompleted, OneSendAtATime, TypeOK
  <2>5. TypeOK'
    BY <1>10, <2>2 DEF TypeOK, SendCompleted, netVars, WorkerStages, IOStates
  <2>6. LockInv'
    BY <1>10, <2>1 DEF LockInv, SendCompleted, TypeOK
  <2>7. OneSendAtATime' /\ FreesWhatCompleted'
    BY <1>10, <2>1, <2>4 DEF OneSendAtATime, FreesWhatCompleted, SendCompleted, TypeOK
  <2>8. OnePermission'
    BY <1>10, <2>1, <2>4 DEF OnePermission, SendCompleted, TypeOK
  <2>9. HistoryInv'
    <3>1. delivered' = freed'
      BY <1>10, <2>1 DEF HistoryInv, SendCompleted
    <3>2. mSendDataqueue' # << >> => io'[Head(mSendDataqueue')] = "none"
      BY <1>10, <2>3, <2>4 DEF SendCompleted
    <3>3. submitted' = freed' \o mSendDataqueue'
      BY <1>10, <2>2 DEF HistoryInv, SendCompleted
    <3>4. IsInjective(submitted \o mPacketDataQueue)'
      BY <1>10 DEF HistoryInv, SendCompleted
    <3> QED
      BY <3>1, <3>2, <3>3, <3>4 DEF HistoryInv
  <2>10. NothingForgotten'
    <3>1. mSendDataqueue' # << >> => io'[Head(mSendDataqueue')] = "none"
      BY <1>10, <2>3, <2>4 DEF SendCompleted
    <3>2. worker'[w] = "popped"
      BY <1>10 DEF SendCompleted, TypeOK
    <3> QED
      BY <3>1, <3>2 DEF NothingForgotten
  <2> QED
    BY <2>5, <2>6, <2>7, <2>8, <2>9, <2>10
<1>11. ASSUME NEW w \in Workers, SendNext(w)
       PROVE  QueueInv'
  <2>1. /\ mSendLock = w /\ processThread # "pushed"
        /\ \A m \in Messages : io[m] = "none"
        /\ \A v \in Workers : worker[v] # "complete"
        /\ \A v \in Workers : v # w => worker[v] # "popped"
    BY <1>11 DEF SendNext, LockInv, OnePermission
  <2>2. mSendDataqueue # << >> => Head(mSendDataqueue) \in Messages
    BY HeadTailProperties DEF TypeOK
  <2>3. \/ io' = io
        \/ /\ mSendDataqueue # << >>
           /\ \E st \in {"kernel", "refused"} :
                 io' = [io EXCEPT ![Head(mSendDataqueue)] = st]
    BY <1>11 DEF SendNext, MoreToSend, SendIO
  <2>4. TypeOK'
    <3>1. sentOn' \in [Messages -> 0 .. MaxConn]
      BY <1>11, SentOnType DEF SendNext, TypeOK
    <3> QED
      BY <1>11, <2>2, <2>3, <3>1 DEF TypeOK, SendNext, netVars, WorkerStages, IOStates
  <2>5. LockInv'
    BY <1>11, <2>1 DEF LockInv, SendNext, TypeOK
  <2>6. OneSendAtATime' /\ FreesWhatCompleted'
    BY <1>11, <2>1, <2>3 DEF OneSendAtATime, FreesWhatCompleted, SendNext, TypeOK
  <2>7. OnePermission'
    BY <1>11, <2>1 DEF OnePermission, SendNext, TypeOK
  <2>8. HistoryInv'
    BY <1>11, <2>1, <2>2, <2>3 DEF HistoryInv, SendNext, TypeOK
  <2>9. NothingForgotten'
    <3>1. mSendDataqueue' # << >> => io'[Head(mSendDataqueue')] \in {"kernel", "refused"}
      BY <1>11, <2>2 DEF SendNext, MoreToSend, SendIO, TypeOK
    <3> QED
      BY <3>1 DEF NothingForgotten
  <2> QED
    BY <2>4, <2>5, <2>6, <2>7, <2>8, <2>9
<1>12. CASE SendMsg
  <2> DEFINE h == Head(mPacketDataQueue)
  <2>1. /\ mSendLock = Free /\ mPacketDataQueue # << >>
        /\ \A v \in Workers : worker[v] # "popped"
        /\ h \in Messages /\ Tail(mPacketDataQueue) \in Seq(Messages)
        /\ submitted' \in Seq(Messages)
        /\ submitted' \o mPacketDataQueue' = submitted \o mPacketDataQueue
    BY ZenonT(40), <1>12, MoveFront, HeadTailProperties DEF SendMsg, LockIsFree, LockInv, TypeOK
  <2>2. /\ mSendDataqueue' = Append(mSendDataqueue, h)
        /\ mSendDataqueue' \in Seq(Messages) /\ mSendDataqueue' # << >>
        /\ mSendDataqueue # << >> => Head(mSendDataqueue') = Head(mSendDataqueue)
        /\ mSendDataqueue = << >> => Head(mSendDataqueue') = h
        /\ Len(mSendDataqueue') = 1 <=> mSendDataqueue = << >>
        /\ submitted' = freed \o mSendDataqueue'
    <3>1. /\ freed \in Seq(Messages) /\ mSendDataqueue \in Seq(Messages)
          /\ h \in Messages
      BY <2>1 DEF TypeOK
    <3> DEFINE q == Append(mSendDataqueue, h)
    <3> HIDE DEF h
    <3>2. /\ q \in Seq(Messages) /\ q # << >>
          /\ mSendDataqueue # << >> => Head(q) = Head(mSendDataqueue)
          /\ mSendDataqueue = << >> => Head(q) = h
          /\ Append(freed \o mSendDataqueue, h) = freed \o q
      <4>1. Append(freed \o mSendDataqueue, h) = freed \o q
        BY <3>1, PushBack
      <4> QED
        BY <3>1, <4>1
    <3>3. Len(q) = 1 <=> mSendDataqueue = << >>
      BY <3>1, EmptySeq
    <3>4. submitted' = Append(freed \o mSendDataqueue, h) /\ mSendDataqueue' = q
      BY <1>12 DEF SendMsg, HistoryInv, h
    <3> HIDE DEF q
    <3> QED
      BY <3>2, <3>3, <3>4 DEF q
  <2>3. mSendDataqueue = << >> => /\ \A m \in Messages : io[m] = "none"
                                 /\ \A v \in Workers : worker[v] # "complete"
    BY DEF OneSendAtATime, FreesWhatCompleted
  <2>4. TypeOK'
    BY <1>12, <2>1, <2>2 DEF TypeOK, SendMsg, netVars
  <2>5. LockInv'
    BY <1>12, <2>1 DEF LockInv, SendMsg
  <2>6. OneSendAtATime' /\ FreesWhatCompleted'
    BY <1>12, <2>2, <2>3 DEF OneSendAtATime, FreesWhatCompleted, SendMsg
  <2>7. OnePermission'
    BY <1>12, <2>1, <2>2, <2>3 DEF OnePermission, SendMsg
  <2>8. HistoryInv'
    <3>1. delivered' = delivered /\ freed' = freed /\ io' = io
      BY <1>12 DEF SendMsg
    <3>2. CASE mSendDataqueue = << >>
      BY <2>1, <2>2, <2>3, <3>1, <3>2 DEF HistoryInv
    <3>3. CASE mSendDataqueue # << >>
      BY <2>1, <2>2, <3>1, <3>3 DEF HistoryInv
    <3> QED
      BY <3>2, <3>3
  <2>9. NothingForgotten'
    <3>1. processThread' = "pushed" /\ UNCHANGED <<io, worker>> /\ processThread = "wait"
      BY <1>12 DEF SendMsg
    <3>2. CASE mSendDataqueue = << >>
      BY <2>1, <2>2, <2>3, <3>1, <3>2 DEF NothingForgotten
    <3>3. CASE mSendDataqueue # << >>
      BY <2>1, <2>2, <3>1, <3>3 DEF NothingForgotten
    <3> QED
      BY <3>2, <3>3
  <2> QED
    BY <2>4, <2>5, <2>6, <2>7, <2>8, <2>9
<1>13. CASE SendFirst
  <2>1. /\ mSendLock = Sender /\ mSendDataqueue # << >>
        /\ Head(mSendDataqueue) \in Messages
        /\ \A v \in Workers : worker[v] # "popped"
    BY <1>13, HeadTailProperties DEF SendFirst, LockInv, OnePermission, TypeOK
  <2>2. \/ io' = io
        \/ /\ \A m \in Messages : io[m] = "none"
           /\ \A v \in Workers : worker[v] # "complete"
           /\ \E st \in {"kernel", "refused"} :
                 io' = [io EXCEPT ![Head(mSendDataqueue)] = st]
    BY <1>13 DEF SendFirst, NothingUnderWay, SendIO, OnePermission
  <2>3. TypeOK'
    <3>1. sentOn' \in [Messages -> 0 .. MaxConn]
      BY <1>13, SentOnType DEF SendFirst, TypeOK
    <3> QED
      BY <1>13, <2>1, <2>2, <3>1 DEF TypeOK, SendFirst, netVars, IOStates
  <2>4. LockInv'
    BY <1>13, <2>1 DEF LockInv, SendFirst
  <2>5. OneSendAtATime' /\ FreesWhatCompleted'
    BY <1>13, <2>1, <2>2 DEF OneSendAtATime, FreesWhatCompleted, SendFirst, TypeOK
  <2>6. OnePermission'
    BY <1>13, <2>1 DEF OnePermission, SendFirst
  <2>7. HistoryInv'
    BY <1>13, <2>1, <2>2 DEF HistoryInv, SendFirst, TypeOK
  <2>8. NothingForgotten'
    <3>1. CASE NothingUnderWay
      <4>1. io'[Head(mSendDataqueue')] \in {"kernel", "refused"}
        BY <1>13, <2>1, <3>1 DEF SendFirst, SendIO, TypeOK
      <4> QED
        BY <4>1 DEF NothingForgotten
    <3>2. CASE ~ NothingUnderWay
      BY <1>13, <2>1, <3>2 DEF SendFirst, NothingUnderWay, NothingForgotten
    <3> QED
      BY <3>1, <3>2
  <2> QED
    BY <2>3, <2>4, <2>5, <2>6, <2>7, <2>8
<1>14. ASSUME NEW m \in Messages, Transmit(m) \/ Fail(m)
       PROVE  QueueInv'
  <2>1. /\ io[m] = "kernel" /\ mSendDataqueue # << >> /\ m = Head(mSendDataqueue)
        /\ \A n \in Messages : n # m => io[n] = "none"
    BY <1>14 DEF Transmit, Fail, Finish, OneSendAtATime
  <2>2. /\ \A v \in Workers : worker[v] \notin {"complete", "popped"}
        /\ processThread = "pushed" => Len(mSendDataqueue) # 1
    BY <2>1 DEF OnePermission, FreesWhatCompleted
  <2>3. TypeOK'
    <3>1. io' \in [Messages -> IOStates]
      BY <1>14 DEF TypeOK, Transmit, Fail, Finish, IOStates
    <3>2. delivered' \in Seq(Messages)
      <4>1. delivered \in Seq(Messages)
        BY DEF TypeOK
      <4>2. CASE delivered' = delivered
        BY <4>1, <4>2
      <4>3. CASE delivered' = Append(delivered, m)
        BY <4>1, <4>3
      <4> QED
        BY <1>14, <4>2, <4>3 DEF Transmit, Fail, Finish
    <3>3. sentOn' \in [Messages -> 0 .. MaxConn]
      <4>1. sentOn' = [sentOn EXCEPT ![m] = 0] /\ 0 \in 0 .. MaxConn
        BY <1>14 DEF Transmit, Fail, Finish
      <4> QED
        BY <4>1 DEF TypeOK
    <3> QED
      BY <1>14, <3>1, <3>2, <3>3 DEF TypeOK, Transmit, Fail, Finish, netVars, threadVars
  <2>4. LockInv'
    BY <1>14 DEF LockInv, Transmit, Fail, Finish, threadVars
  <2>5. OneSendAtATime' /\ FreesWhatCompleted'
    BY <1>14, <2>1, <2>2 DEF OneSendAtATime, FreesWhatCompleted, Transmit, Fail, Finish,
       threadVars, TypeOK
  <2>6. OnePermission'
    BY <1>14, <2>2 DEF OnePermission, Transmit, Fail, Finish, threadVars
  <2>7. HistoryInv'
    BY <1>14, <2>1 DEF HistoryInv, Transmit, Fail, Finish, threadVars, TypeOK
  <2>8. NothingForgotten'
    BY <1>14, <2>1 DEF NothingForgotten, Transmit, Fail, Finish, threadVars, TypeOK
  <2> QED
    BY <2>3, <2>4, <2>5, <2>6, <2>7, <2>8
<1>15. CASE UNCHANGED vars
  <2>1. TypeOK'
    BY <1>15 DEF TypeOK, vars, netVars, queueVars, threadVars
  <2> QED
    BY <1>15, <2>1, QueueUntouched DEF HistoryInv, vars, queueVars, threadVars
<1>16. ASSUME NEW c \in Conns, ReceiveUnheard(c)
       PROVE  QueueInv'
  <2>1. TypeOK'
    <3>1. recvIO' \in [Conns -> Nat]
      BY <1>16 DEF TypeOK, ReceiveUnheard
    <3> QED
      BY <1>16, <3>1 DEF TypeOK, ReceiveUnheard, queueVars, threadVars
  <2> QED
    BY <1>16, <2>1, QueueUntouched DEF HistoryInv, ReceiveUnheard, queueVars, threadVars
<1> QED
  BY <1>1, <1>2, <1>3, <1>4, <1>5, <1>6, <1>7, <1>8, <1>9, <1>10, <1>11, <1>12,
     <1>13, <1>14, <1>15, <1>16 DEF Next, WorkerStep


(* Who changes what a first connection's sends and receives depend on.       *)
LEMMA FirstHeardKept ==
  ASSUME SendQueueInv, TypeOK', [Next]_vars
  PROVE  FirstHeard'
<1>1. /\ conns \in Nat /\ mSock \in Nat /\ conns' \in Nat
      /\ bound \subseteq Nat /\ sentOn \in [Messages -> Nat]
      /\ FirstHeard
  BY ConnAssumption DEF SendQueueInv, QueueInv, TypeOK, Conns
<1> DEFINE Posted(m) == \/ io'[m] = io[m] /\ sentOn'[m] = sentOn[m]
                        \/ io'[m] \notin {"kernel", "unreported"}
                        \/ io'[m] = "kernel" /\ sentOn'[m] = mSock /\ mSock # 0
           Incoming == \/ UNCHANGED <<submitted, mPacketDataQueue>>
                       \/ 1 \in bound \/ conns > 1
                       \/ mPacketDataQueue # << >>
           SameConns == conns' = conns /\ mSock' \in {0, mSock} /\ bound' = bound
<1>2. SameConns /\ Incoming /\ (\A m \in Messages : Posted(m)) => FirstHeard'
  BY <1>1 DEF FirstHeard
<1>3. ASSUME GetEmptyClientInfo \/ UNCHANGED vars \/ \E c \in Conns : ReceiveUnheard(c)
      PROVE  FirstHeard'
  BY <1>2, <1>3 DEF GetEmptyClientInfo, ReceiveUnheard, vars, netVars, queueVars, threadVars
<1>4. CASE OnConnect
  <2>1. conns' = conns + 1 /\ mSock' = conns + 1
        /\ UNCHANGED <<bound, io, sentOn, submitted, mPacketDataQueue>>
    BY <1>4 DEF OnConnect, queueVars, threadVars
  <2>2. conns' <= 1 => conns = 0 /\ 1 \notin bound /\ bound = {}
    BY <1>1, <2>1 DEF FirstHeard
  <2>3. bound \subseteq 1 .. conns + 1
    BY <1>1 DEF FirstHeard
  <2>4. \A m \in Messages : io[m] = "kernel" => sentOn[m] \in 1 .. conns + 1
    BY <1>1 DEF FirstHeard
  <2> QED
    BY <1>1, <2>1, <2>2, <2>3, <2>4 DEF FirstHeard
<1>5. CASE BindIOCompletionPort
  <2>1. UNCHANGED <<conns, mSock, io, sentOn, submitted, mPacketDataQueue>>
    BY <1>5 DEF BindIOCompletionPort, queueVars, threadVars
  <2>2. bound \subseteq bound' /\ bound' \subseteq bound \cup {mSock} /\ (bound' = bound \/ mSock # 0)
    BY <1>5 DEF BindIOCompletionPort
  <2> QED
    BY <1>1, <2>1, <2>2 DEF FirstHeard
<1>6. CASE BindFirstRecv
  BY <1>6, <1>2 DEF BindFirstRecv, queueVars, threadVars
<1>7. ASSUME NEW w \in Workers, WorkerStep(w)
      PROVE  FirstHeard'
  <2>1. ASSUME NEW m \in Messages, OnReceive(w, m)
        PROVE  FirstHeard'
    <3>1. PICK c \in bound : recvIO[c] > 0
      BY <2>1 DEF OnReceive, ReceiveTaken
    <3>2. 1 \in bound \/ conns > 1
      BY <1>1, <3>1 DEF FirstHeard
    <3> QED
      BY <1>2, <2>1, <3>2 DEF OnReceive, queueVars
  <2>2. CASE BindRecv(w) \/ TakeDisconnect(w) \/ Close(w)
    BY <1>2, <2>2 DEF BindRecv, TakeDisconnect, Close, queueVars
  <2>3. CASE TakeSent(w) \/ TakeFailed(w) \/ SendCompleted(w)
    <3>1. \A m \in Messages : io'[m] = io[m] \/ io'[m] \notin {"kernel", "unreported"}
      BY <2>3 DEF TakeSent, TakeFailed, SendCompleted, SendQueueInv, QueueInv, TypeOK
    <3> QED
      BY <1>2, <2>3, <3>1 DEF TakeSent, TakeFailed, SendCompleted, netVars
  <2>4. CASE SendNext(w)
    <3>1. SendIO \/ UNCHANGED <<io, sentOn>>
      BY <2>4 DEF SendNext
    <3> QED
      BY <1>2, <2>4, <3>1 DEF SendNext, SendIO, SendQueueInv, QueueInv, TypeOK, netVars
  <2> QED
    BY <1>7, <2>1, <2>2, <2>3, <2>4 DEF WorkerStep
<1>8. CASE SendMsg
  BY <1>2, <1>8 DEF SendMsg, netVars
<1>9. CASE SendFirst
  <2>1. SendIO \/ UNCHANGED <<io, sentOn>>
    BY <1>9 DEF SendFirst
  <2> QED
    BY <1>2, <1>9, <2>1 DEF SendFirst, SendIO, SendQueueInv, QueueInv, TypeOK, netVars
<1>10. ASSUME NEW m \in Messages, Transmit(m) \/ Fail(m)
       PROVE  FirstHeard'
  <2>1. /\ UNCHANGED <<netVars, submitted, mPacketDataQueue, mSendDataqueue>>
        /\ io[m] = "kernel"
        /\ \A n \in Messages : n # m => io'[n] = io[n] /\ sentOn'[n] = sentOn[n]
        /\ io'[m] # "kernel"
        /\ io'[m] = "unreported" => sentOn[m] \notin bound
    BY <1>10 DEF Transmit, Fail, Finish, SendQueueInv, QueueInv, TypeOK, threadVars
  <2>2. sentOn[m] \in 1 .. conns /\ mSendDataqueue # << >>
    BY <2>1 DEF FirstHeard, SendQueueInv, QueueInv, OneSendAtATime
  <2>3. submitted # << >>
    BY <2>2, FrontOfRest, EmptySeq DEF SendQueueInv, QueueInv, HistoryInv, TypeOK
  <2>4. conns <= 1 => io'[m] # "unreported"
    BY <1>1, <2>1, <2>2, <2>3 DEF FirstHeard
  <2> QED
    BY <1>1, <2>1, <2>3, <2>4 DEF FirstHeard, netVars
<1> QED
  BY <1>3, <1>4, <1>5, <1>6, <1>7, <1>8, <1>9, <1>10 DEF Next

LEMMA InitInv == Init => SendQueueInv
<1> SUFFICES ASSUME Init PROVE SendQueueInv
  OBVIOUS
<1>1. FirstHeard
  BY ConnAssumption DEF Init, FirstHeard
<1> QED
  BY <1>1, InitQueue DEF SendQueueInv

LEMMA NextInv == SendQueueInv /\ [Next]_vars => SendQueueInv'
BY NextQueue, FirstHeardKept DEF SendQueueInv, QueueInv

------------------------------------------------------------------------------
(* The queue's bookkeeping is right in every reachable state.                *)
THEOREM Invariance == Spec => []SendQueueInv
BY InitInv, NextInv, PTL DEF Spec

(* Type correctness of the whole session. *)
THEOREM TypeCorrect == Spec => []TypeOK
<1>1. SendQueueInv => TypeOK
  BY DEF SendQueueInv, QueueInv
<1> QED
  BY <1>1, Invariance, PTL

(* No two sends of one session are ever under way together, whichever        *)
(* workers and the packet thread race on mSendDataqueue.                    *)
THEOREM OneSendTheorem == Spec => []OneSendAtATime
<1>1. SendQueueInv => OneSendAtATime
  BY DEF SendQueueInv, QueueInv
<1> QED
  BY <1>1, Invariance, PTL

(* `delete mSendDataqueue.front()` in SendCompleted is safe: the front       *)
(* exists and is the block whose completion is being handled.               *)
THEOREM FreesTheorem == Spec => []FreesWhatCompleted
<1>1. SendQueueInv => FreesWhatCompleted
  BY DEF SendQueueInv, QueueInv
<1> QED
  BY <1>1, Invariance, PTL

(* The kernel never holds a deleted block. *)
THEOREM NoUseAfterFreeTheorem == Spec => []NoUseAfterFree
<1>1. SendQueueInv => NoUseAfterFree
  <2> SUFFICES ASSUME SendQueueInv, NEW m \in Messages, io[m] # "none"
               PROVE  m \notin Range(freed)
    BY DEF NoUseAfterFree
  <2> USE DEF SendQueueInv, QueueInv
  <2>1. /\ mSendDataqueue # << >> /\ m = Head(mSendDataqueue)
        /\ freed \in Seq(Messages) /\ mSendDataqueue \in Seq(Messages)
        /\ mPacketDataQueue \in Seq(Messages)
        /\ submitted \in Seq(Messages) /\ submitted = freed \o mSendDataqueue
    BY DEF OneSendAtATime, HistoryInv, TypeOK
  <2>2. /\ Len(freed) < Len(submitted) /\ submitted[Len(freed) + 1] = m
        /\ \A i \in 1 .. Len(freed) : submitted[i] = freed[i]
    BY <2>1, FrontOfRest, ConcatProperties, LenProperties
  <2>3. \A i, j \in 1 .. Len(submitted) : submitted[i] = submitted[j] => i = j
    <3> DEFINE all == submitted \o mPacketDataQueue
    <3>1. /\ DOMAIN all = 1 .. Len(submitted) + Len(mPacketDataQueue)
          /\ Len(submitted) \in Nat /\ Len(mPacketDataQueue) \in Nat
          /\ \A i \in 1 .. Len(submitted) : all[i] = submitted[i]
      BY <2>1, ConcatProperties, LenProperties
    <3>2. IsInjective(all)
      BY DEF HistoryInv
    <3> HIDE DEF all
    <3> QED
      BY <3>1, <3>2 DEF IsInjective
  <2>4. Len(freed) \in Nat /\ Len(submitted) \in Nat /\ DOMAIN freed = 1 .. Len(freed)
    BY <2>1, LenProperties
  <2> QED
    BY <2>2, <2>3, <2>4 DEF Range
<1> QED
  BY <1>1, Invariance, PTL

(* The session implements OrderedSender: whatever fails or disconnects, what *)
(* the network takes is what SendMsg was given, in order, without gaps.     *)
THEOREM Refinement == Spec => InOrder
<1>1. Init => Abstract!Init
  BY DEF Init, Abstract!Init
<1>2. SendQueueInv /\ [Next]_vars => [Abstract!Next]_(Abstract!vars)
  <2> SUFFICES ASSUME SendQueueInv, [Next]_vars
               PROVE  [Abstract!Next]_(Abstract!vars)
    OBVIOUS
  <2> USE DEF SendQueueInv, QueueInv
  <2>1. CASE SendMsg
    <3>1. /\ Head(mPacketDataQueue) \in Messages
          /\ submitted' = Append(submitted, Head(mPacketDataQueue))
          /\ UNCHANGED delivered
      BY <2>1, HeadTailProperties DEF SendMsg, TypeOK
    <3> QED
      BY <3>1 DEF Abstract!Next, Abstract!Submit
  <2>2. ASSUME NEW m \in Messages, Transmit(m)
        PROVE  Abstract!Deliver
    <3>1. mSendDataqueue # << >> /\ m = Head(mSendDataqueue)
      BY <2>2 DEF Transmit, Finish, OneSendAtATime
    <3>2. delivered = freed /\ submitted = freed \o mSendDataqueue
      BY <2>2, <3>1 DEF Transmit, Finish, HistoryInv
    <3>3. Len(delivered) < Len(submitted) /\ submitted[Len(delivered) + 1] = m
      BY <3>1, <3>2, FrontOfRest DEF TypeOK
    <3> QED
      BY <2>2, <3>3 DEF Abstract!Deliver, Transmit, Finish
  <2>3. CASE \/ GetEmptyClientInfo \/ OnConnect \/ BindIOCompletionPort \/ BindFirstRecv \/ SendFirst
             \/ \E w \in Workers : WorkerStep(w)
             \/ \E m \in Messages : Fail(m)
             \/ \E c \in Conns : ReceiveUnheard(c)
             \/ UNCHANGED vars
    <3>1. UNCHANGED <<submitted, delivered>>
      BY <2>3 DEF GetEmptyClientInfo, OnConnect, BindIOCompletionPort, BindFirstRecv,
         SendFirst, WorkerStep,
         OnReceive, BindRecv, TakeDisconnect, TakeSent, TakeFailed, Close, SendCompleted,
         SendNext, Fail, Finish, ReceiveUnheard, vars, queueVars
    <3> QED
      BY <3>1 DEF Abstract!vars
  <2> QED
    BY <2>1, <2>2, <2>3 DEF Next, Abstract!Next
<1> QED
  BY <1>1, <1>2, Invariance, PTL DEF Spec, InOrder, Abstract!Spec

(* A stalled queue never recovers: neither Close nor a later connection      *)
(* removes the dead send from its front.                                    *)
THEOREM StalledForever == Spec => StaysStalled
<1>1. SendQueueInv /\ [Next]_vars => (Stalled => Stalled')
  <2> SUFFICES ASSUME SendQueueInv, [Next]_vars, Stalled
               PROVE  Stalled'
    OBVIOUS
  <2> USE DEF SendQueueInv, QueueInv
  <2>1. /\ Head(mSendDataqueue) \in Messages
        /\ io[Head(mSendDataqueue)] \in {"refused", "lost", "unreported"}
        /\ mSendDataqueue # << >>
    BY HeadTailProperties DEF Stalled, TypeOK
  <2>2. /\ \A m \in Messages : io[m] \in {"none", "refused", "lost", "unreported"}
        /\ \A w \in Workers : worker[w] \notin {"complete", "popped"}
        /\ processThread = "pushed" => ~ NothingUnderWay
    BY <2>1 DEF OneSendAtATime, FreesWhatCompleted, OnePermission, NothingUnderWay
  <2>3. CASE SendMsg
    <3>1. Head(mPacketDataQueue) \in Messages
      BY <2>3, HeadTailProperties DEF SendMsg, TypeOK
    <3>2. mSendDataqueue \in Seq(Messages)
      BY DEF TypeOK
    <3> DEFINE q == Append(mSendDataqueue, Head(mPacketDataQueue))
    <3>3. q # << >> /\ Head(q) = Head(mSendDataqueue)
      BY <2>1, <3>1, <3>2
    <3> QED
      BY <2>1, <2>3, <3>3 DEF SendMsg, Stalled
  <2>4. CASE \/ GetEmptyClientInfo \/ OnConnect \/ BindIOCompletionPort \/ BindFirstRecv
             \/ \E c \in Conns : ReceiveUnheard(c)
             \/ UNCHANGED vars
    BY <2>1, <2>4 DEF GetEmptyClientInfo, OnConnect, BindIOCompletionPort, BindFirstRecv,
       ReceiveUnheard, vars, queueVars, Stalled
  <2>5. ASSUME NEW w \in Workers, WorkerStep(w)
        PROVE  Stalled'
    <3>1. /\ ~ TakeSent(w) /\ ~ TakeFailed(w) /\ ~ SendCompleted(w) /\ ~ SendNext(w)
      BY <2>2 DEF TakeSent, TakeFailed, SendCompleted, SendNext
    <3> QED
      BY <2>1, <2>5, <3>1 DEF WorkerStep, OnReceive, BindRecv, TakeDisconnect, Close,
         queueVars, Stalled
  <2>6. CASE SendFirst
    BY <2>1, <2>2, <2>6 DEF SendFirst, Stalled
  <2>7. \A m \in Messages : ~ Transmit(m) /\ ~ Fail(m)
    BY <2>2 DEF Transmit, Fail, Finish
  <2> QED
    BY <2>3, <2>4, <2>5, <2>6, <2>7 DEF Next
<1> QED
  BY <1>1, Invariance, PTL DEF Spec, StaysStalled
==============================================================================
