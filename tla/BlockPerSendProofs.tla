-------------------------- MODULE BlockPerSendProofs --------------------------
(* Proofs about BlockPerSend, for any messages, workers and number of        *)
(* connections.                                                             *)
EXTENDS BlockPerSend, SequenceTheorems, TLAPS

(* Pushing a new element keeps a queue free of repetitions.                  *)
LEMMA PushNew ==
  ASSUME NEW S, NEW q \in Seq(S), NEW e \in S
  PROVE  /\ Append(q, e) \in Seq(S)
         /\ Range(Append(q, e)) = Range(q) \cup {e}
         /\ IsInjective(q) /\ e \notin Range(q) => IsInjective(Append(q, e))
<1> DEFINE r == Append(q, e)
<1>1. /\ Len(q) \in Nat /\ DOMAIN q = 1 .. Len(q)
      /\ r \in Seq(S) /\ Len(r) = Len(q) + 1 /\ DOMAIN r = 1 .. Len(q) + 1
      /\ \A i \in 1 .. Len(q) : r[i] = q[i]
      /\ r[Len(q) + 1] = e
  BY LenProperties
<1> HIDE DEF r
<1>2. Range(r) = Range(q) \cup {e}
  BY <1>1 DEF Range
<1>3. ASSUME IsInjective(q), e \notin Range(q) PROVE IsInjective(r)
  BY <1>1, <1>3 DEF Range, IsInjective
<1> QED
  BY <1>1, <1>2, <1>3 DEF r

(* Popping the front takes that element out, and it alone if none repeats.   *)
LEMMA PopFront ==
  ASSUME NEW S, NEW q \in Seq(S), q # << >>, IsInjective(q)
  PROVE  /\ Head(q) \in S
         /\ Head(q) \in Range(q)
         /\ Tail(q) \in Seq(S)
         /\ Range(Tail(q)) = Range(q) \ {Head(q)}
         /\ IsInjective(Tail(q))
<1> DEFINE r == Tail(q)
<1>1. /\ Len(q) \in Nat /\ Len(q) >= 1 /\ DOMAIN q = 1 .. Len(q)
      /\ Head(q) \in S /\ Head(q) = q[1]
      /\ r \in Seq(S) /\ Len(r) = Len(q) - 1 /\ DOMAIN r = 1 .. Len(q) - 1
      /\ \A i \in 1 .. Len(q) - 1 : r[i] = q[i + 1]
  BY LenProperties, EmptySeq, HeadTailProperties
<1> HIDE DEF r
<1>2. \A i, j \in 1 .. Len(q) : q[i] = q[j] => i = j
  BY <1>1 DEF IsInjective
<1>3. IsInjective(r)
  BY <1>1, <1>2 DEF IsInjective
<1>4. ASSUME NEW x PROVE x \in Range(r) <=> x \in Range(q) \ {Head(q)}
  <2>1. ASSUME NEW i \in 1 .. Len(q) - 1, x = r[i]
        PROVE  x \in Range(q) \ {Head(q)}
    BY <1>1, <1>2, <2>1 DEF Range
  <2>2. ASSUME NEW i \in 1 .. Len(q), x = q[i], x # Head(q)
        PROVE  x \in Range(r)
    <3>1. i - 1 \in 1 .. Len(q) - 1 /\ r[i - 1] = x
      BY <1>1, <2>2
    <3> QED
      BY <1>1, <3>1 DEF Range
  <2> QED
    BY <1>1, <2>1, <2>2 DEF Range
<1>5. Head(q) \in Range(q)
  BY <1>1 DEF Range
<1> QED
  BY <1>1, <1>3, <1>4, <1>5 DEF r

------------------------------------------------------------------------------
LEMMA InitPlaces == Init => PlacesInv
<1> SUFFICES ASSUME Init PROVE PlacesInv
  OBVIOUS
<1>1. TypeOK
  BY ConnAssumption DEF Init, TypeOK, Conns
<1>2. Range(<< >>) = {} /\ IsInjective(<< >>)
  BY DEF Range, IsInjective
<1> QED
  BY <1>1, <1>2 DEF Init, PlacesInv, PlaceInv, NoUseAfterFree, DeletedOrLeaked

(* A receive: the message is in the queue and nowhere else.                  *)
LEMMA ReceiveInv ==
  ASSUME PlacesInv, NEW w \in Workers, NEW m \in Messages, OnReceive(w, m)
  PROVE  PlacesInv'
<1> USE DEF PlacesInv
<1>1. /\ received' = Append(received, m) /\ m \notin Range(received)
      /\ mPacketDataQueue' = Append(mPacketDataQueue, m)
      /\ UNCHANGED <<slotVars, io, kernelVars, freed>>
  BY DEF OnReceive
<1>2. received \in Seq(Messages) /\ mPacketDataQueue \in Seq(Messages)
  BY DEF TypeOK
<1>3. m \notin Range(mPacketDataQueue) /\ m \notin Range(freed) /\ io[m] = "none"
  BY <1>1 DEF PlaceInv
<1>4. /\ received' \in Seq(Messages) /\ Range(received') = Range(received) \cup {m}
      /\ mPacketDataQueue' \in Seq(Messages)
      /\ Range(mPacketDataQueue') = Range(mPacketDataQueue) \cup {m}
      /\ IsInjective(mPacketDataQueue')
  BY <1>1, <1>2, <1>3, PushNew DEF PlaceInv
<1>5. TypeOK'
  BY <1>1, <1>4 DEF TypeOK, OnReceive, TakeReceive, slotVars, kernelVars
<1>6. PlaceInv'
  BY <1>1, <1>3, <1>4 DEF PlaceInv, kernelVars
<1>7. NoUseAfterFree' /\ DeletedOrLeaked'
  BY <1>1, <1>3, <1>4 DEF NoUseAfterFree, DeletedOrLeaked
<1> QED
  BY <1>5, <1>6, <1>7

(* A send that is taken: the block goes from the port to the deleted ones.   *)
LEMMA SentInv ==
  ASSUME PlacesInv, NEW w \in Workers, TakeSent(w)
  PROVE  PlacesInv'
<1> USE DEF PlacesInv
<1>1. PICK m \in Messages : /\ io[m] = "done"
                            /\ io' = [io EXCEPT ![m] = "none"]
                            /\ freed' = Append(freed, m)
  BY DEF TakeSent, Free
<1>2. UNCHANGED <<slotVars, recvIO, worker, mPacketDataQueue, kernelVars, received>>
  BY DEF TakeSent
<1>3. /\ m \notin Range(freed)
      /\ m \in Range(received) \ Range(mPacketDataQueue)
      /\ \A c \in Conns : m \notin Range(sends[c])
  BY <1>1 DEF NoUseAfterFree, PlaceInv
<1>4. /\ freed' \in Seq(Messages)
      /\ Range(freed') = Range(freed) \cup {m}
      /\ IsInjective(freed')
  BY <1>1, <1>3, PushNew DEF TypeOK, NoUseAfterFree
<1>5. io \in [Messages -> {"none", "kernel", "done", "failed", "lost", "unreported", "refused"}]
  BY DEF TypeOK
<1>6. TypeOK'
  BY <1>1, <1>2, <1>4 DEF TypeOK, slotVars, kernelVars
<1>7. PlaceInv'
  <2>1. /\ io'[m] = "none" /\ \A n \in Messages \ {m} : io'[n] = io[n]
        /\ UNCHANGED <<mPacketDataQueue, received, sends>>
    BY <1>1, <1>2, <1>5 DEF kernelVars
  <2>2. /\ Range(mPacketDataQueue) \cup Range(freed') \subseteq Range(received)
        /\ Range(mPacketDataQueue) \cap Range(freed') = {}
    BY <1>3, <1>4 DEF PlaceInv
  <2>3. \A n \in Messages : io'[n] # "none" => n \in Range(received) \ Range(mPacketDataQueue)
    BY <2>1 DEF PlaceInv
  <2>4. \A c \in Conns : \A n \in Range(sends[c]) : io'[n] = "kernel"
    <3> SUFFICES ASSUME NEW c \in Conns, NEW n \in Range(sends[c]) PROVE io'[n] = "kernel"
      OBVIOUS
    <3>1. n \in Messages
      BY DEF TypeOK, Range
    <3> QED
      BY <1>3, <2>1, <3>1 DEF PlaceInv
  <2> QED
    BY <2>1, <2>2, <2>3, <2>4 DEF PlaceInv
<1>8. NoUseAfterFree' /\ DeletedOrLeaked'
  BY <1>1, <1>2, <1>3, <1>4, <1>5 DEF NoUseAfterFree, DeletedOrLeaked
<1> QED
  BY <1>6, <1>7, <1>8

(* A packet leaves the queue: its block is the kernel's, or nobody's.        *)
LEMMA SendMsgInv ==
  ASSUME PlacesInv, SendMsg
  PROVE  PlacesInv'
<1> USE DEF PlacesInv
<1> DEFINE m == Head(mPacketDataQueue)
<1>1. /\ m \in Messages /\ m \in Range(mPacketDataQueue)
      /\ mPacketDataQueue' \in Seq(Messages)
      /\ Range(mPacketDataQueue') = Range(mPacketDataQueue) \ {m}
      /\ IsInjective(mPacketDataQueue')
  BY PopFront DEF SendMsg, TypeOK, PlaceInv
<1>2. /\ io[m] = "none" /\ m \in Range(received) /\ m \notin Range(freed)
      /\ \A c \in Conns : m \notin Range(sends[c])
  BY <1>1 DEF PlaceInv
<1>3. UNCHANGED <<slotVars, recvIO, worker, broken, wire, freed, received>>
  BY DEF SendMsg
<1>4. io \in [Messages -> {"none", "kernel", "done", "failed", "lost", "unreported", "refused"}]
  BY DEF TypeOK
<1>5. CASE mSock # 0 /\ io' = [io EXCEPT ![m] = "kernel"]
              /\ sends' = [sends EXCEPT ![mSock] = Append(@, m)]
  <2>1. mSock \in Conns /\ sends \in [Conns -> Seq(Messages)]
    BY <1>5, ConnAssumption DEF TypeOK, Conns
  <2>2. /\ sends'[mSock] \in Seq(Messages)
        /\ Range(sends'[mSock]) = Range(sends[mSock]) \cup {m}
        /\ IsInjective(sends'[mSock])
        /\ \A c \in Conns \ {mSock} : sends'[c] = sends[c]
        /\ sends' \in [Conns -> Seq(Messages)]
    BY <1>1, <1>2, <1>5, <2>1, PushNew DEF PlaceInv
  <2>3. TypeOK'
    BY <1>1, <1>3, <1>5, <2>2 DEF TypeOK, slotVars
  <2>4. PlaceInv'
    BY <1>1, <1>2, <1>3, <1>4, <1>5, <2>1, <2>2 DEF PlaceInv
  <2>5. NoUseAfterFree' /\ DeletedOrLeaked'
    BY <1>1, <1>2, <1>3, <1>4, <1>5 DEF NoUseAfterFree, DeletedOrLeaked
  <2> QED
    BY <2>3, <2>4, <2>5
<1>6. CASE io' = [io EXCEPT ![m] = "refused"] /\ UNCHANGED sends
  <2>1. TypeOK'
    BY <1>1, <1>3, <1>6 DEF TypeOK, slotVars
  <2>2. PlaceInv'
    <3>1. /\ io'[m] = "refused" /\ \A n \in Messages \ {m} : io'[n] = io[n]
          /\ UNCHANGED <<freed, received, sends>>
      BY <1>1, <1>3, <1>4, <1>6
    <3>2. /\ Range(mPacketDataQueue') \cup Range(freed) \subseteq Range(received)
          /\ Range(mPacketDataQueue') \cap Range(freed) = {}
      BY <1>1 DEF PlaceInv
    <3>3. \A n \in Messages : io'[n] # "none" => n \in Range(received) \ Range(mPacketDataQueue')
      BY <1>1, <1>2, <3>1 DEF PlaceInv
    <3>4. \A c \in Conns : \A n \in Range(sends[c]) : io'[n] = "kernel"
      <4> SUFFICES ASSUME NEW c \in Conns, NEW n \in Range(sends[c]) PROVE io'[n] = "kernel"
        OBVIOUS
      <4>1. n \in Messages
        BY DEF TypeOK, Range
      <4> QED
        BY <1>2, <3>1, <4>1 DEF PlaceInv
    <3> QED
      BY <1>1, <3>1, <3>2, <3>3, <3>4 DEF PlaceInv
  <2>3. NoUseAfterFree' /\ DeletedOrLeaked'
    BY <1>1, <1>2, <1>3, <1>4, <1>6 DEF NoUseAfterFree, DeletedOrLeaked
  <2> QED
    BY <2>1, <2>2, <2>3
<1> QED
  BY <1>5, <1>6 DEF SendMsg, WSASend

(* A send completes: its block goes from the kernel to the port.             *)
LEMMA CompleteInv ==
  ASSUME PlacesInv, NEW c \in Conns, NEW heard \in {"done", "failed"},
         NEW unheard \in {"lost", "unreported"}, Complete(c, heard, unheard),
         UNCHANGED <<slotVars, recvIO, worker, mPacketDataQueue, freed, received>>,
         broken' \subseteq Conns, wire' \in [Conns -> Seq(Messages)]
  PROVE  PlacesInv'
<1> USE DEF PlacesInv
<1> DEFINE m == Head(sends[c])
           how == IF c \in bound THEN heard ELSE unheard
<1>1. /\ sends[c] # << >>
      /\ io' = [io EXCEPT ![m] = how]
      /\ sends' = [sends EXCEPT ![c] = Tail(@)]
  BY DEF Complete
<1>2. sends \in [Conns -> Seq(Messages)]
      /\ io \in [Messages -> {"none", "kernel", "done", "failed", "lost", "unreported", "refused"}]
  BY DEF TypeOK
<1>3. /\ m \in Messages /\ m \in Range(sends[c])
      /\ sends'[c] \in Seq(Messages)
      /\ Range(sends'[c]) = Range(sends[c]) \ {m}
      /\ IsInjective(sends'[c])
      /\ \A d \in Conns \ {c} : sends'[d] = sends[d]
      /\ sends' \in [Conns -> Seq(Messages)]
  BY <1>1, <1>2, PopFront DEF PlaceInv
<1>4. /\ io[m] = "kernel"
      /\ \A d \in Conns \ {c} : m \notin Range(sends[d])
  BY <1>3 DEF PlaceInv
<1>5. TypeOK'
  BY <1>1, <1>3 DEF TypeOK, slotVars
<1>6. PlaceInv'
  BY <1>1, <1>2, <1>3, <1>4 DEF PlaceInv
<1>7. NoUseAfterFree' /\ DeletedOrLeaked'
  BY <1>1, <1>2, <1>3, <1>4 DEF NoUseAfterFree, DeletedOrLeaked
<1> QED
  BY <1>5, <1>6, <1>7

LEMMA StepPlaces == PlacesInv /\ [Next]_vars => PlacesInv'
<1> SUFFICES ASSUME PlacesInv, [Next]_vars PROVE PlacesInv'
  OBVIOUS
<1> USE DEF PlacesInv
<1>blocks. ASSUME UNCHANGED <<mPacketDataQueue, io, sends, freed, received>>, TypeOK'
           PROVE  PlacesInv'
  BY <1>blocks DEF PlaceInv, NoUseAfterFree, DeletedOrLeaked
<1>1. CASE GetEmptyClientInfo
  BY <1>1, <1>blocks DEF GetEmptyClientInfo, TypeOK, kernelVars
<1>2. CASE onConnect
  <2>1. conns + 1 \in 0 .. MaxConn
    BY <1>2, ConnAssumption DEF onConnect, TypeOK
  <2> QED
    BY <1>2, <1>blocks, <2>1 DEF onConnect, TypeOK, kernelVars
<1>bind. CASE BindIOCompletionPort
  <2>1. bound' \subseteq Conns
    <3>1. mSock # 0 => mSock \in Conns
      BY ConnAssumption DEF TypeOK, Conns
    <3>2. bound \subseteq Conns
      BY DEF TypeOK
    <3> QED
      BY <1>bind, <3>1, <3>2 DEF BindIOCompletionPort
  <2>2. TypeOK'
    BY <1>bind, <2>1 DEF BindIOCompletionPort, TypeOK, kernelVars
  <2> QED
    BY <1>bind, <1>blocks, <2>2 DEF BindIOCompletionPort, kernelVars
<1>3. CASE BindFirstRecv
  <2>1. CASE mSock # 0 /\ recvIO' = [recvIO EXCEPT ![mSock] = @ + 1] /\ UNCHANGED mSock
    <3>1. mSock \in Conns /\ recvIO[mSock] + 1 \in Nat
      BY <2>1, ConnAssumption DEF TypeOK, Conns
    <3>2. TypeOK'
      BY <1>3, <2>1, <3>1 DEF BindFirstRecv, TypeOK, kernelVars
    <3> QED
      BY <1>3, <3>2, <1>blocks DEF BindFirstRecv, kernelVars
  <2>2. CASE mSock' = 0 /\ UNCHANGED recvIO
    <3>1. TypeOK'
      BY <1>3, <2>2, ConnAssumption DEF BindFirstRecv, TypeOK, kernelVars
    <3> QED
      BY <1>3, <3>1, <1>blocks DEF BindFirstRecv, kernelVars
  <2> QED
    BY <1>3, <2>1, <2>2 DEF BindFirstRecv
<1>4. ASSUME NEW w \in Workers, WorkerStep(w) PROVE PlacesInv'
  <2>1. CASE \E m \in Messages : OnReceive(w, m)
    BY <2>1, ReceiveInv
  <2>2. CASE BindRecv(w)
    <3>1. recvIO' \in [Conns -> Nat]
      <4>1. mSock # 0 => mSock \in Conns
        BY ConnAssumption DEF TypeOK, Conns
      <4>2. recvIO \in [Conns -> Nat]
        BY DEF TypeOK
      <4>3. recvIO' = recvIO \/ (mSock # 0 /\ recvIO' = [recvIO EXCEPT ![mSock] = @ + 1])
        BY <2>2 DEF BindRecv
      <4> QED
        BY <4>1, <4>2, <4>3
    <3>2. TypeOK'
      BY <2>2, <3>1 DEF BindRecv, TypeOK, kernelVars, slotVars
    <3> QED
      BY <2>2, <3>2, <1>blocks DEF BindRecv, kernelVars
  <2>3. CASE TakeSent(w)
    BY <2>3, SentInv
  <2>4. CASE TakeFailed(w)
    <3>1. TypeOK'
      <4>1. recvIO' \in [Conns -> Nat]
        <5>1. CASE TakeReceive
          BY <5>1 DEF TakeReceive, TypeOK
        <5> QED
          BY <2>4, <5>1 DEF TakeFailed, TypeOK
      <4>2. io' \in [Messages -> {"none", "kernel", "done", "failed", "lost", "unreported", "refused"}]
        BY <2>4 DEF TakeFailed, TypeOK
      <4> QED
        BY <2>4, <4>1, <4>2 DEF TakeFailed, TypeOK, kernelVars, slotVars
    <3>2. CASE UNCHANGED io
      BY <2>4, <3>1, <3>2, <1>blocks DEF TakeFailed, kernelVars, slotVars
    <3>3. CASE \E m \in Messages : io[m] = "failed" /\ io' = [io EXCEPT ![m] = "lost"]
      <4>1. PICK m \in Messages : io[m] = "failed" /\ io' = [io EXCEPT ![m] = "lost"]
        BY <3>3
      <4>2. io \in [Messages -> {"none", "kernel", "done", "failed", "lost", "unreported", "refused"}]
        BY DEF TypeOK
      <4>3. UNCHANGED <<mPacketDataQueue, sends, freed, received>>
        BY <2>4 DEF TakeFailed, kernelVars
      <4>4. PlaceInv'
        BY <4>1, <4>2, <4>3 DEF PlaceInv
      <4>5. NoUseAfterFree' /\ DeletedOrLeaked'
        BY <4>1, <4>2, <4>3 DEF NoUseAfterFree, DeletedOrLeaked
      <4> QED
        BY <3>1, <4>4, <4>5
    <3> QED
      BY <2>4, <3>2, <3>3 DEF TakeFailed
  <2>5. CASE CloseSocket(w)
    BY <2>5, <1>blocks, ConnAssumption DEF CloseSocket, TypeOK, kernelVars, slotVars
  <2> QED
    BY <1>4, <2>1, <2>2, <2>3, <2>4, <2>5 DEF WorkerStep
<1>5. CASE SendMsg
  BY <1>5, SendMsgInv
<1>6. ASSUME NEW c \in Conns, Transmit(c) PROVE PlacesInv'
  <2>1. sends[c] # << >> /\ sends[c] \in Seq(Messages) /\ wire \in [Conns -> Seq(Messages)]
    BY <1>6 DEF Transmit, Complete, TypeOK
  <2>2. Append(wire[c], Head(sends[c])) \in Seq(Messages)
    BY <2>1, HeadTailProperties, PushNew
  <2>3. wire' \in [Conns -> Seq(Messages)] /\ broken' \subseteq Conns
    BY <1>6, <2>1, <2>2 DEF Transmit, TypeOK
  <2> QED
    BY <1>6, <2>3, CompleteInv DEF Transmit
<1>7. ASSUME NEW c \in Conns, FailSend(c) PROVE PlacesInv'
  <2>1. wire' \in [Conns -> Seq(Messages)] /\ broken' \subseteq Conns
    BY <1>7 DEF FailSend, TypeOK
  <2> QED
    BY <1>7, <2>1, CompleteInv DEF FailSend
<1>unheard. ASSUME NEW c \in Conns, ReceiveUnheard(c) PROVE PlacesInv'
  <2>1. recvIO' \in [Conns -> Nat]
    BY <1>unheard DEF ReceiveUnheard, TypeOK
  <2>2. TypeOK'
    BY <1>unheard, <2>1 DEF ReceiveUnheard, TypeOK, kernelVars, slotVars
  <2> QED
    BY <1>unheard, <1>blocks, <2>2 DEF ReceiveUnheard, kernelVars
<1>8. CASE UNCHANGED vars
  BY <1>8, <1>blocks DEF vars, TypeOK, kernelVars, slotVars
<1> QED
  BY <1>1, <1>2, <1>bind, <1>3, <1>4, <1>5, <1>6, <1>7, <1>unheard, <1>8 DEF Next

(* Who changes what the blocks of a first connection depend on.              *)
LEMMA BoundStep ==
  ASSUME BlockInv, PlacesInv', [Next]_vars
  PROVE  BoundInv' /\ FirstHeard'
<1>1. /\ conns \in Nat /\ mSock \in Nat /\ bound \subseteq Conns /\ 0 \notin Conns
      /\ sends \in [Conns -> Seq(Messages)] /\ Conns \subseteq Nat
      /\ io \in [Messages -> {"none", "kernel", "done", "failed", "lost", "unreported", "refused"}]
      /\ BoundInv /\ FirstHeard
  BY ConnAssumption DEF BlockInv, PlacesInv, TypeOK, Conns
<1> DEFINE SameConns == conns' = conns /\ mSock' \in {0, mSock} /\ bound' = bound
           Heard == \A m \in Messages : io'[m] = "unreported" => io[m] = "unreported"
           SameSends == \A c \in Conns : sends'[c] # << >> => sends[c] # << >> \/ c = mSock
<1>2. SameConns /\ Heard /\ SameSends /\ (received' = received \/ 1 \in bound \/ conns > 1)
         => BoundInv' /\ FirstHeard'
  <2> SUFFICES ASSUME SameConns, Heard, SameSends,
                      received' = received \/ 1 \in bound \/ conns > 1
               PROVE  BoundInv' /\ FirstHeard'
    OBVIOUS
  <2>1. bound' \subseteq 1 .. conns' /\ mSock' <= conns'
    BY <1>1 DEF BoundInv
  <2>2. \A c \in Conns : sends'[c] # << >> => c <= conns'
    BY <1>1 DEF BoundInv
  <2>3. conns' <= 1 /\ 1 \notin bound' => received' = << >>
    BY <1>1 DEF BoundInv
  <2>4. FirstHeard'
    BY <1>1 DEF FirstHeard
  <2> QED
    BY <2>1, <2>2, <2>3, <2>4 DEF BoundInv
<1>3. CASE GetEmptyClientInfo \/ BindFirstRecv \/ UNCHANGED vars \/ \E c \in Conns : ReceiveUnheard(c)
  BY <1>2, <1>3 DEF GetEmptyClientInfo, BindFirstRecv, ReceiveUnheard, vars, slotVars, kernelVars
<1>4. CASE onConnect
  <2>1. conns' = conns + 1 /\ mSock' = conns + 1 /\ UNCHANGED <<bound, io, sends, received>>
    BY <1>4 DEF onConnect, kernelVars
  <2>2. conns' <= 1 => conns = 0 /\ 1 \notin bound
    BY <1>1, <2>1 DEF BoundInv
  <2>3. bound \subseteq 1 .. conns + 1
    BY <1>1 DEF BoundInv
  <2> QED
    BY <1>1, <2>1, <2>2, <2>3 DEF BoundInv, FirstHeard
<1>5. CASE BindIOCompletionPort
  <2>1. /\ UNCHANGED <<conns, mSock, io, sends, received>>
        /\ bound \subseteq bound' /\ bound' \subseteq bound \cup {mSock}
        /\ bound' = bound \/ mSock # 0
    BY <1>5 DEF BindIOCompletionPort, kernelVars
  <2> QED
    BY <1>1, <2>1 DEF BoundInv, FirstHeard
<1>6. ASSUME NEW w \in Workers, WorkerStep(w) PROVE BoundInv' /\ FirstHeard'
  <2>1. ASSUME NEW m \in Messages, OnReceive(w, m) PROVE BoundInv' /\ FirstHeard'
    <3>1. PICK c \in bound : recvIO[c] > 0
      BY <2>1 DEF OnReceive, TakeReceive
    <3>2. 1 \in bound \/ conns > 1
      BY <1>1, <3>1 DEF BoundInv
    <3> QED
      BY <1>2, <2>1, <3>2 DEF OnReceive, slotVars, kernelVars
  <2>2. CASE BindRecv(w) \/ CloseSocket(w)
    BY <1>2, <2>2 DEF BindRecv, CloseSocket, slotVars, kernelVars
  <2>3. CASE TakeSent(w) \/ TakeFailed(w)
    <3>1. Heard
      BY <1>1, <2>3 DEF TakeSent, TakeFailed
    <3> QED
      BY <1>2, <2>3, <3>1 DEF TakeSent, TakeFailed, slotVars, kernelVars
  <2> QED
    BY <1>6, <2>1, <2>2, <2>3 DEF WorkerStep
<1>7. CASE SendMsg
  <2>1. Heard /\ SameSends
    BY <1>1, <1>7 DEF SendMsg, WSASend
  <2> QED
    BY <1>2, <1>7, <2>1 DEF SendMsg, slotVars
<1>8. ASSUME NEW c \in Conns, Transmit(c) \/ FailSend(c) PROVE BoundInv' /\ FirstHeard'
  <2>1. /\ UNCHANGED <<slotVars, received>>
        /\ sends[c] # << >> /\ sends' = [sends EXCEPT ![c] = Tail(@)]
    BY <1>8 DEF Transmit, FailSend, Complete
  <2>2. SameSends
    BY <1>1, <2>1
  <2>3. ASSUME conns <= 1 PROVE c \in bound
    <3>1. c = 1
      BY <1>1, <2>1, <2>3 DEF BoundInv, Conns
    <3>2. Head(sends[c]) \in Range(sends[c]) /\ Head(sends[c]) \in Messages
      BY <1>1, <2>1, PopFront DEF BlockInv, PlacesInv, PlaceInv
    <3>3. Head(sends[c]) \in Range(received)
      BY <3>2 DEF BlockInv, PlacesInv, PlaceInv
    <3>4. received # << >>
      BY <3>3 DEF Range
    <3> QED
      BY <1>1, <2>3, <3>1, <3>4 DEF BoundInv
  <2>4. conns <= 1 => Heard
    BY <1>1, <1>8, <2>3 DEF Transmit, FailSend, Complete
  <2> QED
    BY <1>1, <2>1, <2>2, <2>4 DEF BoundInv, FirstHeard, slotVars
<1> QED
  BY <1>3, <1>4, <1>5, <1>6, <1>7, <1>8 DEF Next

LEMMA InitInv == Init => BlockInv
<1>1. Init => BoundInv /\ FirstHeard
  BY ConnAssumption DEF Init, BoundInv, FirstHeard
<1> QED
  BY <1>1, InitPlaces DEF BlockInv

LEMMA StepInv == BlockInv /\ [Next]_vars => BlockInv'
BY StepPlaces, BoundStep DEF BlockInv

(* The inductive invariant of the blocks of stage 4 (types, where a block    *)
(* may be, what has become of it) holds in every reachable state.           *)
THEOREM BlockInvariant == Spec => []BlockInv
BY InitInv, StepInv, PTL DEF Spec

(* Every variable keeps its type.                                            *)
THEOREM TypeCorrect == Spec => []TypeOK
<1>1. BlockInv => TypeOK
  BY DEF BlockInv, PlacesInv
<1> QED
  BY <1>1, BlockInvariant, PTL

(* The worker that takes a completion deletes a block nobody has any more,   *)
(* and nobody deletes it twice, with any number of sends under way.         *)
THEOREM NoUseAfterFreeTheorem == Spec => []NoUseAfterFree
<1>1. BlockInv => NoUseAfterFree
  BY DEF BlockInv, PlacesInv
<1> QED
  BY <1>1, BlockInvariant, PTL

(* The blocks that are never deleted are those of sends that were refused,   *)
(* failed, or completed on a socket not bound to the port yet, and the last *)
(* kind only after a reconnection.                                          *)
THEOREM LeaksTheorem == Spec => []LeaksExplained
<1>1. BlockInv => LeaksExplained
  BY DEF BlockInv, PlacesInv, LeaksExplained
<1> QED
  BY <1>1, BlockInvariant, PTL

------------------------------------------------------------------------------
(* The order of receipt.                                                     *)
LEMMA Grows ==
  ASSUME NEW S, NEW r \in Seq(S), NEW e \in S
  PROVE  /\ \A m, n : Before(r, m, n) => Before(Append(r, e), m, n)
         /\ \A m \in Range(r) : Before(Append(r, e), m, e)
<1> DEFINE t == Append(r, e)
<1>1. /\ Len(r) \in Nat /\ DOMAIN r = 1 .. Len(r) /\ DOMAIN t = 1 .. Len(r) + 1
      /\ \A i \in 1 .. Len(r) : t[i] = r[i]
      /\ t[Len(r) + 1] = e
  BY LenProperties
<1> HIDE DEF t
<1>2. ASSUME NEW m, NEW n, Before(r, m, n) PROVE Before(t, m, n)
  BY <1>1, <1>2 DEF Before
<1>3. ASSUME NEW m \in Range(r) PROVE Before(t, m, e)
  <2>1. PICK i \in 1 .. Len(r) : r[i] = m
    BY <1>1 DEF Range
  <2>2. i \in DOMAIN t /\ Len(r) + 1 \in DOMAIN t /\ i < Len(r) + 1
    BY <1>1
  <2> QED
    BY <1>1, <2>1, <2>2 DEF Before
<1> QED
  BY <1>2, <1>3 DEF t

LEMMA AscendingPush ==
  ASSUME NEW S, NEW q \in Seq(S), NEW e \in S, NEW r, Ascending(r, q),
         \A m \in Range(q) : Before(r, m, e)
  PROVE  Ascending(r, Append(q, e))
<1> DEFINE t == Append(q, e)
<1>1. /\ Len(q) \in Nat /\ DOMAIN q = 1 .. Len(q) /\ DOMAIN t = 1 .. Len(q) + 1
      /\ \A i \in 1 .. Len(q) : t[i] = q[i]
      /\ t[Len(q) + 1] = e
  BY LenProperties
<1> HIDE DEF t
<1>2. ASSUME NEW i \in DOMAIN t, NEW j \in DOMAIN t, i < j PROVE Before(r, t[i], t[j])
  <2>1. CASE j = Len(q) + 1
    BY <1>1, <1>2, <2>1 DEF Range
  <2>2. CASE j # Len(q) + 1
    BY <1>1, <1>2, <2>2 DEF Ascending
  <2> QED
    BY <2>1, <2>2
<1> QED
  BY <1>2 DEF t, Ascending

LEMMA AscendingPop ==
  ASSUME NEW S, NEW q \in Seq(S), q # << >>, NEW r, Ascending(r, q)
  PROVE  /\ Ascending(r, Tail(q))
         /\ Range(Tail(q)) \subseteq Range(q)
         /\ \A n \in Range(Tail(q)) : Before(r, Head(q), n)
<1> DEFINE t == Tail(q)
<1>1. /\ Len(q) \in Nat /\ Len(q) >= 1 /\ DOMAIN q = 1 .. Len(q) /\ Head(q) = q[1]
      /\ DOMAIN t = 1 .. Len(q) - 1
      /\ \A i \in 1 .. Len(q) - 1 : t[i] = q[i + 1]
  BY LenProperties, EmptySeq, HeadTailProperties
<1> HIDE DEF t
<1>2. ASSUME NEW i \in DOMAIN t, NEW j \in DOMAIN t, i < j PROVE Before(r, t[i], t[j])
  <2>1. i + 1 \in DOMAIN q /\ j + 1 \in DOMAIN q /\ i + 1 < j + 1
    BY <1>1, <1>2
  <2> QED
    BY <1>1, <2>1 DEF Ascending
<1>3. ASSUME NEW n \in Range(t) PROVE n \in Range(q) /\ Before(r, Head(q), n)
  <2>1. PICK i \in 1 .. Len(q) - 1 : n = q[i + 1]
    BY <1>1 DEF Range
  <2>2. 1 \in DOMAIN q /\ i + 1 \in DOMAIN q /\ 1 < i + 1
    BY <1>1
  <2> QED
    BY <1>1, <2>1, <2>2 DEF Ascending, Range
<1>4. Ascending(r, t)
  BY <1>2 DEF Ascending
<1> QED
  BY <1>3, <1>4 DEF t

LEMMA InitOrder == Init => OrderInv
<1>1. Range(<< >>) = {} /\ IsInjective(<< >>) /\ \A r : Ascending(r, << >>)
  BY DEF Range, IsInjective, Ascending
<1> QED
  BY <1>1 DEF Init, OrderInv

(* A step that only takes messages away from the sends keeps the order.      *)
LEMMA OrderStep ==
  ASSUME BlockInv, OrderInv, Next
  PROVE  OrderInv'
<1> USE DEF BlockInv, PlacesInv
<1>types. /\ mPacketDataQueue \in Seq(Messages) /\ received \in Seq(Messages)
          /\ sends \in [Conns -> Seq(Messages)] /\ wire \in [Conns -> Seq(Messages)]
  BY DEF TypeOK
<1>1. CASE UNCHANGED <<received, mPacketDataQueue, sends, wire>>
  BY <1>1 DEF OrderInv, LastSent
<1>2. ASSUME NEW w \in Workers, NEW m \in Messages, OnReceive(w, m) PROVE OrderInv'
  <2>1. /\ received' = Append(received, m) /\ m \notin Range(received)
        /\ mPacketDataQueue' = Append(mPacketDataQueue, m)
        /\ UNCHANGED <<sends, wire>>
    BY <1>2 DEF OnReceive, kernelVars
  <2>2. IsInjective(received') /\ Range(received') = Range(received) \cup {m}
    BY <1>types, <2>1, PushNew DEF OrderInv
  <2>3. /\ \A a, b : Before(received, a, b) => Before(received', a, b)
        /\ \A a \in Range(received) : Before(received', a, m)
    BY <1>types, <2>1, Grows
  <2>4. Ascending(received', mPacketDataQueue')
    <3>1. Ascending(received', mPacketDataQueue)
      BY <2>3 DEF OrderInv, Ascending
    <3>2. \A a \in Range(mPacketDataQueue) : Before(received', a, m)
      BY <2>3 DEF PlaceInv
    <3> QED
      BY <1>types, <2>1, <3>1, <3>2, AscendingPush
  <2>5. Range(mPacketDataQueue') = Range(mPacketDataQueue) \cup {m}
    BY <1>types, <2>1, PushNew
  <2>6. ASSUME NEW c \in Conns
        PROVE  /\ Ascending(received', sends[c])
               /\ \A a \in Range(sends[c]), n \in Range(mPacketDataQueue') : Before(received', a, n)
               /\ wire[c] # << >> =>
                     /\ LastSent(c) \in Range(received')
                     /\ \A n \in Range(sends[c]) \cup Range(mPacketDataQueue') :
                            Before(received', LastSent(c), n)
    <3>1. Ascending(received', sends[c])
      BY <2>3 DEF OrderInv, Ascending
    <3>2. \A a \in Range(sends[c]) : a \in Range(received)
      <4> SUFFICES ASSUME NEW a \in Range(sends[c]) PROVE a \in Range(received)
        OBVIOUS
      <4>1. a \in Messages
        BY <1>types DEF Range
      <4> QED
        BY <4>1 DEF PlaceInv
    <3> QED
      BY <2>2, <2>3, <2>5, <3>1, <3>2 DEF OrderInv
  <2> QED
    BY <2>1, <2>2, <2>4, <2>6 DEF OrderInv, LastSent
<1>3. CASE SendMsg
  <2> DEFINE m == Head(mPacketDataQueue)
  <2>1. /\ mPacketDataQueue # << >> /\ mPacketDataQueue' = Tail(mPacketDataQueue)
        /\ UNCHANGED <<received, wire>>
    BY <1>3 DEF SendMsg
  <2>2. /\ m \in Messages /\ m \in Range(mPacketDataQueue)
        /\ Ascending(received, mPacketDataQueue')
        /\ Range(mPacketDataQueue') \subseteq Range(mPacketDataQueue)
        /\ \A n \in Range(mPacketDataQueue') : Before(received, m, n)
    BY <1>types, <2>1, AscendingPop, PopFront DEF OrderInv, PlaceInv
  <2>3. CASE UNCHANGED sends
    BY <2>1, <2>2, <2>3 DEF OrderInv, LastSent
  <2>4. CASE mSock # 0 /\ sends' = [sends EXCEPT ![mSock] = Append(@, m)]
    <3>1. mSock \in Conns
      BY <2>4, ConnAssumption DEF TypeOK, Conns
    <3>2. /\ Ascending(received, sends'[mSock])
          /\ Range(sends'[mSock]) = Range(sends[mSock]) \cup {m}
          /\ \A c \in Conns \ {mSock} : sends'[c] = sends[c]
      BY <1>types, <2>2, <2>4, <3>1, AscendingPush, PushNew DEF OrderInv
    <3>3. ASSUME NEW c \in Conns
          PROVE  /\ Ascending(received, sends'[c])
                 /\ Range(sends'[c]) \subseteq Range(sends[c]) \cup {m}
      BY <3>2, <3>3 DEF OrderInv
    <3> QED
      BY <2>1, <2>2, <3>3 DEF OrderInv, LastSent
  <2> QED
    BY <1>3, <2>3, <2>4 DEF SendMsg, WSASend
<1>4. ASSUME NEW c \in Conns, NEW how, NEW unheard, Complete(c, how, unheard),
             UNCHANGED <<received, mPacketDataQueue>>
      PROVE  /\ sends[c] # << >>
             /\ Head(sends[c]) \in Range(sends[c]) /\ Head(sends[c]) \in Messages
             /\ \A d \in Conns : /\ Ascending(received, sends'[d])
                                 /\ Range(sends'[d]) \subseteq Range(sends[d])
             /\ \A n \in Range(sends'[c]) : Before(received, Head(sends[c]), n)
  <2>1. sends[c] # << >> /\ sends' = [sends EXCEPT ![c] = Tail(@)]
    BY <1>4 DEF Complete
  <2>2. /\ Head(sends[c]) \in Range(sends[c]) /\ Head(sends[c]) \in Messages
        /\ Ascending(received, Tail(sends[c]))
        /\ Range(Tail(sends[c])) \subseteq Range(sends[c])
        /\ \A n \in Range(Tail(sends[c])) : Before(received, Head(sends[c]), n)
    BY <1>types, <2>1, AscendingPop, PopFront DEF OrderInv, PlaceInv
  <2> QED
    BY <1>types, <2>1, <2>2 DEF OrderInv
<1>5. ASSUME NEW c \in Conns, FailSend(c) PROVE OrderInv'
  <2>1. Complete(c, "failed", "lost") /\ UNCHANGED <<received, mPacketDataQueue, wire>>
    BY <1>5 DEF FailSend
  <2> QED
    BY <1>4, <2>1 DEF OrderInv, LastSent
<1>6. ASSUME NEW c \in Conns, Transmit(c) PROVE OrderInv'
  <2> DEFINE m == Head(sends[c])
  <2>1. /\ Complete(c, "done", "unreported") /\ UNCHANGED <<received, mPacketDataQueue>>
        /\ wire' = [wire EXCEPT ![c] = Append(@, m)]
    BY <1>6 DEF Transmit
  <2>2. m \in Range(sends[c]) /\ m \in Messages /\ m \in Range(received)
    BY <1>4, <2>1 DEF PlaceInv
  <2>3. /\ wire'[c] # << >> /\ LastSent(c)' = m
        /\ \A d \in Conns \ {c} : wire'[d] = wire[d] /\ LastSent(d)' = LastSent(d)
    <3>1. wire[c] \in Seq(Messages) /\ wire'[c] = Append(wire[c], m)
      BY <1>types, <2>1
    <3>2. wire'[c] # << >> /\ wire'[c][Len(wire'[c])] = m
      BY <2>2, <3>1, LenProperties
    <3>3. \A d \in Conns \ {c} : wire'[d] = wire[d]
      BY <1>types, <2>1
    <3> QED
      BY <3>2, <3>3 DEF LastSent
  <2>4. \A n \in Range(sends'[c]) \cup Range(mPacketDataQueue) : Before(received, m, n)
    BY <1>4, <2>1, <2>2 DEF OrderInv
  <2>5. ASSUME NEW d \in Conns, wire'[d] # << >>
        PROVE  /\ LastSent(d)' \in Range(received)
               /\ \A n \in Range(sends'[d]) \cup Range(mPacketDataQueue) :
                      Before(received, LastSent(d)', n)
    <3>1. CASE d = c
      BY <2>2, <2>3, <2>4, <3>1
    <3>2. CASE d # c
      BY <1>4, <2>1, <2>3, <2>5, <3>2 DEF OrderInv
    <3> QED
      BY <3>1, <3>2
  <2> QED
    BY <1>4, <2>1, <2>5 DEF OrderInv
<1> QED
  BY <1>1, <1>2, <1>3, <1>5, <1>6
  DEF Next, WorkerStep, GetEmptyClientInfo, onConnect, BindIOCompletionPort, BindFirstRecv,
      BindRecv, TakeSent, TakeFailed, CloseSocket, ReceiveUnheard, kernelVars

(* The inductive invariant of the order of messages, on top of BlockInv.     *)
THEOREM OrderInvariant == Spec => []OrderInv
<1>1. BlockInv /\ OrderInv /\ [Next]_vars => OrderInv'
  <2>1. OrderInv /\ UNCHANGED vars => OrderInv'
    BY DEF vars, kernelVars, OrderInv, LastSent
  <2> QED
    BY <2>1, OrderStep
<1> QED
  BY InitOrder, <1>1, BlockInvariant, PTL DEF Spec

------------------------------------------------------------------------------
(* The message that comes first of a connection's sends lies after the last  *)
(* one delivered on it.                                                     *)
LEMMA DeliverNext ==
  ASSUME BlockInv, OrderInv, NEW c \in Conns, Transmit(c)
  PROVE  Pipe(c)!Deliver
<1> DEFINE m == Head(sends[c])
           l == LastSent(c)
<1>types. received \in Seq(Messages) /\ sends[c] \in Seq(Messages) /\ wire \in [Conns -> Seq(Messages)]
  BY DEF BlockInv, PlacesInv, TypeOK
<1>1. /\ sends[c] # << >> /\ wire'[c] = Append(wire[c], m) /\ UNCHANGED received
  BY <1>types DEF Transmit, Complete
<1>2. m \in Range(sends[c]) /\ m \in Messages
  BY <1>types, <1>1, PopFront DEF BlockInv, PlacesInv, PlaceInv
<1>3. m \in Range(received)
  BY <1>2 DEF BlockInv, PlacesInv, PlaceInv
<1>4. DOMAIN received = 1 .. Len(received) /\ Len(received) \in Nat
  BY <1>types, LenProperties
<1>5. \E i \in Pipe(c)!Reached + 1 .. Len(received) : received[i] = m
  <2>1. CASE wire[c] = << >>
    <3>1. Pipe(c)!Reached = 0
      BY <2>1 DEF Pipe!Reached
    <3> QED
      BY <1>3, <1>4, <3>1 DEF Range
  <2>2. CASE wire[c] # << >>
    <3>1. PICK i, j \in DOMAIN received : i < j /\ received[i] = l /\ received[j] = m
      BY <1>2, <2>2 DEF OrderInv, Before
    <3>2. \A k \in DOMAIN received : received[k] = l <=> k = i
      BY <3>1 DEF OrderInv, IsInjective
    <3>3. Pipe(c)!Reached = i
      BY <2>2, <3>1, <3>2 DEF Pipe!Reached, LastSent
    <3> QED
      BY <1>4, <3>1, <3>3
  <2> QED
    BY <2>1, <2>2
<1> QED
  BY <1>1, <1>5 DEF Pipe!Deliver

(* Stage 4 implements PipelinedSender on every connection: of what was       *)
(* received, in that order, some is sent, nothing twice.                    *)
THEOREM Refinement == Spec => InOrder
<1>1. Init => \A c \in Conns : Pipe(c)!Init
  BY DEF Init, Pipe!Init
<1>2. ASSUME BlockInv, OrderInv, [Next]_vars
      PROVE  [\A c \in Conns : [Pipe(c)!Next]_(Pipe(c)!vars)]_vars
  <2>1. CASE UNCHANGED <<received, wire>>
    BY <2>1 DEF Pipe!vars
  <2>2. ASSUME NEW w \in Workers, NEW m \in Messages, OnReceive(w, m), NEW c \in Conns
        PROVE  Pipe(c)!Next
    BY <2>2 DEF OnReceive, kernelVars, Pipe!Next, Pipe!Receive
  <2>3. ASSUME NEW d \in Conns, Transmit(d), NEW c \in Conns
        PROVE  [Pipe(c)!Next]_(Pipe(c)!vars)
    <3>1. CASE c = d
      BY <1>2, <2>3, <3>1, DeliverNext DEF Pipe!Next
    <3>2. CASE c # d
      <4>1. UNCHANGED received /\ wire'[c] = wire[c]
        BY <1>2, <2>3, <3>2 DEF Transmit, BlockInv, PlacesInv, TypeOK
      <4> QED
        BY <4>1 DEF Pipe!vars
    <3> QED
      BY <3>1, <3>2
  <2>4. CASE UNCHANGED vars
    BY <2>4
  <2> QED
    BY <1>2, <2>1, <2>2, <2>3, <2>4
    DEF Next, WorkerStep, GetEmptyClientInfo, onConnect, BindIOCompletionPort, BindFirstRecv,
        BindRecv, TakeSent, TakeFailed, CloseSocket, SendMsg, FailSend, ReceiveUnheard, kernelVars
<1> QED
  BY <1>1, <1>2, BlockInvariant, OrderInvariant, PTL DEF Spec, InOrder
==============================================================================
