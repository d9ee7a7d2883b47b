-------------------------- MODULE SessionPoolProofs --------------------------
(* Proofs about SessionPool, for any number of slots and workers, any wait    *)
(* and any bounds, for builds that read the closed time once.               *)
EXTENDS SessionPool, TLAPS

USE DEF socketVars

(* Records a worker is given are worker states. *)
LEMMA DoingType ==
    ASSUME NEW at \in WorkerStages, NEW s \in Slots, NEW k \in Socks
    PROVE  Doing(at, s, k) \in WorkerStates
  BY DEF Doing, WorkerStates

(* What the accepter knows survives any step that leaves the accepter and    *)
(* the slots that are closed and drained alone.                             *)
LEMMA AccepterFrame ==
    ASSUME LivesInv, accepter' = accepter, now' = now,
           \A t \in Slots : Closed(t) /\ ~ Busy(t)
               => mLatestClosedTimeSec'[t] = mLatestClosedTimeSec[t] /\ ~ Busy(t)'
    PROVE  AccepterInv'
<1>1. TypeOK /\ AccepterInv
  BY DEF LivesInv
<1>2. /\ now \in 0 .. MaxTime
      /\ mLatestClosedTimeSec \in [Slots -> 0 .. MaxTime \cup {UINT32_MAX}]
      /\ accepter.cur \in 0 .. MaxTime
      /\ accepter.seen \in 0 .. MaxTime
      /\ UINT32_MAX \in Nat /\ MaxTime \in Nat /\ UINT32_MAX > MaxTime
      /\ RE_USE_SESSION_WAIT_TIMESEc \in Nat
  BY <1>1, TimeAssumption DEF TypeOK, AccepterStates
<1>3. ASSUME NEW t \in Slots,
             \/ /\ accepter.at = "diff" /\ accepter.slot = t
                /\ accepter.cur - accepter.seen > RE_USE_SESSION_WAIT_TIMESEc
             \/ accepter.at = "post" /\ accepter.slot = t
      PROVE  /\ ~ Busy(t) /\ ~ Busy(t)'
             /\ mLatestClosedTimeSec'[t] = mLatestClosedTimeSec[t]
  BY <1>1, <1>2, <1>3 DEF AccepterInv, Closed
<1>4. QED
  BY <1>1, <1>3 DEF AccepterInv

(* A worker that moves on keeps its slot and its socket.                     *)
LEMMA GoesToEffect ==
    ASSUME TypeOK, NEW w \in Workers, NEW s \in Slots, NEW at \in WorkerStages,
           worker[w].slot = s, GoesTo(w, at)
    PROVE  worker' = [worker EXCEPT ![w] = Doing(at, s, worker[w].sock)]
<1>1. worker[w] \in WorkerStates /\ worker \in [Workers -> WorkerStates]
  BY DEF TypeOK
<1>2. [worker[w] EXCEPT !.at = at] = Doing(at, s, worker[w].sock)
  BY <1>1 DEF WorkerStates, Doing
<1>3. QED
  BY <1>1, <1>2 DEF GoesTo

(* The state of the workers after one of them was given a new one. *)
LEMMA WorkerType ==
    ASSUME TypeOK, NEW w \in Workers, NEW at \in WorkerStages,
           NEW s \in Slots \cup {NoSlot}, NEW k \in Socks,
           worker' = [worker EXCEPT ![w] = Doing(at, s, k)]
    PROVE  worker' \in [Workers -> WorkerStates]
<1>1. Doing(at, s, k) \in WorkerStates
  BY DEF Doing, WorkerStates
<1>2. QED
  BY <1>1 DEF TypeOK

(* Back in the sweep the accepter has no slot. *)
LEMMA NextSlotType ==
    ASSUME accepter \in AccepterStates
    PROVE  /\ NextSlot \in AccepterStates
           /\ NextSlot.at = "sweep"
           /\ NextSlot.slot = NoSlot
           /\ NextSlot.cur = accepter.cur
<1>1. 0 \in 0 .. MaxTime
  BY TimeAssumption
<1>2. QED
  BY <1>1 DEF NextSlot, AccepterStates

(* The clock: a slot that is closed and not drained holds it back.           *)
LEMMA TickInv ==
    ASSUME LivesInv, Tick
    PROVE  LivesInv'
<1>1. TypeOK /\ AccepterInv
  BY DEF LivesInv
<1>2. /\ UNCHANGED <<mIsConnect, mLatestClosedTimeSec, socketVars, acceptIO, recvIO, sendIO,
                     mSendDataqueue, mPacketDataQueue, processThread, worker, accepter, fault>>
      /\ now' = now + 1
      /\ now < MaxTime
      /\ \A t \in Slots : Closed(t) /\ Busy(t) => now < mLatestClosedTimeSec[t] + DrainSec
  BY DEF Tick, slotVars, ioVars, packetVars, Closed
<1>3. TypeOK'
  BY <1>1, <1>2, TimeAssumption DEF TypeOK
<1>4. OverlappedExclusive'
  BY <1>2 DEF LivesInv, OverlappedExclusive
<1>5. \A t \in Slots : Busy(t)' <=> Busy(t)
  BY <1>2 DEF Busy, Queued
<1>6. AccepterInv'
  <2>1. /\ now \in 0 .. MaxTime /\ MaxTime \in Nat
        /\ accepter.cur \in 0 .. MaxTime
        /\ RE_USE_SESSION_WAIT_TIMESEc \in Nat
        /\ mLatestClosedTimeSec \in [Slots -> 0 .. MaxTime \cup {UINT32_MAX}]
        /\ UINT32_MAX \in Nat
    BY <1>1, TimeAssumption DEF TypeOK, AccepterStates
  <2>2. QED
    BY <1>1, <1>2, <1>5, <2>1 DEF AccepterInv
<1>7. ASSUME NEW t \in Slots
      PROVE  SlotInv(t)'
  <2>1. SlotInv(t)
    BY DEF LivesInv
  <2>2. OneGeneration(t)'
    BY <1>2, <2>1 DEF SlotInv, OneGeneration, PacketsOfNewest
  <2>3. ClosedInv(t)'
    <3>1. /\ now \in Int /\ DrainSec \in Int
          /\ mLatestClosedTimeSec[t] \in Int
      BY <1>1, TimeAssumption DEF TypeOK
    <3>2. QED
      BY <1>2, <1>5, <2>1, <3>1 DEF SlotInv, ClosedInv, OnSlot, Closed
  <2>4. OpeningInv(t)'
    BY <1>2, <1>5, <2>1 DEF SlotInv, OpeningInv, OnSlot, Closed, Queued
  <2>5. ReceiveInv(t)'
    BY <1>2, <2>1 DEF SlotInv, ReceiveInv, OnSlot
  <2>6. SendInv(t)'
    BY <1>2, <2>1 DEF SlotInv, SendInv, OnSlot, SendsOfNewest
  <2>7. QED
    BY <2>2, <2>3, <2>4, <2>5, <2>6 DEF SlotInv
<1>8. QED
  BY <1>3, <1>4, <1>6, <1>7 DEF LivesInv

(* The accepter looks, and changes nothing but its own state: when it finds   *)
(* a closed time that is old enough, whatever the close left behind must    *)
(* have been handled by then.                                               *)
LEMMA ScanInv ==
    ASSUME LivesInv, ~ LoadsTwice,
           \/ StartSweep
           \/ EndSweep
           \/ \E s \in Slots : CheckConnected(s) \/ CheckClosedTime(s) \/ CheckWait(s)
    PROVE  LivesInv'
<1>1. TypeOK /\ AccepterInv
  BY DEF LivesInv
<1>2. /\ UNCHANGED <<now, mIsConnect, mLatestClosedTimeSec, socketVars, acceptIO, recvIO,
                     sendIO, mSendDataqueue, mPacketDataQueue, processThread, worker, fault>>
      /\ accepter'.at # "acceptEx"
  <2>1. accepter \in AccepterStates
    BY <1>1 DEF TypeOK
  <2>2. QED
    BY <2>1 DEF StartSweep, EndSweep, CheckConnected, CheckClosedTime, CheckWait, NextSlot,
                AccepterLeavesAlone, packetVars, AccepterStates
<1> DEFINE Old == accepter.cur - accepter.seen > RE_USE_SESSION_WAIT_TIMESEc
<1>3. /\ now \in 0 .. MaxTime /\ MaxTime \in Nat
      /\ accepter \in AccepterStates
      /\ accepter.cur \in 0 .. MaxTime /\ accepter.seen \in 0 .. MaxTime
      /\ RE_USE_SESSION_WAIT_TIMESEc \in Nat
      /\ DrainSec \in 0 .. RE_USE_SESSION_WAIT_TIMESEc
      /\ mLatestClosedTimeSec \in [Slots -> 0 .. MaxTime \cup {UINT32_MAX}]
      /\ UINT32_MAX \in Nat /\ UINT32_MAX > MaxTime
      /\ accepter.cur <= now
      /\ NoSlot \notin Slots
      /\ 0 \in 0 .. MaxTime
  BY <1>1, TimeAssumption, SlotAssumption DEF TypeOK, AccepterStates, AccepterInv
<1>4. \A t \in Slots : Busy(t)' <=> Busy(t)
  BY <1>2 DEF Busy, Queued
<1>5. accepter' \in AccepterStates /\ AccepterInv'
  <2>1. CASE StartSweep
    <3>1. /\ accepter' \in AccepterStates
          /\ accepter'.at = "sweep" /\ accepter'.slot = accepter.slot
          /\ accepter'.cur = now
          /\ accepter.at = "sleep"
      BY <1>3, <2>1 DEF StartSweep, AccepterStates
    <3>2. QED
      BY <1>1, <1>2, <1>3, <3>1 DEF AccepterInv
  <2>2. CASE EndSweep
    <3>1. /\ accepter' \in AccepterStates
          /\ accepter'.at = "sleep" /\ accepter'.slot = accepter.slot
          /\ accepter'.cur = 0
          /\ accepter.at = "sweep"
      BY <1>3, <2>2 DEF EndSweep, AccepterStates
    <3>2. QED
      BY <1>1, <1>2, <1>3, <3>1 DEF AccepterInv
  <2>3. ASSUME NEW s \in Slots, CheckConnected(s)
        PROVE  accepter' \in AccepterStates /\ AccepterInv'
    BY <1>1, <1>2, <1>3, <2>3 DEF CheckConnected, AccepterStates, AccepterInv
  <2>4. ASSUME NEW s \in Slots, CheckClosedTime(s)
        PROVE  accepter' \in AccepterStates /\ AccepterInv'
    <3>1. CASE accepter.cur < mLatestClosedTimeSec[s]
      <4>1. accepter' = NextSlot
        BY <2>4, <3>1 DEF CheckClosedTime, InUse
      <4>2. QED
        BY <1>2, <1>3, <4>1, NextSlotType DEF AccepterInv
    <3>2. CASE ~ (accepter.cur < mLatestClosedTimeSec[s])
      <4>1. /\ accepter' = [accepter EXCEPT !.at = "diff", !.seen = mLatestClosedTimeSec[s]]
            /\ accepter.slot = s
        BY <2>4, <3>2 DEF CheckClosedTime, InUse
      <4>2. mLatestClosedTimeSec[s] \in 0 .. MaxTime /\ Closed(s)
        BY <1>3, <3>2 DEF Closed
      <4>3. Busy(s) => now <= mLatestClosedTimeSec[s] + DrainSec
        BY <4>2 DEF LivesInv, SlotInv, ClosedInv
      <4>4. /\ accepter'.at = "diff" /\ accepter'.slot = s
            /\ accepter'.cur = accepter.cur
            /\ accepter'.seen = mLatestClosedTimeSec[s]
            /\ accepter' \in AccepterStates
        BY <1>3, <4>1, <4>2 DEF AccepterStates
      <4>5. QED
        BY <1>1, <1>2, <1>3, <1>4, <3>2, <4>2, <4>3, <4>4 DEF AccepterInv
    <3>3. QED
      BY <3>1, <3>2
  <2>5. ASSUME NEW s \in Slots, CheckWait(s)
        PROVE  accepter' \in AccepterStates /\ AccepterInv'
    <3>1. /\ accepter.at = "diff" /\ accepter.slot = s /\ accepter.seen <= accepter.cur
          /\ Old => ~ Busy(s) /\ mLatestClosedTimeSec[s] = accepter.seen
      BY <1>1, <2>5 DEF CheckWait, AccepterInv
    <3>2. CASE Old
      <4>1. accepter' = [accepter EXCEPT !.at = "post"]
        BY <1>3, <2>5, <3>2 DEF CheckWait, WaitedLongEnough
      <4>2. QED
        BY <1>2, <1>3, <1>4, <3>1, <3>2, <4>1 DEF AccepterInv, AccepterStates
    <3>3. CASE ~ Old
      <4>1. accepter' = NextSlot
        BY <1>3, <2>5, <3>1, <3>3 DEF CheckWait, WaitedLongEnough
      <4>2. QED
        BY <1>2, <1>3, <4>1, NextSlotType DEF AccepterInv
    <3>4. QED
      BY <3>2, <3>3
  <2>6. QED
    BY <2>1, <2>2, <2>3, <2>4, <2>5
<1>6. TypeOK' /\ OverlappedExclusive'
  BY <1>1, <1>2, <1>5 DEF LivesInv, TypeOK, OverlappedExclusive
<1>7. ASSUME NEW t \in Slots
      PROVE  SlotInv(t)'
  <2>1. SlotInv(t)
    BY DEF LivesInv
  <2>2. OneGeneration(t)' /\ ReceiveInv(t)' /\ SendInv(t)'
    BY <1>2, <2>1 DEF SlotInv, OneGeneration, PacketsOfNewest, ReceiveInv, SendInv,
                      SendsOfNewest, OnSlot
  <2>3. ClosedInv(t)' /\ OpeningInv(t)'
    BY <1>2, <1>4, <2>1 DEF SlotInv, ClosedInv, OpeningInv, OnSlot, Closed, Queued
  <2>4. QED
    BY <2>2, <2>3 DEF SlotInv
<1>8. QED
  BY <1>5, <1>6, <1>7 DEF LivesInv

(* PostAccept: the slot is closed and drained, so a new socket finds nothing   *)
(* of an older one.                                                         *)
LEMMA PostAcceptInv ==
    ASSUME LivesInv, NEW s \in Slots, PostAccept(s)
    PROVE  LivesInv'
<1>1. TypeOK
  BY DEF LivesInv
<1>2. /\ UNCHANGED <<now, mIsConnect, acceptIO, recvIO, sendIO, mSendDataqueue,
                     mPacketDataQueue, processThread, worker, fault>>
      /\ mLatestClosedTimeSec' = [mLatestClosedTimeSec EXCEPT ![s] = UINT32_MAX]
      /\ \/ /\ gen[s] < MaxGen
            /\ gen' = [gen EXCEPT ![s] = @ + 1]
            /\ mSocket' = [mSocket EXCEPT ![s] = gen[s] + 1]
            /\ \E h \in Handles :
                  /\ sockets' = [sockets EXCEPT ![h] = [slot |-> s, sock |-> gen[s] + 1]]
                  /\ handle' = [handle EXCEPT ![s] = h]
            /\ hit' = hit \ {s}
            /\ accepter' = [accepter EXCEPT !.at = "acceptEx"]
         \/ /\ mSocket' = [mSocket EXCEPT ![s] = 0]
            /\ handle' = [handle EXCEPT ![s] = INVALID_SOCKET]
            /\ accepter' = NextSlot
            /\ UNCHANGED <<sockets, hit>>
            /\ gen' = gen
      /\ accepter.at = "post" /\ accepter.slot = s
  BY DEF PostAccept, AccepterLeavesAlone, packetVars
<1>3. TypeOK'
  <2>1. /\ gen[s] \in Socks
        /\ 0 \in Socks
        /\ gen[s] < MaxGen => gen[s] + 1 \in Socks
    BY SMTT(30), <1>1, BoundAssumption DEF TypeOK, Socks
  <2>2. gen' \in [Slots -> Socks] /\ mSocket' \in [Slots -> Socks]
    <3>1. CASE gen' = gen /\ mSocket' = [mSocket EXCEPT ![s] = 0]
      BY <1>1, <2>1, <3>1 DEF TypeOK
    <3>2. CASE /\ gen[s] < MaxGen
               /\ gen' = [gen EXCEPT ![s] = @ + 1]
               /\ mSocket' = [mSocket EXCEPT ![s] = gen[s] + 1]
      BY <1>1, <2>1, <3>2 DEF TypeOK
    <3>3. QED
      BY <1>2, <3>1, <3>2
  <2>3. accepter' \in AccepterStates
    <3>1. accepter \in AccepterStates
      BY <1>1 DEF TypeOK
    <3>2. QED
      BY <1>2, <3>1, NextSlotType DEF AccepterStates
  <2>4. /\ handle' \in [Slots -> Handles \cup {INVALID_SOCKET}]
        /\ sockets' \in [Handles -> [slot : Slots \cup {NoSlot}, sock : Socks]]
        /\ hit' \subseteq Slots
        /\ \A t \in Slots : mSocket'[t] # 0 => handle'[t] \in Handles
    <3>1. CASE /\ handle' = [handle EXCEPT ![s] = INVALID_SOCKET]
               /\ mSocket' = [mSocket EXCEPT ![s] = 0]
               /\ UNCHANGED <<sockets, hit>>
      BY <1>1, <3>1 DEF TypeOK
    <3>2. ASSUME gen[s] < MaxGen, NEW h \in Handles,
                 sockets' = [sockets EXCEPT ![h] = [slot |-> s, sock |-> gen[s] + 1]],
                 handle' = [handle EXCEPT ![s] = h],
                 mSocket' = [mSocket EXCEPT ![s] = gen[s] + 1],
                 hit' = hit \ {s}
          PROVE  /\ handle' \in [Slots -> Handles \cup {INVALID_SOCKET}]
                 /\ sockets' \in [Handles -> [slot : Slots \cup {NoSlot}, sock : Socks]]
                 /\ hit' \subseteq Slots
                 /\ \A t \in Slots : mSocket'[t] # 0 => handle'[t] \in Handles
      BY <1>1, <2>1, <3>2 DEF TypeOK
    <3>3. QED
      BY <1>2, <3>1, <3>2
  <2>5. QED
    BY <1>1, <1>2, <2>2, <2>3, <2>4 DEF TypeOK
<1>4. OverlappedExclusive'
  BY <1>2 DEF LivesInv, OverlappedExclusive
<1>5. /\ Closed(s) /\ ~ Busy(s) /\ mSocket[s] = 0 /\ acceptIO[s] = 0 /\ ~ mIsConnect[s]
      /\ \A t \in Slots : Busy(t)' <=> Busy(t)
  <2>1. /\ ~ Busy(s)
        /\ mLatestClosedTimeSec[s] + RE_USE_SESSION_WAIT_TIMESEc < now
    BY <1>2 DEF LivesInv, AccepterInv
  <2>2. Closed(s)
    BY <1>1, <2>1, TimeAssumption DEF TypeOK, Closed
  <2>3. SlotInv(s)
    BY DEF LivesInv
  <2>4. mSocket[s] = 0 /\ acceptIO[s] = 0 /\ ~ mIsConnect[s]
    BY <2>1, <2>2, <2>3 DEF SlotInv, ClosedInv, OpeningInv, OnSlot, Busy
  <2>5. \A t \in Slots : Busy(t)' <=> Busy(t)
    BY <1>2 DEF Busy, Queued
  <2>6. QED
    BY <2>1, <2>2, <2>4, <2>5
<1>6. AccepterInv'
  <2>1. /\ accepter \in AccepterStates
        /\ accepter.cur <= now
        /\ NoSlot \notin Slots
    BY <1>1, SlotAssumption DEF TypeOK, LivesInv, AccepterInv
  <2>2. /\ accepter'.at \in {"acceptEx", "sweep"}
        /\ accepter'.cur = accepter.cur
        /\ accepter'.at = "acceptEx" => accepter'.slot = s
        /\ accepter'.at = "sweep" => accepter'.slot = NoSlot
    BY <1>2, <2>1, NextSlotType DEF AccepterStates
  <2>3. QED
    BY <1>2, <2>1, <2>2 DEF AccepterInv
<1>7. ASSUME NEW t \in Slots
      PROVE  SlotInv(t)'
  <2>1. SlotInv(t)
    BY DEF LivesInv
  <2>2. CASE t # s
    <3>1. /\ mLatestClosedTimeSec'[t] = mLatestClosedTimeSec[t]
          /\ mSocket'[t] = mSocket[t]
          /\ gen'[t] = gen[t]
          /\ ~ (accepter'.at = "acceptEx" /\ accepter'.slot = t)
      <4>1. accepter \in AccepterStates
        BY <1>1 DEF TypeOK
      <4>2. QED
        BY <1>1, <1>2, <2>2, <4>1, NextSlotType DEF TypeOK, AccepterStates
    <3>2. OneGeneration(t)' /\ ReceiveInv(t)' /\ SendInv(t)'
      BY <1>2, <2>1, <3>1 DEF SlotInv, OneGeneration, PacketsOfNewest, ReceiveInv, SendInv,
                              SendsOfNewest, OnSlot
    <3>3. ClosedInv(t)' /\ OpeningInv(t)'
      BY <1>2, <1>5, <2>1, <3>1 DEF SlotInv, ClosedInv, OpeningInv, OnSlot, Closed, Queued
    <3>4. QED
      BY <3>2, <3>3 DEF SlotInv
  <2>3. CASE t = s
    <3>1. /\ ~ Closed(s)'
          /\ mSocket'[s] \in {0, gen'[s]}
          /\ ~ Busy(s)' /\ acceptIO'[s] = 0 /\ ~ mIsConnect'[s]
      BY <1>1, <1>2, <1>5 DEF TypeOK, Closed
    <3>2. /\ recvIO'[s] = 0 /\ sendIO'[s] = 0
          /\ \A w \in Workers : worker'[w].slot # s
          /\ processThread'.slot # s
          /\ ~ Queued(s)'
      BY <3>1 DEF Busy
    <3>3. QED
      BY <2>3, <3>1, <3>2 DEF SlotInv, OneGeneration, PacketsOfNewest, Queued, ClosedInv,
                              OpeningInv, ReceiveInv, SendInv, OnSlot
  <2>4. QED
    BY <2>2, <2>3
<1>8. QED
  BY <1>3, <1>4, <1>6, <1>7 DEF LivesInv

(* AcceptEx: the slot's accept block is free, and passes from the accepter    *)
(* to the kernel.                                                           *)
LEMMA AcceptExInv ==
    ASSUME LivesInv, NEW s \in Slots, AcceptEx(s)
    PROVE  LivesInv'
<1>1. TypeOK
  BY DEF LivesInv
<1>2. /\ UNCHANGED <<now, mIsConnect, mLatestClosedTimeSec, socketVars, recvIO, sendIO,
                     mSendDataqueue, mPacketDataQueue, processThread, worker>>
      /\ \/ mSocket[s] # 0 /\ acceptIO' = [acceptIO EXCEPT ![s] = mSocket[s]]
         \/ acceptIO' = acceptIO
      /\ accepter' = NextSlot
      /\ accepter.at = "acceptEx" /\ accepter.slot = s
  BY DEF AcceptEx, IsOpen, AccepterLeavesAlone, packetVars
<1>3. /\ SlotInv(s) /\ acceptIO[s] = 0 /\ ~ Closed(s) /\ ~ mIsConnect[s] /\ ~ Busy(s)
      /\ \A t \in Slots : Busy(t)' <=> Busy(t)
  <2>1. \A t \in Slots : Busy(t)' <=> Busy(t)
    BY <1>2 DEF Busy, Queued
  <2>2. QED
    BY <1>2, <2>1 DEF LivesInv, SlotInv, OpeningInv
<1>4. TypeOK'
  <2>1. accepter' \in AccepterStates
    BY <1>1, <1>2, NextSlotType DEF TypeOK
  <2>2. fault' \in {fault, "foreignSocket"}
    BY <1>3 DEF AcceptEx, Misused
  <2>3. QED
    BY <1>1, <1>2, <2>1, <2>2 DEF TypeOK
<1>5. OverlappedExclusive'
  BY <1>3 DEF AcceptEx, Misused, LivesInv, OverlappedExclusive
<1>6. AccepterInv'
  <2>1. /\ accepter \in AccepterStates
        /\ accepter.cur <= now
    BY <1>1 DEF TypeOK, LivesInv, AccepterInv
  <2>2. QED
    BY <1>2, <2>1, NextSlotType DEF AccepterInv
<1>7. ASSUME NEW t \in Slots
      PROVE  SlotInv(t)'
  <2>1. SlotInv(t)
    BY DEF LivesInv
  <2>2. OneGeneration(t)'
    BY <1>1, <1>2, <2>1 DEF TypeOK, Doing, SlotInv, OneGeneration, PacketsOfNewest
  <2>3. ClosedInv(t)'
    BY <1>1, <1>2, <1>3, <2>1 DEF TypeOK, Doing, SlotInv, ClosedInv, OnSlot, Closed
  <2>4. OpeningInv(t)'
    <3>1. ~ (accepter'.at = "acceptEx")
      BY <1>1, <1>2, NextSlotType DEF TypeOK
    <3>2. t # s => acceptIO'[t] = acceptIO[t]
      BY <1>1, <1>2 DEF TypeOK
    <3>3. ASSUME acceptIO'[s] # 0
          PROVE  mSocket[s] = gen[s]
      BY <1>1, <1>2, <1>3, <3>3 DEF TypeOK, SlotInv, OneGeneration
    <3>4. \A v \in Workers : worker[v].slot # s
      BY <1>3 DEF Busy
    <3>5. QED
      BY <1>2, <1>3, <2>1, <3>1, <3>2, <3>3, <3>4
         DEF SlotInv, OpeningInv, OnSlot, Closed, Queued
  <2>5. ReceiveInv(t)'
    BY <1>1, <1>2, <2>1 DEF TypeOK, Doing, SlotInv, ReceiveInv, OnSlot
  <2>6. SendInv(t)'
    BY <1>1, <1>2, <2>1 DEF TypeOK, Doing, SlotInv, SendInv, OnSlot, SendsOfNewest
  <2>7. QED
    BY <2>2, <2>3, <2>4, <2>5, <2>6 DEF SlotInv
<1>8. QED
  BY <1>4, <1>5, <1>6, <1>7 DEF LivesInv

(* A worker takes the accept completion: it is alone with the slot. *)
LEMMA TakeAcceptInv ==
    ASSUME LivesInv, NEW w \in Workers, NEW s \in Slots, TakeAccept(w, s)
    PROVE  LivesInv'
<1>1. TypeOK
  BY DEF LivesInv
<1>2. /\ UNCHANGED <<now, mIsConnect, mLatestClosedTimeSec, socketVars, recvIO, sendIO,
                     mSendDataqueue, mPacketDataQueue, processThread, accepter, fault>>
      /\ acceptIO' = [acceptIO EXCEPT ![s] = 0]
      /\ worker' = [worker EXCEPT ![w] = Doing("accepted", s, acceptIO[s])]
      /\ worker[w].at = "wait"
      /\ acceptIO[s] # 0
  BY DEF TakeAccept, WorkerLeavesAlone, packetVars
<1>3. TypeOK'
  <2>1. acceptIO[s] \in Socks /\ "accepted" \in WorkerStages /\ 0 \in Socks
    BY <1>1, BoundAssumption DEF TypeOK, WorkerStages, Socks
  <2>2. worker' \in [Workers -> WorkerStates]
    BY <1>1, <1>2, <2>1, DoingType DEF TypeOK
  <2>3. QED
    BY <1>1, <1>2, <2>1, <2>2 DEF TypeOK
<1>4. OverlappedExclusive'
  BY <1>2 DEF LivesInv, OverlappedExclusive
<1>5. /\ ~ Closed(s) /\ ~ mIsConnect[s] /\ ~ Busy(s) /\ mSocket[s] = gen[s]
      /\ ~ (accepter.at = "acceptEx" /\ accepter.slot = s)
      /\ recvIO[s] = 0 /\ sendIO[s] = 0 /\ processThread.slot # s /\ ~ Queued(s)
      /\ \A v \in Workers : worker[v].slot # s
      /\ \A t \in Slots \ {s} : Busy(t)' => Busy(t)
  <2>1. /\ ~ Closed(s) /\ ~ mIsConnect[s] /\ ~ Busy(s) /\ mSocket[s] = gen[s]
        /\ ~ (accepter.at = "acceptEx" /\ accepter.slot = s)
    BY <1>2 DEF LivesInv, SlotInv, OpeningInv
  <2>2. \A t \in Slots \ {s} : Busy(t)' => Busy(t)
    BY <1>1, <1>2 DEF Busy, Queued, Doing, TypeOK
  <2>3. QED
    BY <2>1, <2>2 DEF Busy
<1>6. AccepterInv'
  BY <1>2, <1>5, AccepterFrame
<1>7. ASSUME NEW t \in Slots
      PROVE  SlotInv(t)'
  <2>1. SlotInv(t)
    BY DEF LivesInv
  <2>2. OneGeneration(t)'
    BY <1>1, <1>2, <2>1 DEF TypeOK, Doing, SlotInv, OneGeneration, PacketsOfNewest
  <2>3. ClosedInv(t)'
    BY <1>1, <1>2, <1>5, <2>1 DEF TypeOK, Doing, SlotInv, ClosedInv, OnSlot, Closed
  <2>4. OpeningInv(t)'
    BY <1>1, <1>2, <1>5, <2>1 DEF TypeOK, Doing, SlotInv, OpeningInv, OnSlot, Closed, Queued
  <2>5. ReceiveInv(t)'
    BY <1>1, <1>2, <2>1 DEF TypeOK, Doing, SlotInv, ReceiveInv, OnSlot
  <2>6. SendInv(t)'
    BY <1>1, <1>2, <2>1 DEF TypeOK, Doing, SlotInv, SendInv, OnSlot, SendsOfNewest
  <2>7. QED
    BY <2>2, <2>3, <2>4, <2>5, <2>6 DEF SlotInv
<1>8. QED
  BY <1>3, <1>4, <1>6, <1>7 DEF LivesInv

(* A failed accept is the end of the model: fault is all that follows. *)
LEMMA TakeFailedAcceptInv ==
    ASSUME LivesInv, NEW w \in Workers, NEW s \in Slots, TakeFailedAccept(w, s)
    PROVE  LivesInv'
<1>1. TypeOK
  BY DEF LivesInv
<1>2. /\ UNCHANGED <<now, mIsConnect, mLatestClosedTimeSec, socketVars, recvIO, sendIO,
                     mSendDataqueue, mPacketDataQueue, processThread, accepter, worker>>
      /\ acceptIO' = [acceptIO EXCEPT ![s] = 0]
      /\ fault' = "nullClient"
  BY DEF TakeFailedAccept, WorkerLeavesAlone, packetVars
<1>3. TypeOK' /\ OverlappedExclusive'
  <2>1. 0 \in Socks
    BY BoundAssumption DEF Socks
  <2>2. QED
    BY <1>1, <1>2, <2>1 DEF TypeOK, OverlappedExclusive
<1>4. \A t \in Slots : Busy(t)' <=> Busy(t)
  BY <1>2 DEF Busy, Queued
<1>5. AccepterInv'
  BY <1>2, <1>4, AccepterFrame
<1>6. ASSUME NEW t \in Slots
      PROVE  SlotInv(t)'
  <2>1. SlotInv(t) /\ acceptIO'[t] \in {0, acceptIO[t]}
    BY <1>1, <1>2 DEF LivesInv, TypeOK
  <2>2. OneGeneration(t)' /\ ReceiveInv(t)' /\ SendInv(t)'
    BY <1>2, <2>1 DEF SlotInv, OneGeneration, PacketsOfNewest, ReceiveInv, SendInv,
                      SendsOfNewest, OnSlot
  <2>3. ClosedInv(t)' /\ OpeningInv(t)'
    BY <1>2, <1>4, <2>1 DEF SlotInv, ClosedInv, OpeningInv, OnSlot, Closed, Queued
  <2>4. QED
    BY <2>2, <2>3 DEF SlotInv
<1>7. QED
  BY <1>3, <1>5, <1>6 DEF LivesInv

(* A worker takes a completed receive: the receive block and buffer pass from *)
(* the kernel to it.                                                        *)
LEMMA TakeReceiveInv ==
    ASSUME LivesInv, NEW w \in Workers, NEW s \in Slots, TakeReceive(w, s)
    PROVE  LivesInv'
<1>1. TypeOK /\ SlotInv(s)
  BY DEF LivesInv
<1>2. /\ UNCHANGED <<now, mIsConnect, mLatestClosedTimeSec, socketVars, acceptIO,
                     sendIO, mSendDataqueue, mPacketDataQueue, processThread, accepter,
                     fault>>
      /\ recvIO' = [recvIO EXCEPT ![s] = 0]
      /\ worker[w].at = "wait"
      /\ recvIO[s] # 0
  BY DEF TakeReceive, WorkerLeavesAlone, packetVars
<1>3. /\ worker' \in [Workers -> WorkerStates]
      /\ worker' = [worker EXCEPT ![w] = Doing("onReceive", s, recvIO[s])]
  <2>1. "onReceive" \in WorkerStages /\ recvIO[s] \in Socks
    BY <1>1 DEF TypeOK, WorkerStages, ClosingStages
  <2>2. worker' = [worker EXCEPT ![w] = Doing("onReceive", s, recvIO[s])]
    BY DEF TakeReceive
  <2>3. QED
    BY <1>1, <2>1, <2>2, WorkerType
<1>4. /\ Busy(s) /\ Busy(s)'
      /\ \A t \in Slots \ {s} : Busy(t)' => Busy(t)
  BY <1>1, <1>2, <1>3 DEF Busy, Queued, Doing, TypeOK
<1>5. TypeOK' /\ OverlappedExclusive'
  <2>1. 0 \in Socks
    BY BoundAssumption DEF Socks
  <2>2. QED
    BY <1>1, <1>2, <1>3, <2>1 DEF LivesInv, TypeOK, OverlappedExclusive
<1>6. AccepterInv'
  BY <1>2, <1>4, AccepterFrame
<1>7. ASSUME NEW t \in Slots
      PROVE  SlotInv(t)'
  <2>1. SlotInv(t)
    BY DEF LivesInv
  <2>2. OneGeneration(t)'
    BY <1>1, <1>2, <1>3, <2>1 DEF TypeOK, Doing, SlotInv, OneGeneration, PacketsOfNewest
  <2>3. ClosedInv(t)'
    BY <1>1, <1>2, <1>3, <1>4, <2>1 DEF TypeOK, Doing, SlotInv, ClosedInv, OnSlot, Closed
  <2>4. OpeningInv(t)'
    BY <1>1, <1>2, <1>3, <1>4, <2>1 DEF TypeOK, Doing, SlotInv, OpeningInv, OnSlot, Closed, Queued
  <2>5. ReceiveInv(t)'
    BY <1>1, <1>2, <1>3, <2>1 DEF TypeOK, Doing, SlotInv, ReceiveInv, OnSlot
  <2>6. SendInv(t)'
    BY <1>1, <1>2, <1>3, <2>1 DEF TypeOK, Doing, SlotInv, SendInv, OnSlot, SendsOfNewest
  <2>7. QED
    BY <2>2, <2>3, <2>4, <2>5, <2>6 DEF SlotInv
<1>8. QED
  BY <1>5, <1>6, <1>7 DEF LivesInv

(* Or a failed one, to close.                                               *)
LEMMA TakeFailedReceiveInv ==
    ASSUME LivesInv, NEW w \in Workers, NEW s \in Slots, TakeFailedReceive(w, s)
    PROVE  LivesInv'
<1>1. TypeOK /\ SlotInv(s)
  BY DEF LivesInv
<1>2. /\ UNCHANGED <<now, mIsConnect, mLatestClosedTimeSec, socketVars, acceptIO,
                     sendIO, mSendDataqueue, mPacketDataQueue, processThread, accepter,
                     fault>>
      /\ recvIO' = [recvIO EXCEPT ![s] = 0]
      /\ worker[w].at = "wait"
      /\ recvIO[s] # 0
  BY DEF TakeFailedReceive, WorkerLeavesAlone, packetVars
<1>3. /\ worker' \in [Workers -> WorkerStates]
      /\ worker' = [worker EXCEPT ![w] = Doing("closing", s, recvIO[s])]
  <2>1. "closing" \in WorkerStages /\ recvIO[s] \in Socks
    BY <1>1 DEF TypeOK, WorkerStages, ClosingStages
  <2>2. worker' = [worker EXCEPT ![w] = Doing("closing", s, recvIO[s])]
    BY DEF TakeFailedReceive
  <2>3. QED
    BY <1>1, <2>1, <2>2, WorkerType
<1>4. /\ Busy(s) /\ Busy(s)'
      /\ \A t \in Slots \ {s} : Busy(t)' => Busy(t)
  BY <1>1, <1>2, <1>3 DEF Busy, Queued, Doing, TypeOK
<1>5. TypeOK' /\ OverlappedExclusive'
  <2>1. 0 \in Socks
    BY BoundAssumption DEF Socks
  <2>2. QED
    BY <1>1, <1>2, <1>3, <2>1 DEF LivesInv, TypeOK, OverlappedExclusive
<1>6. AccepterInv'
  BY <1>2, <1>4, AccepterFrame
<1>7. ASSUME NEW t \in Slots
      PROVE  SlotInv(t)'
  <2>1. SlotInv(t)
    BY DEF LivesInv
  <2>2. OneGeneration(t)'
    BY <1>1, <1>2, <1>3, <2>1 DEF TypeOK, Doing, SlotInv, OneGeneration, PacketsOfNewest
  <2>3. ClosedInv(t)'
    BY <1>1, <1>2, <1>3, <1>4, <2>1 DEF TypeOK, Doing, SlotInv, ClosedInv, OnSlot, Closed
  <2>4. OpeningInv(t)'
    BY <1>1, <1>2, <1>3, <1>4, <2>1 DEF TypeOK, Doing, SlotInv, OpeningInv, OnSlot, Closed, Queued
  <2>5. ReceiveInv(t)'
    BY <1>1, <1>2, <1>3, <2>1 DEF TypeOK, Doing, SlotInv, ReceiveInv, OnSlot
  <2>6. SendInv(t)'
    BY <1>1, <1>2, <1>3, <2>1 DEF TypeOK, Doing, SlotInv, SendInv, OnSlot, SendsOfNewest
  <2>7. QED
    BY <2>2, <2>3, <2>4, <2>5, <2>6 DEF SlotInv
<1>8. QED
  BY <1>5, <1>6, <1>7 DEF LivesInv

(* A worker takes a completed send: the front of the queue is its to pop.    *)
LEMMA TakeSentInv ==
    ASSUME LivesInv, NEW w \in Workers, NEW s \in Slots, TakeSent(w, s)
    PROVE  LivesInv'
<1>1. TypeOK /\ SlotInv(s)
  BY DEF LivesInv
<1>2. /\ UNCHANGED <<now, mIsConnect, mLatestClosedTimeSec, socketVars, acceptIO,
                     recvIO, mSendDataqueue, mPacketDataQueue, processThread, accepter,
                     fault>>
      /\ sendIO' = [sendIO EXCEPT ![s] = 0]
      /\ worker[w].at = "wait"
      /\ sendIO[s] # 0
  BY DEF TakeSent, WorkerLeavesAlone, packetVars
<1>3. /\ worker' \in [Workers -> WorkerStates]
      /\ worker' = [worker EXCEPT ![w] = Doing("sendCompleted", s, sendIO[s])]
  <2>1. "sendCompleted" \in WorkerStages /\ sendIO[s] \in Socks
    BY <1>1 DEF TypeOK, WorkerStages, ClosingStages
  <2>2. worker' = [worker EXCEPT ![w] = Doing("sendCompleted", s, sendIO[s])]
    BY DEF TakeSent
  <2>3. QED
    BY <1>1, <2>1, <2>2, WorkerType
<1>4. /\ Busy(s) /\ Busy(s)'
      /\ \A t \in Slots \ {s} : Busy(t)' => Busy(t)
  BY <1>1, <1>2, <1>3 DEF Busy, Queued, Doing, TypeOK
<1>5. TypeOK' /\ OverlappedExclusive'
  <2>1. 0 \in Socks
    BY BoundAssumption DEF Socks
  <2>2. QED
    BY <1>1, <1>2, <1>3, <2>1 DEF LivesInv, TypeOK, OverlappedExclusive
<1>6. AccepterInv'
  BY <1>2, <1>4, AccepterFrame
<1>7. ASSUME NEW t \in Slots
      PROVE  SlotInv(t)'
  <2>1. SlotInv(t)
    BY DEF LivesInv
  <2>2. OneGeneration(t)'
    BY <1>1, <1>2, <1>3, <2>1 DEF TypeOK, Doing, SlotInv, OneGeneration, PacketsOfNewest
  <2>3. ClosedInv(t)'
    BY <1>1, <1>2, <1>3, <1>4, <2>1 DEF TypeOK, Doing, SlotInv, ClosedInv, OnSlot, Closed
  <2>4. OpeningInv(t)'
    BY <1>1, <1>2, <1>3, <1>4, <2>1 DEF TypeOK, Doing, SlotInv, OpeningInv, OnSlot, Closed, Queued
  <2>5. ReceiveInv(t)'
    BY <1>1, <1>2, <1>3, <2>1 DEF TypeOK, Doing, SlotInv, ReceiveInv, OnSlot
  <2>6. SendInv(t)'
    BY <1>1, <1>2, <1>3, <2>1 DEF TypeOK, Doing, SlotInv, SendInv, OnSlot, SendsOfNewest
  <2>7. QED
    BY <2>2, <2>3, <2>4, <2>5, <2>6 DEF SlotInv
<1>8. QED
  BY <1>5, <1>6, <1>7 DEF LivesInv

(* Or a failed one: the front stays, and the worker closes.                  *)
LEMMA TakeFailedSendInv ==
    ASSUME LivesInv, NEW w \in Workers, NEW s \in Slots, TakeFailedSend(w, s)
    PROVE  LivesInv'
<1>1. TypeOK /\ SlotInv(s)
  BY DEF LivesInv
<1>2. /\ UNCHANGED <<now, mIsConnect, mLatestClosedTimeSec, socketVars, acceptIO,
                     recvIO, mSendDataqueue, mPacketDataQueue, processThread, accepter,
                     fault>>
      /\ sendIO' = [sendIO EXCEPT ![s] = 0]
      /\ worker[w].at = "wait"
      /\ sendIO[s] # 0
  BY DEF TakeFailedSend, WorkerLeavesAlone, packetVars
<1>3. /\ worker' \in [Workers -> WorkerStates]
      /\ worker' = [worker EXCEPT ![w] = Doing("closing", s, sendIO[s])]
  <2>1. "closing" \in WorkerStages /\ sendIO[s] \in Socks
    BY <1>1 DEF TypeOK, WorkerStages, ClosingStages
  <2>2. worker' = [worker EXCEPT ![w] = Doing("closing", s, sendIO[s])]
    BY DEF TakeFailedSend
  <2>3. QED
    BY <1>1, <2>1, <2>2, WorkerType
<1>4. /\ Busy(s) /\ Busy(s)'
      /\ \A t \in Slots \ {s} : Busy(t)' => Busy(t)
  BY <1>1, <1>2, <1>3 DEF Busy, Queued, Doing, TypeOK
<1>5. TypeOK' /\ OverlappedExclusive'
  <2>1. 0 \in Socks
    BY BoundAssumption DEF Socks
  <2>2. QED
    BY <1>1, <1>2, <1>3, <2>1 DEF LivesInv, TypeOK, OverlappedExclusive
<1>6. AccepterInv'
  BY <1>2, <1>4, AccepterFrame
<1>7. ASSUME NEW t \in Slots
      PROVE  SlotInv(t)'
  <2>1. SlotInv(t)
    BY DEF LivesInv
  <2>2. OneGeneration(t)'
    BY <1>1, <1>2, <1>3, <2>1 DEF TypeOK, Doing, SlotInv, OneGeneration, PacketsOfNewest
  <2>3. ClosedInv(t)'
    BY <1>1, <1>2, <1>3, <1>4, <2>1 DEF TypeOK, Doing, SlotInv, ClosedInv, OnSlot, Closed
  <2>4. OpeningInv(t)'
    BY <1>1, <1>2, <1>3, <1>4, <2>1 DEF TypeOK, Doing, SlotInv, OpeningInv, OnSlot, Closed, Queued
  <2>5. ReceiveInv(t)'
    BY <1>1, <1>2, <1>3, <2>1 DEF TypeOK, Doing, SlotInv, ReceiveInv, OnSlot
  <2>6. SendInv(t)'
    BY <1>1, <1>2, <1>3, <2>1 DEF TypeOK, Doing, SlotInv, SendInv, OnSlot, SendsOfNewest
  <2>7. QED
    BY <2>2, <2>3, <2>4, <2>5, <2>6 DEF SlotInv
<1>8. QED
  BY <1>5, <1>6, <1>7 DEF LivesInv

(* OnConnect connects a slot no close is under way on. *)
LEMMA OnConnectInv ==
    ASSUME LivesInv, NEW w \in Workers, NEW s \in Slots, OnConnect(w, s)
    PROVE  LivesInv'
<1>1. TypeOK /\ SlotInv(s)
  BY DEF LivesInv
<1>2. /\ UNCHANGED <<now, mLatestClosedTimeSec, socketVars, acceptIO, recvIO, sendIO,
                     mSendDataqueue, mPacketDataQueue, processThread, accepter, fault>>
      /\ mIsConnect' = [mIsConnect EXCEPT ![s] = TRUE]
      /\ worker[w].at = "accepted" /\ worker[w].slot = s
  BY DEF OnConnect, At, WorkerLeavesAlone, ioVars, packetVars
<1>3. /\ worker' \in [Workers -> WorkerStates]
      /\ worker' = [worker EXCEPT ![w] = Doing("bindAccepted", s, worker[w].sock)]
  <2>1. /\ GoesTo(w, "bindAccepted") /\ "bindAccepted" \in WorkerStages
        /\ worker[w].sock \in Socks
    BY <1>1 DEF OnConnect, WorkerStages, ClosingStages, TypeOK, WorkerStates
  <2>2. worker' = [worker EXCEPT ![w] = Doing("bindAccepted", s, worker[w].sock)]
    BY <1>1, <1>2, <2>1, GoesToEffect
  <2>3. QED
    BY <1>1, <2>1, <2>2, WorkerType
<1>4. /\ Busy(s)
      /\ \A t \in Slots : Busy(t)' => Busy(t)
  BY <1>1, <1>2, <1>3 DEF Busy, Queued, Doing, TypeOK
<1>5. TypeOK' /\ OverlappedExclusive'
  BY <1>1, <1>2, <1>3 DEF LivesInv, TypeOK, OverlappedExclusive
<1>6. AccepterInv'
  BY <1>2, <1>4, AccepterFrame
<1>7. ASSUME NEW t \in Slots
      PROVE  SlotInv(t)'
  <2>1. SlotInv(t)
    BY DEF LivesInv
  <2>2. OneGeneration(t)'
    BY <1>1, <1>2, <1>3, <2>1 DEF TypeOK, Doing, SlotInv, OneGeneration, PacketsOfNewest
  <2>3. ClosedInv(t)'
    BY <1>1, <1>2, <1>3, <1>4, <2>1 DEF TypeOK, Doing, SlotInv, ClosedInv, OpeningInv, OnSlot,
       Closed
  <2>4. OpeningInv(t)'
    BY <1>1, <1>2, <1>3, <1>4, <2>1 DEF TypeOK, Doing, SlotInv, OpeningInv, OnSlot, Closed, Queued
  <2>5. ReceiveInv(t)'
    BY <1>1, <1>2, <1>3, <2>1 DEF TypeOK, Doing, SlotInv, ReceiveInv, OnSlot
  <2>6. SendInv(t)'
    BY <1>1, <1>2, <1>3, <2>1 DEF TypeOK, Doing, SlotInv, SendInv, OnSlot, SendsOfNewest
  <2>7. QED
    BY <2>2, <2>3, <2>4, <2>5, <2>6 DEF SlotInv
<1>8. QED
  BY <1>5, <1>6, <1>7 DEF LivesInv

(* WSARecv is posted by a worker that has the slot's receive block: after     *)
(* OnConnect, or after the copy of what the last one received.              *)
LEMMA PostReceiveInv ==
    ASSUME LivesInv, NEW w \in Workers, NEW s \in Slots,
           At(w, "bindAccepted", s) \/ At(w, "bindRecv", s), PostReceive(s), Done(w),
           WorkerLeavesAlone,
           UNCHANGED <<mIsConnect, mLatestClosedTimeSec, socketVars, mSendDataqueue, acceptIO,
                       sendIO, packetVars>>
    PROVE  LivesInv'
<1>1. TypeOK /\ SlotInv(s)
  BY DEF LivesInv
<1>2. /\ UNCHANGED <<now, mIsConnect, mLatestClosedTimeSec, socketVars, acceptIO,
                     sendIO, mSendDataqueue, mPacketDataQueue, processThread, accepter>>
      /\ worker[w].at \in {"bindAccepted", "bindRecv"} /\ worker[w].slot = s
      /\ recvIO' = [recvIO EXCEPT ![s] = mSocket[s]]
      /\ fault' = IF recvIO[s] # 0 THEN "recvOverlap" ELSE fault
  BY DEF At, PostReceive, IsOpen, WorkerLeavesAlone, packetVars
<1>3. /\ worker' \in [Workers -> WorkerStates]
      /\ worker' = [worker EXCEPT ![w] = Doing("wait", NoSlot, 0)]
      /\ NoSlot \notin Slots
  <2>1. /\ worker' = [worker EXCEPT ![w] = Doing("wait", NoSlot, 0)]
        /\ "wait" \in WorkerStages /\ 0 \in Socks /\ NoSlot \notin Slots
    BY BoundAssumption, SlotAssumption DEF Done, Resting, Doing, WorkerStages, Socks
  <2>2. QED
    BY <1>1, <2>1, WorkerType
<1>4. /\ Busy(s)
      /\ \A t \in Slots : Busy(t)' => Busy(t)
      /\ \A v \in Workers : OnSlot(v, s, {"onReceive", "bindRecv", "accepted", "bindAccepted"})
                              => v = w
  <2>1. /\ Busy(s)
        /\ \A t \in Slots : Busy(t)' => Busy(t)
    BY <1>1, <1>2, <1>3 DEF Busy, Queued, Doing, TypeOK
  <2>2. \A v \in Workers : OnSlot(v, s, {"onReceive", "bindRecv", "accepted", "bindAccepted"})
                             => v = w
    BY <1>1, <1>2 DEF SlotInv, OpeningInv, ReceiveInv, OnSlot
  <2>3. QED
    BY <2>1, <2>2
<1>5. TypeOK' /\ OverlappedExclusive'
  <2>1. recvIO[s] = 0
    BY <1>1, <1>2 DEF SlotInv, OpeningInv, ReceiveInv, OnSlot
  <2>2. QED
    BY <1>1, <1>2, <1>3, <2>1 DEF LivesInv, TypeOK, OverlappedExclusive
<1>6. AccepterInv'
  BY <1>2, <1>4, AccepterFrame
<1>7. ASSUME NEW t \in Slots
      PROVE  SlotInv(t)'
  <2>1. SlotInv(t)
    BY DEF LivesInv
  <2>2. OneGeneration(t)'
    BY <1>1, <1>2, <1>3, <2>1 DEF TypeOK, Doing, SlotInv, OneGeneration, PacketsOfNewest
  <2>3. ClosedInv(t)'
    BY <1>1, <1>2, <1>3, <1>4, <2>1 DEF TypeOK, Doing, SlotInv, ClosedInv, OnSlot, Closed
  <2>4. OpeningInv(t)'
    <3>1. CASE t # s
      <4>1. /\ recvIO'[t] = recvIO[t]
            /\ \A v \in Workers : worker'[v].slot = t => worker'[v] = worker[v]
        BY <1>1, <1>2, <1>3, <3>1 DEF TypeOK, Doing
      <4>2. QED
        BY <1>2, <1>4, <2>1, <4>1 DEF SlotInv, OpeningInv, OnSlot, Closed, Queued
    <3>2. CASE t = s
      <4>1. \A v \in Workers : ~ OnSlot(v, s, {"accepted", "bindAccepted"})'
        BY <1>1, <1>3, <1>4 DEF TypeOK, Doing, OnSlot
      <4>2. QED
        BY <1>1, <1>2, <1>4, <3>2, <4>1 DEF SlotInv, OpeningInv, OnSlot, Closed, Queued
    <3>3. QED
      BY <3>1, <3>2
  <2>5. ReceiveInv(t)'
    BY <1>1, <1>2, <1>3, <1>4, <2>1 DEF TypeOK, Doing, SlotInv, ReceiveInv, OnSlot
  <2>6. SendInv(t)'
    BY <1>1, <1>2, <1>3, <2>1 DEF TypeOK, Doing, SlotInv, SendInv, OnSlot, SendsOfNewest
  <2>7. QED
    BY <2>2, <2>3, <2>4, <2>5, <2>6 DEF SlotInv
<1>8. QED
  BY <1>5, <1>6, <1>7 DEF LivesInv

(* OnConnect fails to bind or to post: the connection is closed. *)
LEMMA BindFailedInv ==
    ASSUME LivesInv, NEW w \in Workers, NEW s \in Slots, GoesTo(w, "closing"),
           At(w, "bindAccepted", s), WorkerLeavesAlone, ReceiveRefused(s),
           UNCHANGED <<mIsConnect, mLatestClosedTimeSec, socketVars, mSendDataqueue, acceptIO,
                       sendIO, packetVars>>
    PROVE  LivesInv'
<1>1. TypeOK /\ SlotInv(s)
  BY DEF LivesInv
<1>2. /\ UNCHANGED <<now, mIsConnect, mLatestClosedTimeSec, socketVars, acceptIO,
                     recvIO, sendIO, mSendDataqueue, mPacketDataQueue, processThread,
                     accepter>>
      /\ fault' \in {fault, "foreignSocket"}
      /\ worker[w].at = "bindAccepted" /\ worker[w].slot = s
  BY DEF At, ReceiveRefused, Misused, WorkerLeavesAlone, packetVars
<1>3. /\ worker' \in [Workers -> WorkerStates]
      /\ worker' = [worker EXCEPT ![w] = Doing("closing", s, worker[w].sock)]
  <2>1. /\ "closing" \in WorkerStages
        /\ worker[w].sock \in Socks
    BY <1>1 DEF WorkerStages, ClosingStages, TypeOK, WorkerStates
  <2>2. worker' = [worker EXCEPT ![w] = Doing("closing", s, worker[w].sock)]
    BY <1>1, <1>2, <2>1, GoesToEffect
  <2>3. QED
    BY <1>1, <2>1, <2>2, WorkerType
<1>4. /\ Busy(s)
      /\ \A t \in Slots : Busy(t)' => Busy(t)
  BY <1>1, <1>2, <1>3 DEF Busy, Queued, Doing, TypeOK
<1>5. TypeOK' /\ OverlappedExclusive'
  BY <1>1, <1>2, <1>3 DEF LivesInv, TypeOK, OverlappedExclusive
<1>6. AccepterInv'
  BY <1>2, <1>4, AccepterFrame
<1>7. ASSUME NEW t \in Slots
      PROVE  SlotInv(t)'
  <2>1. SlotInv(t)
    BY DEF LivesInv
  <2>2. OneGeneration(t)'
    BY <1>1, <1>2, <1>3, <2>1 DEF TypeOK, Doing, SlotInv, OneGeneration, PacketsOfNewest
  <2>3. ClosedInv(t)'
    BY <1>1, <1>2, <1>3, <1>4, <2>1 DEF TypeOK, Doing, SlotInv, ClosedInv, OnSlot, Closed
  <2>4. OpeningInv(t)'
    BY <1>1, <1>2, <1>3, <1>4, <2>1 DEF TypeOK, Doing, SlotInv, OpeningInv, OnSlot, Closed, Queued
  <2>5. ReceiveInv(t)'
    BY <1>1, <1>2, <1>3, <2>1 DEF TypeOK, Doing, SlotInv, ReceiveInv, OnSlot
  <2>6. SendInv(t)'
    BY <1>1, <1>2, <1>3, <2>1 DEF TypeOK, Doing, SlotInv, SendInv, OnSlot, SendsOfNewest
  <2>7. QED
    BY <2>2, <2>3, <2>4, <2>5, <2>6 DEF SlotInv
<1>8. QED
  BY <1>5, <1>6, <1>7 DEF LivesInv

(* BindRecv fails after OnReceive, and nobody notices. *)
LEMMA RebindFailedInv ==
    ASSUME LivesInv, NEW w \in Workers, NEW s \in Slots, Done(w),
           At(w, "bindRecv", s), WorkerLeavesAlone, ReceiveRefused(s),
           UNCHANGED <<mIsConnect, mLatestClosedTimeSec, socketVars, mSendDataqueue, acceptIO,
                       sendIO, packetVars>>
    PROVE  LivesInv'
<1>1. TypeOK /\ SlotInv(s)
  BY DEF LivesInv
<1>2. /\ UNCHANGED <<now, mIsConnect, mLatestClosedTimeSec, socketVars, acceptIO,
                     recvIO, sendIO, mSendDataqueue, mPacketDataQueue, processThread,
                     accepter>>
      /\ fault' \in {fault, "foreignSocket"}
      /\ worker[w].at = "bindRecv" /\ worker[w].slot = s
  BY DEF At, ReceiveRefused, Misused, WorkerLeavesAlone, packetVars
<1>3. /\ worker' \in [Workers -> WorkerStates]
      /\ worker' = [worker EXCEPT ![w] = Doing("wait", NoSlot, 0)]
      /\ NoSlot \notin Slots
  <2>1. /\ worker' = [worker EXCEPT ![w] = Doing("wait", NoSlot, 0)]
        /\ "wait" \in WorkerStages /\ 0 \in Socks /\ NoSlot \notin Slots
    BY BoundAssumption, SlotAssumption DEF Done, Resting, Doing, WorkerStages, Socks
  <2>2. QED
    BY <1>1, <2>1, WorkerType
<1>4. /\ Busy(s)
      /\ \A t \in Slots : Busy(t)' => Busy(t)
  BY <1>1, <1>2, <1>3 DEF Busy, Queued, Doing, TypeOK
<1>5. TypeOK' /\ OverlappedExclusive'
  BY <1>1, <1>2, <1>3 DEF LivesInv, TypeOK, OverlappedExclusive
<1>6. AccepterInv'
  BY <1>2, <1>4, AccepterFrame
<1>7. ASSUME NEW t \in Slots
      PROVE  SlotInv(t)'
  <2>1. SlotInv(t)
    BY DEF LivesInv
  <2>2. OneGeneration(t)'
    BY <1>1, <1>2, <1>3, <2>1 DEF TypeOK, Doing, SlotInv, OneGeneration, PacketsOfNewest
  <2>3. ClosedInv(t)'
    BY <1>1, <1>2, <1>3, <1>4, <2>1 DEF TypeOK, Doing, SlotInv, ClosedInv, OnSlot, Closed
  <2>4. OpeningInv(t)'
    BY <1>1, <1>2, <1>3, <1>4, <2>1 DEF TypeOK, Doing, SlotInv, OpeningInv, OnSlot, Closed, Queued
  <2>5. ReceiveInv(t)'
    BY <1>1, <1>2, <1>3, <2>1 DEF TypeOK, Doing, SlotInv, ReceiveInv, OnSlot
  <2>6. SendInv(t)'
    BY <1>1, <1>2, <1>3, <2>1 DEF TypeOK, Doing, SlotInv, SendInv, OnSlot, SendsOfNewest
  <2>7. QED
    BY <2>2, <2>3, <2>4, <2>5, <2>6 DEF SlotInv
<1>8. QED
  BY <1>5, <1>6, <1>7 DEF LivesInv

(* OnReceive queues a packet of the slot's newest socket. *)
LEMMA OnReceiveInv ==
    ASSUME LivesInv, NEW w \in Workers, NEW s \in Slots, OnReceive(w, s)
    PROVE  LivesInv'
<1>1. TypeOK /\ SlotInv(s)
  BY DEF LivesInv
<1>2. /\ UNCHANGED <<now, mIsConnect, mLatestClosedTimeSec, socketVars, acceptIO,
                     recvIO, sendIO, mSendDataqueue, processThread, accepter, fault>>
      /\ worker[w].at = "onReceive" /\ worker[w].slot = s
      /\ mPacketDataQueue' = Append(mPacketDataQueue, [slot |-> s, sock |-> worker[w].sock])
  BY DEF OnReceive, At, WorkerLeavesAlone, ioVars
<1>3. /\ worker' \in [Workers -> WorkerStates]
      /\ worker' = [worker EXCEPT ![w] = Doing("bindRecv", s, worker[w].sock)]
  <2>1. /\ GoesTo(w, "bindRecv") /\ "bindRecv" \in WorkerStages
        /\ worker[w].sock \in Socks
    BY <1>1 DEF OnReceive, WorkerStages, ClosingStages, TypeOK, WorkerStates
  <2>2. worker' = [worker EXCEPT ![w] = Doing("bindRecv", s, worker[w].sock)]
    BY <1>1, <1>2, <2>1, GoesToEffect
  <2>3. QED
    BY <1>1, <2>1, <2>2, WorkerType
<1>4. /\ mPacketDataQueue' \in Seq(Packets)
      /\ \A t \in Slots : Queued(t)' => Queued(t) \/ t = s
      /\ \A t \in Slots : PacketsOfNewest(t) => PacketsOfNewest(t)'
  <2>1. /\ mPacketDataQueue \in Seq(Packets)
        /\ [slot |-> s, sock |-> worker[w].sock] \in Packets
    BY <1>1, <1>2 DEF TypeOK, Packets, WorkerStates
  <2>2. worker[w].sock = gen[s]
    BY <1>1, <1>2 DEF SlotInv, OneGeneration
  <2>3. ASSUME NEW t \in Slots, NEW i \in 1 .. Len(mPacketDataQueue')
        PROVE  \/ i \in 1 .. Len(mPacketDataQueue) /\ mPacketDataQueue'[i] = mPacketDataQueue[i]
               \/ mPacketDataQueue'[i] = [slot |-> s, sock |-> worker[w].sock]
    BY <1>2, <2>1
  <2>4. QED
    BY <1>2, <2>1, <2>2, <2>3 DEF Queued, PacketsOfNewest
<1>5. /\ Busy(s)
      /\ \A t \in Slots : Busy(t)' => Busy(t)
  BY <1>1, <1>2, <1>3, <1>4 DEF Busy, Doing, TypeOK
<1>6. TypeOK' /\ OverlappedExclusive'
  BY <1>1, <1>2, <1>3, <1>4 DEF LivesInv, TypeOK, OverlappedExclusive
<1>7. AccepterInv'
  BY <1>2, <1>5, AccepterFrame
<1>8. ASSUME NEW t \in Slots
      PROVE  SlotInv(t)'
  <2>1. SlotInv(t)
    BY DEF LivesInv
  <2>2. OneGeneration(t)'
    BY <1>1, <1>2, <1>3, <2>1, <1>4 DEF TypeOK, Doing, SlotInv, OneGeneration, PacketsOfNewest
  <2>3. ClosedInv(t)'
    BY <1>1, <1>2, <1>3, <1>5, <2>1 DEF TypeOK, Doing, SlotInv, ClosedInv, OnSlot, Closed
  <2>4. OpeningInv(t)'
    BY <1>1, <1>2, <1>3, <1>5, <2>1, <1>4 DEF TypeOK, Doing, SlotInv, OpeningInv, OnSlot, Closed
  <2>5. ReceiveInv(t)'
    BY <1>1, <1>2, <1>3, <2>1 DEF TypeOK, Doing, SlotInv, ReceiveInv, OnSlot
  <2>6. SendInv(t)'
    BY <1>1, <1>2, <1>3, <2>1 DEF TypeOK, Doing, SlotInv, SendInv, OnSlot, SendsOfNewest
  <2>7. QED
    BY <2>2, <2>3, <2>4, <2>5, <2>6 DEF SlotInv
<1>9. QED
  BY <1>6, <1>7, <1>8 DEF LivesInv

(* Close clears the connected flag first, *)
LEMMA CloseIsConnectInv ==
    ASSUME LivesInv, NEW w \in Workers, NEW s \in Slots, CloseIsConnect(w, s)
    PROVE  LivesInv'
<1>1. TypeOK /\ SlotInv(s)
  BY DEF LivesInv
<1>2. /\ UNCHANGED <<now, mLatestClosedTimeSec, socketVars, acceptIO, recvIO, sendIO,
                     mSendDataqueue, mPacketDataQueue, processThread, accepter, fault>>
      /\ mIsConnect' = [mIsConnect EXCEPT ![s] = FALSE]
      /\ worker[w].at = "closing" /\ worker[w].slot = s
  BY DEF CloseIsConnect, At, WorkerLeavesAlone, ioVars, packetVars
<1>3. /\ worker' \in [Workers -> WorkerStates]
      /\ worker' = [worker EXCEPT ![w] = Doing("stamping", s, worker[w].sock)]
  <2>1. /\ GoesTo(w, "stamping") /\ "stamping" \in WorkerStages
        /\ worker[w].sock \in Socks
    BY <1>1 DEF CloseIsConnect, WorkerStages, ClosingStages, TypeOK, WorkerStates
  <2>2. worker' = [worker EXCEPT ![w] = Doing("stamping", s, worker[w].sock)]
    BY <1>1, <1>2, <2>1, GoesToEffect
  <2>3. QED
    BY <1>1, <2>1, <2>2, WorkerType
<1>4. /\ Busy(s)
      /\ \A t \in Slots : Busy(t)' => Busy(t)
  BY <1>1, <1>2, <1>3 DEF Busy, Queued, Doing, TypeOK
<1>5. TypeOK' /\ OverlappedExclusive'
  BY <1>1, <1>2, <1>3 DEF LivesInv, TypeOK, OverlappedExclusive
<1>6. AccepterInv'
  BY <1>2, <1>4, AccepterFrame
<1>7. ASSUME NEW t \in Slots
      PROVE  SlotInv(t)'
  <2>1. SlotInv(t)
    BY DEF LivesInv
  <2>2. OneGeneration(t)'
    BY <1>1, <1>2, <1>3, <2>1 DEF TypeOK, Doing, SlotInv, OneGeneration, PacketsOfNewest
  <2>3. ClosedInv(t)'
    BY <1>1, <1>2, <1>3, <1>4, <2>1 DEF TypeOK, Doing, SlotInv, ClosedInv, OnSlot, Closed
  <2>4. OpeningInv(t)'
    BY <1>1, <1>2, <1>3, <1>4, <2>1 DEF TypeOK, Doing, SlotInv, OpeningInv, OnSlot, Closed, Queued
  <2>5. ReceiveInv(t)'
    BY <1>1, <1>2, <1>3, <2>1 DEF TypeOK, Doing, SlotInv, ReceiveInv, OnSlot
  <2>6. SendInv(t)'
    BY <1>1, <1>2, <1>3, <2>1 DEF TypeOK, Doing, SlotInv, SendInv, OnSlot, SendsOfNewest
  <2>7. QED
    BY <2>2, <2>3, <2>4, <2>5, <2>6 DEF SlotInv
<1>8. QED
  BY <1>5, <1>6, <1>7 DEF LivesInv

(* then stamps the time: from here the accepter may come to the slot, *)
LEMMA CloseStampInv ==
    ASSUME LivesInv, NEW w \in Workers, NEW s \in Slots, CloseStamp(w, s)
    PROVE  LivesInv'
<1>1. TypeOK /\ SlotInv(s)
  BY DEF LivesInv
<1>2. /\ UNCHANGED <<now, mIsConnect, socketVars, acceptIO, recvIO, sendIO,
                     mSendDataqueue, mPacketDataQueue, processThread, accepter, fault>>
      /\ mLatestClosedTimeSec' = [mLatestClosedTimeSec EXCEPT ![s] = now]
      /\ worker[w].at = "stamping" /\ worker[w].slot = s
  BY DEF CloseStamp, At, WorkerLeavesAlone, ioVars, packetVars
<1>3. /\ worker' \in [Workers -> WorkerStates]
      /\ worker' = [worker EXCEPT ![w] = Doing("closesocket", s, worker[w].sock)]
  <2>1. /\ GoesTo(w, "closesocket") /\ "closesocket" \in WorkerStages
        /\ worker[w].sock \in Socks
    BY <1>1 DEF CloseStamp, WorkerStages, ClosingStages, TypeOK, WorkerStates
  <2>2. worker' = [worker EXCEPT ![w] = Doing("closesocket", s, worker[w].sock)]
    BY <1>1, <1>2, <2>1, GoesToEffect
  <2>3. QED
    BY <1>1, <2>1, <2>2, WorkerType
<1>4. /\ Busy(s)
      /\ \A t \in Slots : Busy(t)' => Busy(t)
      /\ Closed(s)' /\ now \in Nat /\ DrainSec \in Nat
  BY <1>1, <1>2, <1>3, TimeAssumption DEF Busy, Queued, Doing, TypeOK, Closed, Queued, Doing, TypeOK
<1>5. TypeOK' /\ OverlappedExclusive'
  BY <1>1, <1>2, <1>3 DEF LivesInv, TypeOK, OverlappedExclusive
<1>6. AccepterInv'
  <2>1. \A t \in Slots : ~ Busy(t) => mLatestClosedTimeSec'[t] = mLatestClosedTimeSec[t]
    BY <1>1, <1>2, <1>4 DEF TypeOK
  <2>2. QED
    BY <1>2, <1>4, <2>1, AccepterFrame
<1>7. ASSUME NEW t \in Slots
      PROVE  SlotInv(t)'
  <2>1. SlotInv(t)
    BY DEF LivesInv
  <2>2. OneGeneration(t)'
    BY <1>1, <1>2, <1>3, <2>1 DEF TypeOK, Doing, SlotInv, OneGeneration, PacketsOfNewest
  <2>3. ClosedInv(t)'
    BY <1>1, <1>2, <1>3, <1>4, <2>1 DEF TypeOK, Doing, SlotInv, ClosedInv, OnSlot, Closed
  <2>4. OpeningInv(t)'
    BY <1>1, <1>2, <1>3, <1>4, <2>1 DEF TypeOK, Doing, SlotInv, OpeningInv, OnSlot, Closed, Queued
  <2>5. ReceiveInv(t)'
    BY <1>1, <1>2, <1>3, <2>1 DEF TypeOK, Doing, SlotInv, ReceiveInv, OnSlot
  <2>6. SendInv(t)'
    BY <1>1, <1>2, <1>3, <2>1 DEF TypeOK, Doing, SlotInv, SendInv, OnSlot, SendsOfNewest
  <2>7. QED
    BY <2>2, <2>3, <2>4, <2>5, <2>6 DEF SlotInv
<1>8. QED
  BY <1>5, <1>6, <1>7 DEF LivesInv

(* closes the socket, whatever socket that is by now, *)
LEMMA closesocketInv ==
    ASSUME LivesInv, NEW w \in Workers, NEW s \in Slots, closesocket(w, s)
    PROVE  LivesInv'
<1>1. TypeOK /\ SlotInv(s)
  BY DEF LivesInv
<1>2. /\ UNCHANGED <<now, mIsConnect, mLatestClosedTimeSec, mSocket, handle, gen, acceptIO,
                     recvIO, sendIO, mSendDataqueue, mPacketDataQueue, processThread,
                     accepter, fault>>
      /\ worker[w].at = "closesocket" /\ worker[w].slot = s
  BY DEF closesocket, At, WorkerLeavesAlone, ioVars, packetVars
<1>3. /\ worker' \in [Workers -> WorkerStates]
      /\ worker' = [worker EXCEPT ![w] = Doing("invalidate", s, worker[w].sock)]
  <2>1. /\ GoesTo(w, "invalidate") /\ "invalidate" \in WorkerStages
        /\ worker[w].sock \in Socks
    BY <1>1 DEF closesocket, WorkerStages, ClosingStages, TypeOK, WorkerStates
  <2>2. worker' = [worker EXCEPT ![w] = Doing("invalidate", s, worker[w].sock)]
    BY <1>1, <1>2, <2>1, GoesToEffect
  <2>3. QED
    BY <1>1, <2>1, <2>2, WorkerType
<1>4. /\ Busy(s)
      /\ \A t \in Slots : Busy(t)' => Busy(t)
  BY <1>1, <1>2, <1>3 DEF Busy, Queued, Doing, TypeOK
<1>5. TypeOK' /\ OverlappedExclusive'
  <2>1. 0 \in Socks
    BY BoundAssumption DEF Socks
  <2>2. /\ sockets' \in [Handles -> [slot : Slots \cup {NoSlot}, sock : Socks]]
        /\ hit' \subseteq Slots
    <3>1. CASE mSocket[s] = 0
      BY <1>1, <3>1 DEF closesocket, TypeOK
    <3>2. CASE mSocket[s] # 0
      <4>1. /\ sockets' = [sockets EXCEPT ![handle[s]] = Free]
            /\ hit' = hit \cup ({sockets[handle[s]].slot} \ {s, NoSlot})
            /\ Free \in [slot : Slots \cup {NoSlot}, sock : Socks]
        BY <2>1, <3>2 DEF closesocket, Free
      <4>2. sockets' \in [Handles -> [slot : Slots \cup {NoSlot}, sock : Socks]]
        BY <1>1, <4>1 DEF TypeOK
      <4>3. handle[s] \in Handles
        BY <1>1, <3>2 DEF TypeOK
      <4>4. QED
        BY <1>1, <4>1, <4>2, <4>3 DEF TypeOK
    <3>3. QED
      BY <3>1, <3>2
  <2>3. QED
    BY <1>1, <1>2, <1>3, <2>2 DEF LivesInv, TypeOK, OverlappedExclusive
<1>6. AccepterInv'
  BY <1>2, <1>4, AccepterFrame
<1>7. ASSUME NEW t \in Slots
      PROVE  SlotInv(t)'
  <2>1. SlotInv(t)
    BY DEF LivesInv
  <2>2. OneGeneration(t)'
    BY <1>1, <1>2, <1>3, <2>1 DEF TypeOK, Doing, SlotInv, OneGeneration, PacketsOfNewest
  <2>3. ClosedInv(t)'
    BY <1>1, <1>2, <1>3, <1>4, <2>1 DEF TypeOK, Doing, SlotInv, ClosedInv, OnSlot, Closed
  <2>4. OpeningInv(t)'
    BY <1>1, <1>2, <1>3, <1>4, <2>1 DEF TypeOK, Doing, SlotInv, OpeningInv, OnSlot, Closed, Queued
  <2>5. ReceiveInv(t)'
    BY <1>1, <1>2, <1>3, <2>1 DEF TypeOK, Doing, SlotInv, ReceiveInv, OnSlot
  <2>6. SendInv(t)'
    BY <1>1, <1>2, <1>3, <2>1 DEF TypeOK, Doing, SlotInv, SendInv, OnSlot, SendsOfNewest
  <2>7. QED
    BY <2>2, <2>3, <2>4, <2>5, <2>6 DEF SlotInv
<1>8. QED
  BY <1>5, <1>6, <1>7 DEF LivesInv

(* and forgets the socket last. *)
LEMMA InvalidateSocketInv ==
    ASSUME LivesInv, NEW w \in Workers, NEW s \in Slots, InvalidateSocket(w, s)
    PROVE  LivesInv'
<1>1. TypeOK /\ SlotInv(s)
  BY DEF LivesInv
<1>2. /\ UNCHANGED <<now, mIsConnect, mLatestClosedTimeSec, gen, sockets, hit, acceptIO,
                     recvIO, sendIO, mSendDataqueue, mPacketDataQueue, processThread, accepter,
                     fault>>
      /\ mSocket' = [mSocket EXCEPT ![s] = 0]
      /\ handle' = [handle EXCEPT ![s] = INVALID_SOCKET]
      /\ worker[w].at = "invalidate" /\ worker[w].slot = s
  BY DEF InvalidateSocket, At, WorkerLeavesAlone, ioVars, packetVars
<1>3. /\ worker' \in [Workers -> WorkerStates]
      /\ worker' = [worker EXCEPT ![w] = Doing("wait", NoSlot, 0)]
      /\ NoSlot \notin Slots
  <2>1. /\ worker' = [worker EXCEPT ![w] = Doing("wait", NoSlot, 0)]
        /\ "wait" \in WorkerStages /\ 0 \in Socks /\ NoSlot \notin Slots
    BY BoundAssumption, SlotAssumption DEF Done, Resting, Doing, WorkerStages, Socks,
       InvalidateSocket
  <2>2. QED
    BY <1>1, <2>1, WorkerType
<1>4. /\ Busy(s)
      /\ \A t \in Slots : Busy(t)' => Busy(t)
      /\ acceptIO[s] = 0 /\ ~ (accepter.at = "acceptEx" /\ accepter.slot = s)
      /\ \A v \in Workers : ~ OnSlot(v, s, {"accepted", "bindAccepted"})
  <2>1. /\ Busy(s)
        /\ \A t \in Slots : Busy(t)' => Busy(t)
    BY <1>1, <1>2, <1>3 DEF Busy, Queued, Doing, TypeOK
  <2>2. /\ acceptIO[s] = 0 /\ ~ (accepter.at = "acceptEx" /\ accepter.slot = s)
        /\ \A v \in Workers : ~ OnSlot(v, s, {"accepted", "bindAccepted"})
    BY <1>1, <1>2, <2>1 DEF SlotInv, OpeningInv, OnSlot
  <2>3. QED
    BY <2>1, <2>2
<1>5. TypeOK' /\ OverlappedExclusive'
  <2>1. 0 \in Socks
    BY BoundAssumption DEF Socks
  <2>2. QED
    BY <1>1, <1>2, <1>3, <2>1 DEF LivesInv, TypeOK, OverlappedExclusive
<1>6. AccepterInv'
  BY <1>2, <1>4, AccepterFrame
<1>7. ASSUME NEW t \in Slots
      PROVE  SlotInv(t)'
  <2>1. SlotInv(t)
    BY DEF LivesInv
  <2>2. OneGeneration(t)'
    BY <1>1, <1>2, <1>3, <2>1 DEF TypeOK, Doing, SlotInv, OneGeneration, PacketsOfNewest
  <2>3. ClosedInv(t)'
    BY <1>1, <1>2, <1>3, <1>4, <2>1 DEF TypeOK, Doing, SlotInv, ClosedInv, OnSlot, Closed
  <2>4. OpeningInv(t)'
    <3>1. CASE t # s
      <4>1. /\ mSocket'[t] = mSocket[t]
            /\ \A v \in Workers : worker'[v].slot = t => worker'[v] = worker[v]
        BY <1>1, <1>2, <1>3, <3>1 DEF TypeOK, Doing
      <4>2. QED
        BY <1>2, <1>4, <2>1, <4>1 DEF SlotInv, OpeningInv, OnSlot, Closed, Queued
    <3>2. CASE t = s
      <4>1. \A v \in Workers : ~ OnSlot(v, s, {"accepted", "bindAccepted"})'
        BY <1>1, <1>3, <1>4 DEF TypeOK, Doing, OnSlot
      <4>2. QED
        BY <1>1, <1>2, <1>4, <3>2, <4>1 DEF SlotInv, OpeningInv, OnSlot, Closed, Queued
    <3>3. QED
      BY <3>1, <3>2
  <2>5. ReceiveInv(t)'
    BY <1>1, <1>2, <1>3, <2>1 DEF TypeOK, Doing, SlotInv, ReceiveInv, OnSlot
  <2>6. SendInv(t)'
    BY <1>1, <1>2, <1>3, <2>1 DEF TypeOK, Doing, SlotInv, SendInv, OnSlot, SendsOfNewest
  <2>7. QED
    BY <2>2, <2>3, <2>4, <2>5, <2>6 DEF SlotInv
<1>8. QED
  BY <1>5, <1>6, <1>7 DEF LivesInv

(* Appending to a queue and taking its front keep the elements in between.    *)
LEMMA AppendElems ==
    ASSUME NEW S, NEW q \in Seq(S), NEW e \in S, NEW r, r = Append(q, e)
    PROVE  /\ r \in Seq(S) /\ r # << >> /\ Len(r) = Len(q) + 1
           /\ \A i \in 1 .. Len(r) : r[i] = IF i \in 1 .. Len(q) THEN q[i] ELSE e
  OBVIOUS

LEMMA TailElems ==
    ASSUME NEW S, NEW q \in Seq(S), q # << >>, NEW r, r = Tail(q)
    PROVE  /\ r \in Seq(S)
           /\ 1 \in 1 .. Len(q) /\ q[1] = Head(q) /\ Head(q) \in S
           /\ \A i \in 1 .. Len(r) : i + 1 \in 1 .. Len(q) /\ r[i] = q[i + 1]
  OBVIOUS

(* The worker that completed a send pops its block, and sends the next of     *)
(* the same connection if there is one.                                     *)
LEMMA SendCompletedInv ==
    ASSUME LivesInv, NEW w \in Workers, NEW s \in Slots, SendCompleted(w, s)
    PROVE  LivesInv'
<1>1. TypeOK /\ SlotInv(s)
  BY DEF LivesInv
<1>2. PICK k \in {0, mSocket[s]} :
         /\ UNCHANGED <<now, mIsConnect, mLatestClosedTimeSec, socketVars, acceptIO, recvIO,
                        mPacketDataQueue, processThread, accepter>>
         /\ fault' \in {fault, "foreignSocket"}
         /\ worker[w].at = "sendCompleted" /\ worker[w].slot = s
         /\ mSendDataqueue[s] # << >>
         /\ mSendDataqueue' = [mSendDataqueue EXCEPT ![s] = Tail(@)]
         /\ sendIO' = [sendIO EXCEPT ![s] = k]
         /\ Tail(mSendDataqueue[s]) = << >> => k = 0
  <2>1. /\ sendIO[s] = 0 /\ sendIO = [sendIO EXCEPT ![s] = 0]
        /\ worker[w].at = "sendCompleted" /\ worker[w].slot = s
    <3>1. worker[w].at = "sendCompleted" /\ worker[w].slot = s
      BY DEF SendCompleted, At
    <3>2. sendIO[s] = 0
      BY <1>1, <3>1 DEF SlotInv, SendInv, OnSlot
    <3>3. QED
      BY <1>1, <3>1, <3>2 DEF TypeOK
  <2>2. CASE sendIO' = sendIO
    BY <2>1, <2>2 DEF SendCompleted, SendIO, Misused, WorkerLeavesAlone, slotVars,
                            packetVars
  <2>3. CASE sendIO' # sendIO
    BY <2>1, <2>3 DEF SendCompleted, SendIO, Misused, WorkerLeavesAlone, slotVars,
                            packetVars
  <2>4. QED
    BY <2>2, <2>3
<1>3. /\ worker' \in [Workers -> WorkerStates]
      /\ worker' = [worker EXCEPT ![w] = Doing("wait", NoSlot, 0)]
      /\ NoSlot \notin Slots /\ 0 \in Socks
  <2>1. /\ worker' = [worker EXCEPT ![w] = Doing("wait", NoSlot, 0)]
        /\ "wait" \in WorkerStages /\ 0 \in Socks /\ NoSlot \notin Slots
    BY BoundAssumption, SlotAssumption
       DEF Done, Resting, Doing, WorkerStages, Socks, SendCompleted
  <2>2. QED
    BY <1>1, <2>1, WorkerType
<1>4. /\ Busy(s)
      /\ \A t \in Slots : Busy(t)' => Busy(t)
  BY <1>1, <1>2, <1>3 DEF Busy, Queued, Doing, TypeOK
<1>5. /\ mSendDataqueue'[s] \in Seq(Socks)
      /\ \A i \in 1 .. Len(mSendDataqueue'[s]) : mSendDataqueue'[s][i] = gen[s]
      /\ k # 0 => mSendDataqueue'[s] # << >>
      /\ sendIO[s] = 0
      /\ \A v \in Workers : OnSlot(v, s, {"sendCompleted"}) => v = w
  <2>1. /\ mSendDataqueue[s] \in Seq(Socks)
        /\ mSendDataqueue'[s] = Tail(mSendDataqueue[s])
    BY <1>1, <1>2 DEF TypeOK
  <2>2. /\ \A i \in 1 .. Len(mSendDataqueue[s]) : mSendDataqueue[s][i] = gen[s]
        /\ sendIO[s] = 0
        /\ \A v \in Workers : OnSlot(v, s, {"sendCompleted"}) => v = w
    BY <1>1, <1>2 DEF SlotInv, SendInv, SendsOfNewest, OnSlot
  <2>3. QED
    BY <1>2, <2>1, <2>2, TailElems
<1>6. TypeOK' /\ OverlappedExclusive'
  <2>1. k \in Socks
    BY <1>1, <1>3 DEF TypeOK
  <2>2. mSendDataqueue' \in [Slots -> Seq(Socks)]
    BY <1>1, <1>2, <1>5 DEF TypeOK
  <2>3. QED
    BY <1>1, <1>2, <1>3, <2>1, <2>2 DEF LivesInv, TypeOK, OverlappedExclusive
<1>7. AccepterInv'
  BY <1>2, <1>4, AccepterFrame
<1>8. ASSUME NEW t \in Slots
      PROVE  SlotInv(t)'
  <2>1. SlotInv(t)
    BY DEF LivesInv
  <2>2. OneGeneration(t)'
    BY <1>1, <1>2, <1>3, <2>1 DEF TypeOK, Doing, SlotInv, OneGeneration, PacketsOfNewest
  <2>3. ClosedInv(t)'
    BY <1>1, <1>2, <1>3, <1>4, <2>1 DEF TypeOK, Doing, SlotInv, ClosedInv, OnSlot, Closed
  <2>4. OpeningInv(t)'
    <3>1. CASE t # s
      <4>1. /\ sendIO'[t] = sendIO[t]
            /\ \A v \in Workers : worker'[v].slot = t => worker'[v] = worker[v]
        BY <1>1, <1>2, <1>3, <3>1 DEF TypeOK, Doing
      <4>2. QED
        BY <1>2, <1>4, <2>1, <4>1 DEF SlotInv, OpeningInv, OnSlot, Closed, Queued
    <3>2. CASE t = s
      <4>1. /\ acceptIO[s] = 0 /\ ~ (accepter.at = "acceptEx" /\ accepter.slot = s)
            /\ \A v \in Workers : ~ OnSlot(v, s, {"accepted", "bindAccepted"})
        BY <1>1, <1>2, <1>4 DEF SlotInv, OpeningInv, OnSlot
      <4>2. \A v \in Workers : ~ OnSlot(v, s, {"accepted", "bindAccepted"})'
        BY <1>1, <1>3, <4>1 DEF TypeOK, Doing, OnSlot
      <4>3. QED
        BY <1>1, <1>2, <3>2, <4>1, <4>2 DEF OpeningInv, OnSlot
    <3>3. QED
      BY <3>1, <3>2
  <2>5. ReceiveInv(t)'
    BY <1>1, <1>2, <1>3, <2>1 DEF TypeOK, Doing, SlotInv, ReceiveInv, OnSlot
  <2>6. SendInv(t)'
    <3>1. CASE t # s
      <4>1. /\ sendIO'[t] = sendIO[t] /\ mSendDataqueue'[t] = mSendDataqueue[t]
            /\ gen'[t] = gen[t]
            /\ \A v \in Workers : worker'[v].slot = t => worker'[v] = worker[v]
        BY <1>1, <1>2, <1>3, <3>1 DEF TypeOK, Doing
      <4>2. QED
        BY <2>1, <4>1 DEF SlotInv, SendInv, SendsOfNewest, OnSlot
    <3>2. CASE t = s
      <4>1. \A v \in Workers : ~ OnSlot(v, s, {"sendCompleted"})'
        BY <1>1, <1>3, <1>5 DEF TypeOK, Doing, OnSlot
      <4>2. sendIO'[s] = k /\ gen'[s] = gen[s]
        BY <1>1, <1>2 DEF TypeOK
      <4>3. QED
        BY <1>5, <3>2, <4>1, <4>2 DEF SendInv, SendsOfNewest
    <3>3. QED
      BY <3>1, <3>2
  <2>7. QED
    BY <2>2, <2>3, <2>4, <2>5, <2>6 DEF SlotInv
<1>9. QED
  BY <1>6, <1>7, <1>8 DEF LivesInv

(* The packet thread takes a packet: it is about the slot's newest socket. *)
LEMMA DequePacketDataInv ==
    ASSUME LivesInv, DequePacketData
    PROVE  LivesInv'
<1>1. TypeOK
  BY DEF LivesInv
<1> DEFINE p == Head(mPacketDataQueue)
<1>2. /\ UNCHANGED <<now, mIsConnect, mLatestClosedTimeSec, socketVars, acceptIO, recvIO,
                     sendIO, mSendDataqueue, worker, accepter, fault>>
      /\ processThread.at = "wait"
      /\ mPacketDataQueue # << >>
      /\ mPacketDataQueue' = Tail(mPacketDataQueue)
      /\ processThread' = Doing("sendMsg", p.slot, p.sock)
  BY DEF DequePacketData, slotVars, ioVars
<1>3. /\ mPacketDataQueue \in Seq(Packets)
      /\ mPacketDataQueue' \in Seq(Packets)
      /\ 1 \in 1 .. Len(mPacketDataQueue) /\ mPacketDataQueue[1] = p /\ p \in Packets
      /\ \A i \in 1 .. Len(mPacketDataQueue') :
             /\ i + 1 \in 1 .. Len(mPacketDataQueue)
             /\ mPacketDataQueue'[i] = mPacketDataQueue[i + 1]
  <2>1. mPacketDataQueue \in Seq(Packets)
    BY <1>1 DEF TypeOK
  <2>2. QED
    BY <1>2, <2>1, TailElems
<1> HIDE DEF p
<1>4. p.slot \in Slots /\ p.sock \in Socks /\ Queued(p.slot)
  BY <1>3 DEF Packets, Queued
<1>5. /\ processThread'.slot = p.slot /\ processThread'.sock = p.sock
      /\ processThread' \in [at : {"wait", "sendMsg"}, slot : Slots \cup {NoSlot}, sock : Socks]
  BY <1>2, <1>4 DEF Doing
<1>6. \A t \in Slots : /\ Queued(t)' => Queued(t)
                       /\ PacketsOfNewest(t) => PacketsOfNewest(t)'
                       /\ PacketsOfNewest(t) /\ p.slot = t => p.sock = gen[t]
  BY <1>2, <1>3 DEF Queued, PacketsOfNewest
<1>7. \A t \in Slots : Busy(t)' => Busy(t)
  BY <1>2, <1>4, <1>5, <1>6 DEF Busy
<1>8. TypeOK' /\ OverlappedExclusive'
  BY <1>1, <1>2, <1>3, <1>5 DEF LivesInv, TypeOK, OverlappedExclusive
<1>9. AccepterInv'
  BY <1>2, <1>7, AccepterFrame
<1>10. ASSUME NEW t \in Slots
       PROVE  SlotInv(t)'
  <2>1. SlotInv(t)
    BY DEF LivesInv
  <2>2. OneGeneration(t)'
    BY <1>2, <1>5, <1>6, <2>1 DEF SlotInv, OneGeneration
  <2>3. ClosedInv(t)'
    BY <1>2, <1>7, <2>1 DEF SlotInv, ClosedInv, OnSlot, Closed
  <2>4. OpeningInv(t)'
    BY <1>2, <1>4, <1>5, <1>6, <1>7, <2>1 DEF SlotInv, OpeningInv, OnSlot, Closed
  <2>5. ReceiveInv(t)' /\ SendInv(t)'
    BY <1>2, <2>1 DEF SlotInv, ReceiveInv, SendInv, SendsOfNewest, OnSlot
  <2>6. QED
    BY <2>2, <2>3, <2>4, <2>5 DEF SlotInv
<1>11. QED
  BY <1>8, <1>9, <1>10 DEF LivesInv

(* And queues it as a block of that connection, the front one if there is no  *)
(* other.                                                                   *)
LEMMA SendMsgInv ==
    ASSUME LivesInv, NEW s \in Slots, SendMsg(s)
    PROVE  LivesInv'
<1>1. TypeOK /\ SlotInv(s)
  BY DEF LivesInv
<1>2. PICK k \in {sendIO[s], mSocket[s]} :
         /\ UNCHANGED <<now, mIsConnect, mLatestClosedTimeSec, socketVars, acceptIO, recvIO,
                        mPacketDataQueue, worker, accepter>>
         /\ fault' \in {fault, "foreignSocket"}
         /\ processThread.slot = s
         /\ processThread' = Resting
         /\ mSendDataqueue' = [mSendDataqueue EXCEPT ![s] = Append(@, processThread.sock)]
         /\ sendIO' = [sendIO EXCEPT ![s] = k]
         /\ mSendDataqueue[s] # << >> => k = sendIO[s]
  <2>1. sendIO = [sendIO EXCEPT ![s] = sendIO[s]]
    BY <1>1 DEF TypeOK
  <2>2. CASE sendIO' = sendIO
    BY <2>1, <2>2 DEF SendMsg, SendIO, Misused, slotVars
  <2>3. CASE sendIO' # sendIO
    BY <2>3 DEF SendMsg, SendIO, Misused, slotVars
  <2>4. QED
    BY <2>2, <2>3
<1>3. /\ 0 \in Socks /\ NoSlot \notin Slots /\ k \in Socks
      /\ processThread'.slot = NoSlot
      /\ processThread' \in [at : {"wait", "sendMsg"}, slot : Slots \cup {NoSlot}, sock : Socks]
  BY <1>1, <1>2, BoundAssumption, SlotAssumption DEF TypeOK, Socks, Resting
<1>4. /\ Busy(s)
      /\ \A t \in Slots : Busy(t)' => Busy(t)
  BY <1>1, <1>2, <1>3 DEF Busy, Queued, TypeOK
<1>5. /\ mSendDataqueue'[s] \in Seq(Socks) /\ mSendDataqueue'[s] # << >>
      /\ SendsOfNewest(s) \/ mSendDataqueue[s] = << >>
            => \A i \in 1 .. Len(mSendDataqueue'[s]) : mSendDataqueue'[s][i] = gen[s]
  <2>1. /\ mSendDataqueue[s] \in Seq(Socks)
        /\ mSendDataqueue'[s] = Append(mSendDataqueue[s], processThread.sock)
        /\ processThread.sock \in Socks
        /\ processThread.sock = gen[s]
    BY <1>1, <1>2 DEF TypeOK, SlotInv, OneGeneration
  <2>2. /\ mSendDataqueue'[s] \in Seq(Socks) /\ mSendDataqueue'[s] # << >>
        /\ \A i \in 1 .. Len(mSendDataqueue'[s]) :
               mSendDataqueue'[s][i] = IF i \in 1 .. Len(mSendDataqueue[s])
                                         THEN mSendDataqueue[s][i] ELSE processThread.sock
    BY <2>1, AppendElems
  <2>3. mSendDataqueue[s] = << >> => Len(mSendDataqueue[s]) = 0
    OBVIOUS
  <2>4. QED
    BY <2>1, <2>2, <2>3 DEF SendsOfNewest
<1>6. TypeOK' /\ OverlappedExclusive'
  <2>1. mSendDataqueue' \in [Slots -> Seq(Socks)]
    BY <1>1, <1>2, <1>5 DEF TypeOK
  <2>2. QED
    BY <1>1, <1>2, <1>3, <2>1 DEF LivesInv, TypeOK, OverlappedExclusive
<1>7. AccepterInv'
  BY <1>2, <1>4, AccepterFrame
<1>8. ASSUME NEW t \in Slots
      PROVE  SlotInv(t)'
  <2>1. SlotInv(t)
    BY DEF LivesInv
  <2>2. OneGeneration(t)'
    BY <1>1, <1>2, <1>3, <2>1 DEF TypeOK, SlotInv, OneGeneration, PacketsOfNewest
  <2>3. ClosedInv(t)'
    BY <1>2, <1>4, <2>1 DEF SlotInv, ClosedInv, OnSlot, Closed
  <2>4. OpeningInv(t)'
    BY <1>1, <1>2, <1>3, <1>4, <2>1 DEF TypeOK, SlotInv, OpeningInv, OnSlot, Closed, Queued
  <2>5. ReceiveInv(t)'
    BY <1>2, <2>1 DEF SlotInv, ReceiveInv, OnSlot
  <2>6. SendInv(t)'
    <3>1. CASE t # s
      <4>1. /\ sendIO'[t] = sendIO[t] /\ mSendDataqueue'[t] = mSendDataqueue[t]
            /\ gen'[t] = gen[t]
        BY <1>1, <1>2, <3>1 DEF TypeOK
      <4>2. QED
        BY <1>2, <2>1, <4>1 DEF SlotInv, SendInv, SendsOfNewest, OnSlot
    <3>2. CASE t = s
      <4>1. sendIO'[s] = k /\ gen'[s] = gen[s]
        BY <1>1, <1>2 DEF TypeOK
      <4>2. ASSUME \/ sendIO'[s] # 0
                   \/ \E w \in Workers : OnSlot(w, s, {"sendCompleted"})
            PROVE  SendsOfNewest(s) \/ mSendDataqueue[s] = << >>
        BY <1>1, <1>2, <4>1, <4>2 DEF SlotInv, SendInv
      <4>3. ASSUME NEW w \in Workers, OnSlot(w, s, {"sendCompleted"})
            PROVE  sendIO'[s] = 0
        BY <1>1, <1>2, <4>1, <4>3 DEF SlotInv, SendInv, SendsOfNewest
      <4>4. \A v, w \in Workers : OnSlot(v, s, {"sendCompleted"}) /\ OnSlot(w, s, {"sendCompleted"})
                                      => v = w
        BY <1>1 DEF SlotInv, SendInv
      <4>5. \A w \in Workers : OnSlot(w, s, {"sendCompleted"})' <=> OnSlot(w, s, {"sendCompleted"})
        BY <1>2 DEF OnSlot
      <4>6. QED
        BY <1>5, <3>2, <4>1, <4>2, <4>3, <4>4, <4>5 DEF SendInv, SendsOfNewest
    <3>3. QED
      BY <3>1, <3>2
  <2>7. QED
    BY <2>2, <2>3, <2>4, <2>5, <2>6 DEF SlotInv
<1>9. QED
  BY <1>6, <1>7, <1>8 DEF LivesInv

------------------------------------------------------------------------------
(* A new pool satisfies the invariant: nothing is open. *)
LEMMA InitLives ==
    ASSUME Init
    PROVE  LivesInv
<1>1. /\ 0 \in Socks /\ 0 \in 0 .. MaxTime /\ NoSlot \notin Slots
      /\ UINT32_MAX # 0
  BY TimeAssumption, BoundAssumption, SlotAssumption DEF Socks
<1>2. TypeOK
  BY <1>1, TimeAssumption
     DEF Init, TypeOK, Resting, Free, WorkerStates, WorkerStages, AccepterStates
<1>3. \A t \in Slots : ~ Busy(t) /\ ~ Queued(t)
  BY <1>1 DEF Init, Busy, Queued, Resting
<1>4. OverlappedExclusive /\ AccepterInv
  BY <1>1, <1>2 DEF Init, OverlappedExclusive, AccepterInv, TypeOK
<1>5. ASSUME NEW t \in Slots
      PROVE  SlotInv(t)
  BY <1>1, <1>2, <1>3, <1>5
     DEF Init, Resting, SlotInv, OneGeneration, PacketsOfNewest, ClosedInv, OpeningInv,
         ReceiveInv, SendInv, OnSlot, Closed, TypeOK
<1>6. QED
  BY <1>2, <1>4, <1>5 DEF LivesInv

(* Every step keeps it. *)
LEMMA NextLives ==
    ASSUME LivesInv, ~ LoadsTwice, [Next]_vars
    PROVE  LivesInv'
<1>1. CASE Tick
  BY <1>1, TickInv
<1>2. CASE AccepterStep
  BY <1>2, ScanInv, PostAcceptInv, AcceptExInv DEF AccepterStep
<1>3. ASSUME NEW w \in Workers, NEW s \in Slots, TakeStep(w, s)
      PROVE  LivesInv'
  BY <1>3, TakeAcceptInv, TakeFailedAcceptInv, TakeReceiveInv, TakeFailedReceiveInv,
     TakeSentInv, TakeFailedSendInv DEF TakeStep
<1>4. ASSUME NEW w \in Workers, NEW s \in Slots, WorkerStep(w, s)
      PROVE  LivesInv'
  <2>1. CASE BindAccepted(w, s)
    <3>1. /\ At(w, "bindAccepted", s) /\ WorkerLeavesAlone
          /\ UNCHANGED <<mIsConnect, mLatestClosedTimeSec, socketVars, mSendDataqueue, acceptIO,
                         sendIO, packetVars>>
          /\ \/ PostReceive(s) /\ Done(w)
             \/ GoesTo(w, "closing") /\ ReceiveRefused(s)
      BY <2>1 DEF BindAccepted
    <3>2. CASE PostReceive(s) /\ Done(w)
      BY <3>1, <3>2, PostReceiveInv
    <3>3. CASE GoesTo(w, "closing") /\ ReceiveRefused(s)
      BY <3>1, <3>3, BindFailedInv
    <3>4. QED
      BY <3>1, <3>2, <3>3
  <2>2. CASE BindRecv(w, s)
    <3>1. /\ At(w, "bindRecv", s) /\ WorkerLeavesAlone /\ Done(w)
          /\ UNCHANGED <<mIsConnect, mLatestClosedTimeSec, socketVars, mSendDataqueue, acceptIO,
                         sendIO, packetVars>>
          /\ PostReceive(s) \/ ReceiveRefused(s)
      BY <2>2 DEF BindRecv
    <3>2. CASE PostReceive(s)
      BY <3>1, <3>2, PostReceiveInv
    <3>3. CASE ReceiveRefused(s)
      BY <3>1, <3>3, RebindFailedInv
    <3>4. QED
      BY <3>1, <3>2, <3>3
  <2>3. QED
    BY <1>4, <2>1, <2>2, OnConnectInv, OnReceiveInv, CloseIsConnectInv, CloseStampInv,
       closesocketInv, InvalidateSocketInv, SendCompletedInv DEF WorkerStep
<1>5. CASE ProcessStep
  BY <1>5, DequePacketDataInv, SendMsgInv DEF ProcessStep
<1>6. CASE UNCHANGED vars
  BY <1>6 DEF vars, slotVars, ioVars, packetVars, LivesInv, TypeOK, OverlappedExclusive,
              AccepterInv, SlotInv, OneGeneration, PacketsOfNewest, ClosedInv, OpeningInv,
              ReceiveInv, SendInv, SendsOfNewest, OnSlot, Closed, Busy, Queued
<1>7. QED
  BY <1>1, <1>2, <1>3, <1>4, <1>5, <1>6 DEF Next

------------------------------------------------------------------------------
(* The sockets themselves: three actions change one, and a worker gets to     *)
(* and leaves "invalidate" by two of them.                                  *)
LEMMA SocketFrame ==
    ASSUME LivesInv, [Next]_vars,
           ~ \E s \in Slots : PostAccept(s),
           ~ \E w \in Workers, s \in Slots : closesocket(w, s) \/ InvalidateSocket(w, s)
    PROVE  /\ UNCHANGED socketVars
           /\ \A w \in Workers, t \in Slots :
                  OnSlot(w, t, {"invalidate"})' <=> OnSlot(w, t, {"invalidate"})
<1>1. worker \in [Workers -> WorkerStates]
  BY DEF LivesInv, TypeOK
<1>2. CASE UNCHANGED <<socketVars, worker>>
  BY <1>2 DEF OnSlot
<1>3. Tick \/ AccepterStep \/ ProcessStep \/ UNCHANGED vars => UNCHANGED <<socketVars, worker>>
  BY DEF Tick, AccepterStep, AccepterLeavesAlone, StartSweep, EndSweep, CheckConnected,
         CheckClosedTime, CheckWait, AcceptEx, ProcessStep, DequePacketData, SendMsg, slotVars,
         vars
<1>4. ASSUME NEW w \in Workers, NEW s \in Slots, TakeStep(w, s)
      PROVE  /\ UNCHANGED socketVars
             /\ \A v \in Workers, t \in Slots :
                    OnSlot(v, t, {"invalidate"})' <=> OnSlot(v, t, {"invalidate"})
  <2>1. /\ UNCHANGED socketVars
        /\ worker[w].at = "wait"
        /\ \/ worker' = worker
           \/ \E at \in {"accepted", "onReceive", "sendCompleted", "closing"}, k \in Socks :
                  worker' = [worker EXCEPT ![w] = Doing(at, s, k)]
    BY <1>4 DEF TakeStep, TakeAccept, TakeFailedAccept, TakeReceive, TakeSent,
                TakeFailedReceive, TakeFailedSend, LivesInv, TypeOK
  <2>2. QED
    BY <1>1, <2>1 DEF OnSlot, Doing
<1>5. ASSUME NEW w \in Workers, NEW s \in Slots, WorkerStep(w, s)
      PROVE  /\ UNCHANGED socketVars
             /\ \A v \in Workers, t \in Slots :
                    OnSlot(v, t, {"invalidate"})' <=> OnSlot(v, t, {"invalidate"})
  <2>1. /\ UNCHANGED socketVars
        /\ worker[w].at # "invalidate"
    BY <1>5 DEF WorkerStep, OnConnect, BindAccepted, OnReceive, BindRecv, CloseIsConnect,
                CloseStamp, SendCompleted, slotVars, At
  <2>2. \/ Done(w)
        \/ \E at \in {"bindAccepted", "closing", "bindRecv", "stamping", "closesocket"} :
               GoesTo(w, at)
    BY <1>5 DEF WorkerStep, OnConnect, BindAccepted, OnReceive, BindRecv, CloseIsConnect,
                CloseStamp, SendCompleted
  <2>3. CASE Done(w)
    BY <1>1, <2>1, <2>3 DEF Done, Resting, OnSlot
  <2>4. ASSUME NEW at \in {"bindAccepted", "closing", "bindRecv", "stamping", "closesocket"},
               GoesTo(w, at)
        PROVE  \A v \in Workers, t \in Slots :
                   OnSlot(v, t, {"invalidate"})' <=> OnSlot(v, t, {"invalidate"})
    BY <1>1, <2>1, <2>4 DEF GoesTo, OnSlot, WorkerStates
  <2>5. QED
    BY <2>1, <2>2, <2>3, <2>4
<1>6. QED
  BY <1>2, <1>3, <1>4, <1>5 DEF Next

(* WSASocket for a drained slot: none of its old sockets is open, so the new  *)
(* one is the only one, and a free handle is nobody else's.                 *)
LEMMA PostAcceptSockets ==
    ASSUME PoolInv, NEW s \in Slots, PostAccept(s), NEW t \in Slots
    PROVE  SocketInv(t)'
<1>1. TypeOK /\ SlotInv(s) /\ SocketInv(s) /\ SocketInv(t) /\ NoSlot \notin Slots
  BY SlotAssumption DEF PoolInv, LivesInv
<1>2. /\ ~ Busy(s)
      /\ mLatestClosedTimeSec[s] + RE_USE_SESSION_WAIT_TIMESEc < now
  BY DEF PostAccept, PoolInv, LivesInv, AccepterInv
<1>3. mSocket[s] = 0
  <2>1. Closed(s)
    BY <1>1, <1>2, TimeAssumption DEF TypeOK, Closed
  <2>2. QED
    BY <1>1, <1>2, <2>1 DEF SlotInv, ClosedInv, OnSlot, Busy
<1>4. \A h \in Handles : sockets[h].slot # s
  BY <1>1, <1>3 DEF SocketInv
<1>5. worker' = worker /\ \A w \in Workers : worker[w].slot # s
  BY <1>2 DEF PostAccept, AccepterLeavesAlone, Busy
<1>6. CASE /\ mSocket' = [mSocket EXCEPT ![s] = 0]
           /\ handle' = [handle EXCEPT ![s] = INVALID_SOCKET]
           /\ UNCHANGED <<gen, sockets, hit>>
  <2>1. CASE t = s
    BY <1>1, <1>4, <1>6, <2>1 DEF SocketInv, TypeOK
  <2>2. CASE t # s
    <3>1. mSocket'[t] = mSocket[t] /\ handle'[t] = handle[t]
      BY <1>1, <1>6, <2>2 DEF TypeOK
    <3>2. QED
      BY <1>1, <1>5, <1>6, <3>1 DEF SocketInv, IsOpen, OnSlot
  <2>3. QED
    BY <2>1, <2>2
<1>7. ASSUME NEW h \in Handles, sockets[h] = Free,
             gen' = [gen EXCEPT ![s] = @ + 1],
             mSocket' = [mSocket EXCEPT ![s] = gen[s] + 1],
             sockets' = [sockets EXCEPT ![h] = [slot |-> s, sock |-> gen[s] + 1]],
             handle' = [handle EXCEPT ![s] = h],
             hit' = hit \ {s}
      PROVE  SocketInv(t)'
  <2>1. sockets'[h] = [slot |-> s, sock |-> gen[s] + 1]
    BY <1>1, <1>7 DEF TypeOK
  <2>2. \A g \in Handles : g # h => sockets'[g] = sockets[g]
    BY <1>1, <1>7 DEF TypeOK
  <2>3. CASE t = s
    <3>1. gen[s] \in Nat
      BY <1>1, BoundAssumption DEF TypeOK, Socks
    <3>2. mSocket'[s] = gen[s] + 1 /\ gen'[s] = gen[s] + 1 /\ handle'[s] = h /\ gen[s] + 1 # 0
      BY <1>1, <1>7, <3>1 DEF TypeOK
    <3>3. \A g \in Handles : sockets'[g].slot = s => g = h
      BY <1>4, <2>2
    <3>4. IsOpen(s)'
      BY <2>1, <3>2 DEF IsOpen
    <3>5. \A w \in Workers : ~ OnSlot(w, s, {"invalidate"})'
      BY <1>5 DEF OnSlot
    <3>6. QED
      BY <2>1, <2>3, <3>2, <3>3, <3>4, <3>5 DEF SocketInv
  <2>4. CASE t # s
    <3>1. mSocket'[t] = mSocket[t] /\ gen'[t] = gen[t] /\ handle'[t] = handle[t]
      BY <1>1, <1>7, <2>4 DEF TypeOK
    <3>2. \A g \in Handles : sockets'[g].slot = t => sockets[g].slot = t /\ sockets'[g] = sockets[g]
      BY <2>1, <2>2, <2>4
    <3>3. IsOpen(t) => IsOpen(t)'
      <4>1. SUFFICES ASSUME IsOpen(t)
                     PROVE  IsOpen(t)'
        OBVIOUS
      <4>2. handle[t] \in Handles /\ sockets[handle[t]].slot = t
        BY <1>1, <4>1 DEF IsOpen, TypeOK
      <4>3. handle[t] # h
        BY <1>1, <1>7, <4>2 DEF Free
      <4>4. QED
        BY <2>2, <3>1, <4>1, <4>2, <4>3 DEF IsOpen
    <3>4. \A w \in Workers : OnSlot(w, t, {"invalidate"})' <=> OnSlot(w, t, {"invalidate"})
      BY <1>5 DEF OnSlot
    <3>5. t \in hit => t \in hit'
      BY <1>7, <2>4
    <3>6. QED
      BY <1>1, <3>1, <3>2, <3>3, <3>4, <3>5 DEF SocketInv
  <2>5. QED
    BY <2>3, <2>4
<1>8. QED
  BY <1>6, <1>7 DEF PostAccept

(* closesocket: a slot that loses its socket to it is this one, or is hit. *)
LEMMA ClosesocketSockets ==
    ASSUME PoolInv, NEW w \in Workers, NEW s \in Slots, closesocket(w, s), NEW t \in Slots
    PROVE  SocketInv(t)'
<1>1. TypeOK /\ SocketInv(s) /\ SocketInv(t) /\ NoSlot \notin Slots
  BY SlotAssumption DEF PoolInv, LivesInv
<1>2. UNCHANGED <<mSocket, handle, gen>>
  BY DEF closesocket
<1>3. /\ OnSlot(w, s, {"invalidate"})'
      /\ t # s => \A v \in Workers : OnSlot(v, t, {"invalidate"})' <=> OnSlot(v, t, {"invalidate"})
  BY <1>1 DEF closesocket, At, GoesTo, OnSlot, TypeOK, WorkerStates
<1>4. CASE mSocket[s] = 0
  <2>1. UNCHANGED <<sockets, hit>>
    BY <1>4 DEF closesocket
  <2>2. CASE t = s
    BY <1>1, <1>2, <1>4, <2>1, <2>2 DEF SocketInv
  <2>3. CASE t # s
    BY <1>1, <1>2, <1>3, <2>1, <2>3 DEF SocketInv, IsOpen
  <2>4. QED
    BY <2>2, <2>3
<1>5. CASE mSocket[s] # 0
  <2>1. /\ handle[s] \in Handles
        /\ sockets'[handle[s]].slot = NoSlot
        /\ \A g \in Handles : g # handle[s] => sockets'[g] = sockets[g]
        /\ hit' = hit \cup ({sockets[handle[s]].slot} \ {s, NoSlot})
    BY <1>1, <1>5 DEF closesocket, Free, TypeOK
  <2>2. \A g \in Handles : sockets'[g].slot = t
            => g # handle[s] /\ sockets[g].slot = t /\ sockets'[g] = sockets[g]
    BY <1>1, <2>1
  <2>3. CASE t = s
    BY <1>1, <1>2, <1>3, <2>2, <2>3 DEF SocketInv
  <2>4. CASE t # s
    <3>1. IsOpen(t) => IsOpen(t)' \/ t \in hit'
      <4>1. SUFFICES ASSUME IsOpen(t)
                     PROVE  IsOpen(t)' \/ t \in hit'
        OBVIOUS
      <4>2. handle[t] \in Handles /\ sockets[handle[t]].slot = t
        BY <1>1, <4>1 DEF IsOpen, TypeOK
      <4>3. CASE handle[t] = handle[s]
        BY <1>1, <2>1, <2>4, <4>2, <4>3
      <4>4. CASE handle[t] # handle[s]
        BY <1>2, <2>1, <4>1, <4>2, <4>4 DEF IsOpen
      <4>5. QED
        BY <4>3, <4>4
    <3>2. t \in hit => t \in hit'
      BY <2>1
    <3>3. QED
      BY <1>1, <1>2, <1>3, <2>2, <2>4, <3>1, <3>2 DEF SocketInv
  <2>5. QED
    BY <2>3, <2>4
<1>6. QED
  BY <1>4, <1>5

(* mSocket is set back when no socket of the slot is open. *)
LEMMA InvalidateSockets ==
    ASSUME PoolInv, NEW w \in Workers, NEW s \in Slots, InvalidateSocket(w, s), NEW t \in Slots
    PROVE  SocketInv(t)'
<1>1. TypeOK /\ SocketInv(s) /\ SocketInv(t) /\ NoSlot \notin Slots
  BY SlotAssumption DEF PoolInv, LivesInv
<1>2. /\ UNCHANGED <<gen, sockets, hit>>
      /\ mSocket' = [mSocket EXCEPT ![s] = 0]
      /\ handle' = [handle EXCEPT ![s] = INVALID_SOCKET]
      /\ OnSlot(w, s, {"invalidate"})
      /\ worker' = [worker EXCEPT ![w] = Resting]
  BY DEF InvalidateSocket, At, Done, OnSlot
<1>3. CASE t = s
  <2>1. \A h \in Handles : sockets[h].slot # s
    BY <1>1, <1>2 DEF SocketInv
  <2>2. QED
    BY <1>1, <1>2, <1>3, <2>1 DEF SocketInv, TypeOK
<1>4. CASE t # s
  <2>1. /\ mSocket'[t] = mSocket[t] /\ handle'[t] = handle[t]
        /\ \A v \in Workers : OnSlot(v, t, {"invalidate"})' <=> OnSlot(v, t, {"invalidate"})
    BY <1>1, <1>2, <1>4 DEF TypeOK, OnSlot, Resting
  <2>2. QED
    BY <1>1, <1>2, <2>1 DEF SocketInv, IsOpen
<1>5. QED
  BY <1>3, <1>4

(* A new pool satisfies the invariant. *)
LEMMA InitInv ==
    ASSUME Init
    PROVE  PoolInv
<1>1. ASSUME NEW s \in Slots
      PROVE  SocketInv(s)
  BY SlotAssumption DEF Init, Free, SocketInv
<1>2. QED
  BY <1>1, InitLives DEF PoolInv

(* Every step keeps it. *)
LEMMA NextInv ==
    ASSUME PoolInv, ~ LoadsTwice, [Next]_vars
    PROVE  PoolInv'
<1>1. LivesInv /\ LivesInv'
  BY NextLives DEF PoolInv
<1>2. ASSUME NEW t \in Slots
      PROVE  SocketInv(t)'
  <2>1. CASE \E s \in Slots : PostAccept(s)
    BY <2>1, PostAcceptSockets
  <2>2. CASE \E w \in Workers, s \in Slots : closesocket(w, s) \/ InvalidateSocket(w, s)
    BY <2>2, ClosesocketSockets, InvalidateSockets
  <2>3. CASE /\ ~ \E s \in Slots : PostAccept(s)
             /\ ~ \E w \in Workers, s \in Slots : closesocket(w, s) \/ InvalidateSocket(w, s)
    <3>1. /\ UNCHANGED socketVars
          /\ \A w \in Workers : OnSlot(w, t, {"invalidate"})' <=> OnSlot(w, t, {"invalidate"})
      BY <1>1, <2>3, SocketFrame
    <3>2. SocketInv(t)
      BY DEF PoolInv
    <3>3. QED
      BY <3>1, <3>2 DEF SocketInv, IsOpen
  <2>4. QED
    BY <2>1, <2>2, <2>3
<1>3. QED
  BY <1>1, <1>2 DEF PoolInv

(* PoolInv holds of every reachable state of a build that reads the closed    *)
(* time once: all the theorems below are read off it.                       *)
THEOREM PoolInvariant == ~ LoadsTwice => (Spec => []PoolInv)
<1>1. SUFFICES ASSUME ~ LoadsTwice
               PROVE  Spec => []PoolInv
  OBVIOUS
<1>2. Init => PoolInv
  BY InitInv
<1>3. PoolInv /\ [Next]_vars => PoolInv'
  BY <1>1, NextInv
<1>4. QED
  BY <1>2, <1>3, PTL DEF Spec

(* Every field, overlapped block and thread stage keeps its type. *)
THEOREM TypeCorrect == ~ LoadsTwice => (Spec => []TypeOK)
<1>1. PoolInv => TypeOK
  BY DEF PoolInv, LivesInv
<1>2. QED
  BY <1>1, PoolInvariant, PTL

(* AcceptEx and WSARecv are never given an overlapped block that the kernel   *)
(* still has, for any number of slots and workers.                          *)
THEOREM OverlappedBlocks == ~ LoadsTwice => (Spec => []OverlappedExclusive)
<1>1. PoolInv => OverlappedExclusive
  BY DEF PoolInv, LivesInv
<1>2. QED
  BY <1>1, PoolInvariant, PTL

(* The receive buffer is filled and copied by one party at a time. *)
THEOREM ReceiveBuffers == ~ LoadsTwice => (Spec => []ReceiveBufferExclusive)
<1>1. PoolInv => ReceiveBufferExclusive
  BY DEF PoolInv, LivesInv, SlotInv, ReceiveInv, OnSlot, ReceiveBufferExclusive, At
<1>2. QED
  BY <1>1, PoolInvariant, PTL

(* A close never closes the socket of a later connection of its slot, and     *)
(* another slot's only after its own socket was closed by somebody else.     *)
THEOREM CloseHitsItsOwn == ~ LoadsTwice => (Spec => []NoStaleClose)
<1>1. PoolInv => NoStaleClose
  <2>1. SUFFICES ASSUME PoolInv, NEW s \in Slots, NEW w \in Workers,
                        OnSlot(w, s, ClosingStages), mSocket[s] # 0
                 PROVE  /\ mSocket[s] = worker[w].sock
                        /\ \/ IsOpen(s)
                           \/ \E v \in Workers : OnSlot(v, s, {"invalidate"})
                           \/ s \in hit
    BY DEF NoStaleClose
  <2>2. mSocket[s] = worker[w].sock
    BY <2>1 DEF PoolInv, LivesInv, SlotInv, OneGeneration, OnSlot
  <2>3. QED
    BY <2>1, <2>2 DEF PoolInv, SocketInv
<1>2. QED
  BY <1>1, PoolInvariant, PTL

(* The wait before a slot is reused leaves nothing of its last connection. *)
THEOREM ReuseAfterDrain == ~ LoadsTwice => (Spec => []ReusedWhenDrained)
<1>1. PoolInv => ReusedWhenDrained
  <2>1. SUFFICES ASSUME PoolInv, NEW s \in Slots, accepter.at = "post", accepter.slot = s
                 PROVE  /\ ~ Busy(s) /\ acceptIO[s] = 0
                        /\ \A h \in Handles : sockets[h].slot # s
    BY DEF ReusedWhenDrained
  <2>2. ~ Busy(s) /\ mLatestClosedTimeSec[s] + RE_USE_SESSION_WAIT_TIMESEc < now
    BY <2>1 DEF PoolInv, LivesInv, AccepterInv
  <2>3. Closed(s)
    BY <2>1, <2>2, TimeAssumption DEF PoolInv, LivesInv, TypeOK, Closed
  <2>4. acceptIO[s] = 0 /\ mSocket[s] = 0
    BY <2>1, <2>2, <2>3 DEF PoolInv, LivesInv, SlotInv, ClosedInv, OpeningInv, OnSlot, Busy
  <2>5. QED
    BY <2>1, <2>2, <2>4 DEF PoolInv, SocketInv
<1>2. QED
  BY <1>1, PoolInvariant, PTL

(* And it is a whole wait since the latest close. *)
THEOREM ReuseAfterWait == ~ LoadsTwice => (Spec => []ReuseWaits)
<1>1. PoolInv => ReuseWaits
  BY TimeAssumption DEF PoolInv, LivesInv, AccepterInv, ReuseWaits, TypeOK
<1>2. QED
  BY <1>1, PoolInvariant, PTL

(* What is echoed on a connection came in on it. *)
THEOREM EchoesGoHome == ~ LoadsTwice => (Spec => []EchoToOrigin)
<1>1. PoolInv => EchoToOrigin
  <2>1. SUFFICES ASSUME PoolInv, NEW s \in Slots, sendIO[s] # 0
                 PROVE  mSendDataqueue[s] # << >> /\ Head(mSendDataqueue[s]) = sendIO[s]
    BY DEF EchoToOrigin
  <2>2. SendsOfNewest(s) /\ sendIO[s] = gen[s] /\ mSendDataqueue[s] \in Seq(Socks)
    BY <2>1 DEF PoolInv, LivesInv, SlotInv, SendInv, OneGeneration, TypeOK
  <2>3. QED
    BY <2>2, TailElems DEF SendsOfNewest
<1>2. QED
  BY <1>1, PoolInvariant, PTL

(* A slot becomes connected only on its newest socket, while no worker is     *)
(* left of an older one.                                                    *)
THEOREM ConnectsNewest == ~ LoadsTwice => (Spec => ConnectsOnlyNewest)
<1> DEFINE Connecting(s) == /\ mSocket[s] = gen[s]
                            /\ mLatestClosedTimeSec[s] = UINT32_MAX
                            /\ ~ \E w \in Workers : /\ worker[w].slot = s
                                                    /\ worker[w].sock < gen[s]
<1>1. ASSUME PoolInv, [Next]_vars, NEW s \in Slots, ~ mIsConnect[s], mIsConnect'[s]
      PROVE  Connecting(s)
  <2>1. PICK w \in Workers : worker[w].at = "accepted" /\ worker[w].slot = s
    <3>1. mIsConnect \in [Slots -> BOOLEAN]
      BY <1>1 DEF PoolInv, LivesInv, TypeOK
    <3>2. ASSUME NEW w \in Workers, NEW t \in Slots, OnConnect(w, t)
          PROVE  worker[w].at = "accepted" /\ worker[w].slot = s
      BY <1>1, <3>1, <3>2 DEF OnConnect, At
    <3>3. ASSUME NEW w \in Workers, NEW t \in Slots, CloseIsConnect(w, t)
          PROVE  FALSE
      BY <1>1, <3>1, <3>3 DEF CloseIsConnect
    <3>4. mIsConnect' # mIsConnect
      BY <1>1
    <3>5. ASSUME AccepterStep PROVE mIsConnect' = mIsConnect
      BY <3>5 DEF AccepterStep, AccepterLeavesAlone, StartSweep, EndSweep, CheckConnected,
                  CheckClosedTime, CheckWait, PostAccept, AcceptEx
    <3>6. ASSUME NEW w \in Workers, NEW t \in Slots, TakeStep(w, t)
          PROVE  mIsConnect' = mIsConnect
      BY <3>6 DEF TakeStep, TakeAccept, TakeFailedAccept, TakeReceive, TakeSent,
                  TakeFailedReceive, TakeFailedSend
    <3>7. ASSUME Tick \/ ProcessStep \/ UNCHANGED vars PROVE mIsConnect' = mIsConnect
      BY <3>7 DEF Tick, ProcessStep, DequePacketData, SendMsg, slotVars, vars
    <3>8. ASSUME NEW w \in Workers, NEW t \in Slots, WorkerStep(w, t)
          PROVE  OnConnect(w, t) \/ CloseIsConnect(w, t) \/ mIsConnect' = mIsConnect
      BY <3>8 DEF WorkerStep, BindAccepted, OnReceive, BindRecv, CloseStamp, closesocket,
                  InvalidateSocket, SendCompleted, slotVars
    <3>9. QED
      BY <1>1, <3>2, <3>3, <3>4, <3>5, <3>6, <3>7, <3>8 DEF Next
  <2>2. /\ mSocket[s] = gen[s] /\ ~ Closed(s)
        /\ \A v \in Workers : worker[v].slot = s => worker[v].sock = gen[s]
    BY <1>1, <2>1 DEF PoolInv, LivesInv, SlotInv, OpeningInv, OneGeneration, OnSlot
  <2>3. gen[s] \in Int
    BY <1>1, BoundAssumption DEF PoolInv, LivesInv, TypeOK, Socks
  <2>4. QED
    BY <2>2, <2>3 DEF Closed
<1>2. PoolInv /\ [Next]_vars => [\A s \in Slots : ~ mIsConnect[s] /\ mIsConnect'[s]
                                   => Connecting(s)]_vars
  BY <1>1
<1>3. QED
  BY <1>2, PoolInvariant, PTL DEF Spec, ConnectsOnlyNewest

(* A slot PostAccept failed on is never used again, whatever else happens.    *)
THEOREM NeverRecovered == ~ LoadsTwice => (Spec => LostForEver)
<1>1. ASSUME PoolInv, Next, NEW s \in Slots, Lost(s)
      PROVE  Lost(s)'
  <2>1. /\ mLatestClosedTimeSec[s] = UINT32_MAX /\ ~ mIsConnect[s] /\ acceptIO[s] = 0
        /\ recvIO[s] = 0 /\ sendIO[s] = 0 /\ processThread.slot # s /\ ~ Queued(s)
        /\ \A w \in Workers : worker[w].slot # s
        /\ ~ (accepter.at = "acceptEx" /\ accepter.slot = s)
    BY <1>1 DEF Lost, Busy
  <2>2. TypeOK /\ NoSlot \notin Slots
    BY <1>1, SlotAssumption DEF PoolInv, LivesInv
  <2>3. ~ (accepter.at = "post" /\ accepter.slot = s)
    BY <1>1, <2>1, TimeAssumption DEF PoolInv, LivesInv, TypeOK, AccepterInv
  <2>4. SUFFICES /\ mLatestClosedTimeSec'[s] = UINT32_MAX /\ ~ mIsConnect'[s] /\ acceptIO'[s] = 0
                 /\ recvIO'[s] = 0 /\ sendIO'[s] = 0 /\ processThread'.slot # s /\ ~ Queued(s)'
                 /\ \A w \in Workers : worker'[w].slot # s
                 /\ ~ (accepter'.at = "acceptEx" /\ accepter'.slot = s)
    BY DEF Lost, Busy
  <2>5. CASE Tick
    BY <2>1, <2>5 DEF Tick, slotVars, ioVars, packetVars, Queued
  <2>6. CASE \/ StartSweep
             \/ EndSweep
             \/ \E t \in Slots : CheckConnected(t) \/ CheckClosedTime(t) \/ CheckWait(t)
    <3>1. accepter \in AccepterStates
      BY <2>2 DEF TypeOK
    <3>2. /\ UNCHANGED <<mIsConnect, mLatestClosedTimeSec, acceptIO, recvIO, sendIO,
                         mPacketDataQueue, processThread, worker>>
          /\ accepter'.at # "acceptEx"
      BY <2>6, <3>1 DEF StartSweep, EndSweep, CheckConnected, CheckClosedTime, CheckWait,
                        NextSlot, AccepterLeavesAlone, packetVars, AccepterStates
    <3>3. QED
      BY <2>1, <3>2 DEF Queued
  <2>7. ASSUME NEW t \in Slots, PostAccept(t) \/ AcceptEx(t)
        PROVE  /\ mLatestClosedTimeSec'[s] = UINT32_MAX /\ ~ mIsConnect'[s] /\ acceptIO'[s] = 0
               /\ recvIO'[s] = 0 /\ sendIO'[s] = 0 /\ processThread'.slot # s /\ ~ Queued(s)'
               /\ \A w \in Workers : worker'[w].slot # s
               /\ ~ (accepter'.at = "acceptEx" /\ accepter'.slot = s)
    <3>1. accepter \in AccepterStates /\ t # s
      BY <2>1, <2>2, <2>3, <2>7 DEF TypeOK, PostAccept, AcceptEx
    <3>2. UNCHANGED <<mIsConnect, recvIO, sendIO, mPacketDataQueue, processThread, worker>>
      BY <2>7 DEF PostAccept, AcceptEx, AccepterLeavesAlone, packetVars
    <3>3. mLatestClosedTimeSec'[s] = UINT32_MAX /\ acceptIO'[s] = 0
      BY <2>1, <2>2, <2>7, <3>1 DEF TypeOK, PostAccept, AcceptEx
    <3>4. accepter'.slot # s
      BY <2>2, <2>7, <3>1, NextSlotType DEF PostAccept, AcceptEx, AccepterStates
    <3>5. QED
      BY <2>1, <3>2, <3>3, <3>4 DEF Queued
  <2>8. ASSUME NEW w \in Workers, NEW t \in Slots, TakeStep(w, t) \/ WorkerStep(w, t)
        PROVE  /\ mLatestClosedTimeSec'[s] = UINT32_MAX /\ ~ mIsConnect'[s] /\ acceptIO'[s] = 0
               /\ recvIO'[s] = 0 /\ sendIO'[s] = 0 /\ processThread'.slot # s /\ ~ Queued(s)'
               /\ \A v \in Workers : worker'[v].slot # s
               /\ ~ (accepter'.at = "acceptEx" /\ accepter'.slot = s)
    <3>1. CASE t = s
      BY <2>1, <2>8, <3>1
         DEF TakeStep, TakeAccept, TakeFailedAccept, TakeReceive, TakeSent,
             TakeFailedReceive, TakeFailedSend, WorkerStep, OnConnect, BindAccepted, OnReceive,
             BindRecv, CloseIsConnect, CloseStamp, closesocket, InvalidateSocket, SendCompleted, At
    <3>2. ASSUME t # s, TakeStep(w, t)
          PROVE  /\ UNCHANGED <<mLatestClosedTimeSec, mIsConnect, processThread,
                                mPacketDataQueue, accepter>>
                 /\ acceptIO'[s] = acceptIO[s] /\ recvIO'[s] = recvIO[s] /\ sendIO'[s] = sendIO[s]
                 /\ \A v \in Workers : worker'[v].slot \in {worker[v].slot, t}
      <4>1. /\ acceptIO \in [Slots -> Socks] /\ recvIO \in [Slots -> Socks]
            /\ sendIO \in [Slots -> Socks] /\ worker \in [Workers -> WorkerStates]
        BY <2>2 DEF TypeOK
      <4>2. QED
        BY <3>2, <4>1
           DEF TakeStep, TakeAccept, TakeFailedAccept, TakeReceive, TakeSent,
               TakeFailedReceive, TakeFailedSend, WorkerLeavesAlone, packetVars, Doing
    <3>3. ASSUME t # s, WorkerStep(w, t)
          PROVE  /\ UNCHANGED <<processThread, accepter>>
                 /\ mLatestClosedTimeSec'[s] = mLatestClosedTimeSec[s]
                 /\ mIsConnect'[s] = mIsConnect[s]
                 /\ acceptIO'[s] = acceptIO[s] /\ recvIO'[s] = recvIO[s] /\ sendIO'[s] = sendIO[s]
                 /\ \A v \in Workers : worker'[v].slot \in {worker[v].slot, NoSlot}
                 /\ Queued(s)' => Queued(s)
      <4>1. CASE OnReceive(w, t)
        <5>1. /\ [slot |-> t, sock |-> worker[w].sock] \in Packets
              /\ mPacketDataQueue \in Seq(Packets)
              /\ mPacketDataQueue' = Append(mPacketDataQueue, [slot |-> t, sock |-> worker[w].sock])
          BY <2>2, <4>1 DEF TypeOK, OnReceive, Packets, WorkerStates
        <5>2. \A i \in 1 .. Len(mPacketDataQueue') :
                  mPacketDataQueue'[i] = IF i \in 1 .. Len(mPacketDataQueue)
                                           THEN mPacketDataQueue[i]
                                           ELSE [slot |-> t, sock |-> worker[w].sock]
          BY <5>1, AppendElems
        <5>3. Queued(s)' => Queued(s)
          BY <3>3, <5>2 DEF Queued
        <5>4. QED
          BY <2>2, <4>1, <5>3 DEF TypeOK, OnReceive, GoesTo, WorkerLeavesAlone, ioVars, WorkerStates
      <4>2. CASE ~ OnReceive(w, t)
        <5>1. mPacketDataQueue' = mPacketDataQueue
          BY <3>3, <4>2 DEF WorkerStep, OnConnect, BindAccepted, BindRecv, CloseIsConnect,
                            CloseStamp, closesocket, InvalidateSocket, SendCompleted, packetVars
        <5>2. \A v \in Workers : worker'[v].slot \in {worker[v].slot, NoSlot}
          <6>1. Done(w) \/ \E at \in {"bindAccepted", "closing", "stamping", "closesocket", "invalidate"} : GoesTo(w, at)
            BY <3>3, <4>2 DEF WorkerStep, OnConnect, BindAccepted, BindRecv, CloseIsConnect,
                              CloseStamp, closesocket, InvalidateSocket, SendCompleted
          <6>2. CASE Done(w)
            BY <2>2, <6>2 DEF TypeOK, Done, Resting
          <6>3. ASSUME NEW at \in {"bindAccepted", "closing", "stamping", "closesocket", "invalidate"},
                       GoesTo(w, at)
                PROVE  \A v \in Workers : worker'[v].slot \in {worker[v].slot, NoSlot}
            BY <2>2, <6>3 DEF TypeOK, GoesTo, WorkerStates
          <6>4. QED
            BY <6>1, <6>2, <6>3
        <5>3. /\ processThread' = processThread /\ accepter' = accepter
              /\ acceptIO' = acceptIO
              /\ mLatestClosedTimeSec'[s] = mLatestClosedTimeSec[s]
              /\ mIsConnect'[s] = mIsConnect[s]
          BY <2>2, <3>3, <4>2
             DEF TypeOK, WorkerStep, OnConnect, BindAccepted, BindRecv, CloseIsConnect,
                 CloseStamp, closesocket, InvalidateSocket, SendCompleted, WorkerLeavesAlone,
                 ioVars, packetVars, slotVars
        <5>4. recvIO'[s] = recvIO[s]
          BY <2>2, <3>3, <4>2
             DEF TypeOK, WorkerStep, OnConnect, BindAccepted, BindRecv, CloseIsConnect,
                 CloseStamp, closesocket, InvalidateSocket, SendCompleted, PostReceive,
                 ReceiveRefused, ioVars
        <5>5. sendIO'[s] = sendIO[s]
          BY <2>2, <3>3, <4>2
             DEF TypeOK, WorkerStep, OnConnect, BindAccepted, BindRecv, CloseIsConnect,
                 CloseStamp, closesocket, InvalidateSocket, SendCompleted, SendIO, ioVars
        <5>6. Queued(s)' <=> Queued(s)
          BY <5>1 DEF Queued
        <5>7. QED
          BY <5>2, <5>3, <5>4, <5>5, <5>6
      <4>3. QED
        BY <4>1, <4>2
    <3>4. QED
      BY <2>1, <2>2, <2>8, <3>1, <3>2, <3>3 DEF Queued
  <2>9. CASE DequePacketData
    <3>1. /\ mPacketDataQueue \in Seq(Packets) /\ mPacketDataQueue # << >>
          /\ mPacketDataQueue' = Tail(mPacketDataQueue)
      BY <2>2, <2>9 DEF TypeOK, DequePacketData
    <3>2. /\ 1 \in 1 .. Len(mPacketDataQueue) /\ mPacketDataQueue[1] = Head(mPacketDataQueue)
          /\ \A i \in 1 .. Len(mPacketDataQueue') :
                 /\ i + 1 \in 1 .. Len(mPacketDataQueue)
                 /\ mPacketDataQueue'[i] = mPacketDataQueue[i + 1]
      BY <3>1, TailElems
    <3>3. ~ Queued(s)' /\ Head(mPacketDataQueue).slot # s
      BY <2>1, <3>2 DEF Queued
    <3>4. QED
      BY <2>1, <2>9, <3>3 DEF DequePacketData, Doing, slotVars, ioVars
  <2>10. ASSUME NEW t \in Slots, SendMsg(t)
         PROVE  /\ mLatestClosedTimeSec'[s] = UINT32_MAX /\ ~ mIsConnect'[s] /\ acceptIO'[s] = 0
                /\ recvIO'[s] = 0 /\ sendIO'[s] = 0 /\ processThread'.slot # s /\ ~ Queued(s)'
                /\ \A w \in Workers : worker'[w].slot # s
                /\ ~ (accepter'.at = "acceptEx" /\ accepter'.slot = s)
    <3>1. t # s
      BY <2>1, <2>10 DEF SendMsg
    <3>2. sendIO'[s] = 0
      BY <2>1, <2>2, <2>10, <3>1 DEF SendMsg, SendIO, TypeOK
    <3>3. QED
      BY <2>1, <2>2, <2>10, <3>2 DEF SendMsg, Resting, slotVars, Queued
  <2>11. QED
    BY <1>1, <2>5, <2>6, <2>7, <2>8, <2>9, <2>10 DEF Next, AccepterStep, ProcessStep
<1>2. PoolInv /\ [Next]_vars => [\A s \in Slots : Lost(s) => Lost(s)']_vars
  BY <1>1
<1>3. QED
  BY <1>2, PoolInvariant, PTL DEF Spec, LostForEver
==============================================================================
