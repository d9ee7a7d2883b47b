-------------------------- MODULE DoubleBufferProofs --------------------------
(* Proofs about DoubleBuffer, for any packets and sizes, any size of the     *)
(* buffers, any number of workers and connections.                          *)
EXTENDS DoubleBuffer, SequenceTheorems, TLAPS

(* The first n bytes of a buffer. *)
LEMMA FirstBytes ==
  ASSUME NEW f \in Buffers, NEW n \in 0 .. MAX_SOCK_SENDBUF
  PROVE  /\ SubSeq(f, 1, n) \in Seq(Byte)
         /\ Len(SubSeq(f, 1, n)) = n
         /\ \A i \in 1 .. n : SubSeq(f, 1, n)[i] = f[i]
<1>1. \A i \in 1 .. n : f[i] \in Byte
  BY SizeAssumption DEF Buffers
<1>2. n \in Int /\ 1 \in Int
  BY SizeAssumption
<1> HIDE DEF Byte
<1>3. /\ SubSeq(f, 1, n) \in Seq(Byte)
      /\ Len(SubSeq(f, 1, n)) = IF 1 <= n THEN n - 1 + 1 ELSE 0
      /\ \A i \in 1 .. n - 1 + 1 : SubSeq(f, 1, n)[i] = f[1 + i - 1]
  BY <1>1, <1>2, SubSeqProperties
<1> QED
  BY <1>2, <1>3, SizeAssumption

(* They depend on these bytes only. *)
LEMMA SameBytes ==
  ASSUME NEW f \in Buffers, NEW g \in Buffers, NEW n \in 0 .. MAX_SOCK_SENDBUF,
         \A i \in 1 .. n : f[i] = g[i]
  PROVE  SubSeq(f, 1, n) = SubSeq(g, 1, n)
<1> DEFINE s == SubSeq(f, 1, n)
           t == SubSeq(g, 1, n)
<1>1. /\ s \in Seq(Byte) /\ Len(s) = n /\ \A i \in 1 .. n : s[i] = f[i]
      /\ t \in Seq(Byte) /\ Len(t) = n /\ \A i \in 1 .. n : t[i] = g[i]
  BY FirstBytes
<1> HIDE DEF s, t
<1>2. s = t
  BY <1>1, SeqEqual
<1> QED
  BY <1>2 DEF s, t

(* CopyCollected writes what was collected over the front of mSendingBuf. *)
LEMMA Overwritten ==
  ASSUME NEW f \in Buffers, NEW g \in Buffers, NEW n \in 0 .. MAX_SOCK_SENDBUF,
         NEW h, h = SubSeq(f, 1, n) \o SubSeq(g, n + 1, MAX_SOCK_SENDBUF)
  PROVE  h \in Buffers /\ \A i \in 1 .. n : h[i] = f[i]
<1> DEFINE M == MAX_SOCK_SENDBUF
           s == SubSeq(f, 1, n)
           t == SubSeq(g, n + 1, M)
<1>1. M \in Nat /\ n \in Nat /\ n <= M
  BY SizeAssumption
<1>2. \A i \in n + 1 .. M : g[i] \in Byte
  BY <1>1 DEF Buffers
<1> HIDE DEF M
<1>3. s \in Seq(Byte) /\ Len(s) = n /\ \A i \in 1 .. n : s[i] = f[i]
  BY FirstBytes
<1>4. t \in Seq(Byte) /\ Len(t) = M - n
  <2> HIDE DEF Byte
  <2>1. n + 1 \in Int /\ M \in Int
    BY <1>1
  <2>2. /\ t \in Seq(Byte)
        /\ Len(t) = IF n + 1 <= M THEN M - (n + 1) + 1 ELSE 0
    BY <1>2, <2>1, SubSeqProperties
  <2> QED
    BY <1>1, <2>2
<1> HIDE DEF s, t
<1>5. /\ s \o t \in Seq(Byte) /\ Len(s \o t) = Len(s) + Len(t)
      /\ \A i \in 1 .. Len(s) + Len(t) : (s \o t)[i] = IF i <= Len(s) THEN s[i] ELSE t[i - Len(s)]
  BY <1>3, <1>4, ConcatProperties
<1>6. h = s \o t
  BY DEF s, t, M
<1>7. Len(h) = M /\ h \in Seq(Byte)
  <2>1. Len(s) + Len(t) = M
    BY <1>1, <1>3, <1>4
  <2> QED
    BY <1>5, <1>6, <2>1
<1>8. h \in [1 .. M -> Byte]
  BY <1>7, LenProperties
<1>9. \A i \in 1 .. n : h[i] = f[i]
  BY <1>1, <1>3, <1>4, <1>5, <1>6
<1> QED
  BY <1>8, <1>9 DEF Buffers, M

(* The bytes of a packet. *)
LEMMA PacketBytes ==
  ASSUME NEW m \in Messages
  PROVE  /\ Size[m] \in 1 .. MAX_SOCK_SENDBUF
         /\ Bytes(m) \in Seq(Byte)
         /\ Len(Bytes(m)) = Size[m]
         /\ \A i \in 1 .. Size[m] : Bytes(m)[i] = <<m, i>>
<1>1. Size[m] \in 1 .. MAX_SOCK_SENDBUF /\ Size[m] \in Nat
  BY SizeAssumption
<1>2. \A i \in 1 .. Size[m] : <<m, i>> \in Byte
  BY <1>1, SizeAssumption DEF Byte
<1> HIDE DEF Byte
<1>3. Bytes(m) \in Seq(Byte)
  BY <1>1, <1>2, IsASeq DEF Bytes
<1>4. DOMAIN Bytes(m) = 1 .. Size[m]
  BY DEF Bytes
<1>5. Len(Bytes(m)) = Size[m]
  BY <1>1, <1>3, <1>4, LenProperties
<1> QED
  BY <1>1, <1>3, <1>5 DEF Bytes

(* AddSize adds the packet behind what was collected to it. *)
LEMMA OneMore ==
  ASSUME NEW f \in Buffers, NEW n \in 0 .. MAX_SOCK_SENDBUF, NEW m \in Messages,
         n + Size[m] <= MAX_SOCK_SENDBUF,
         \A k \in 1 .. Size[m] : f[n + k] = <<m, k>>
  PROVE  SubSeq(f, 1, n + Size[m]) = SubSeq(f, 1, n) \o Bytes(m)
<1> DEFINE l == Size[m]
           s == SubSeq(f, 1, n)
           t == SubSeq(f, 1, n + l)
           b == Bytes(m)
<1>1. n \in Nat /\ l \in Nat /\ n + l \in 0 .. MAX_SOCK_SENDBUF
  BY PacketBytes, SizeAssumption
<1>2. /\ s \in Seq(Byte) /\ Len(s) = n /\ \A i \in 1 .. n : s[i] = f[i]
      /\ t \in Seq(Byte) /\ Len(t) = n + l /\ \A i \in 1 .. n + l : t[i] = f[i]
  BY <1>1, FirstBytes
<1>3. b \in Seq(Byte) /\ Len(b) = l /\ \A i \in 1 .. l : b[i] = <<m, i>>
  BY PacketBytes
<1>4. \A k \in 1 .. l : f[n + k] = <<m, k>>
  OBVIOUS
<1> HIDE DEF l, s, t, b
<1>5. /\ s \o b \in Seq(Byte) /\ Len(s \o b) = n + l
      /\ \A i \in 1 .. n + l : (s \o b)[i] = IF i <= n THEN s[i] ELSE b[i - n]
  BY <1>2, <1>3, ConcatProperties
<1>6. ASSUME NEW i \in 1 .. n + l PROVE t[i] = (s \o b)[i]
  <2>1. CASE i <= n
    <3>1. i \in 1 .. n
      BY <1>1, <2>1
    <3>2. t[i] = f[i] /\ s[i] = f[i]
      BY <1>2, <3>1
    <3> QED
      BY <1>5, <2>1, <3>2
  <2>2. CASE ~ (i <= n)
    <3>1. i - n \in 1 .. l /\ n + (i - n) = i
      BY <1>1, <2>2
    <3>2. f[i] = b[i - n]
      BY <1>3, <1>4, <3>1
    <3> QED
      BY <1>1, <1>2, <1>5, <2>2, <3>2
  <2> QED
    BY <2>1, <2>2
<1>7. t = s \o b
  BY <1>1, <1>2, <1>5, <1>6, SeqEqual
<1> QED
  BY <1>7 DEF l, s, t, b

(* No bytes are whole. *)
LEMMA WholeNone == Whole(<< >>)
BY DEF Whole

(* Whole packets behind whole packets. *)
LEMMA WholeConcat ==
  ASSUME NEW s \in Seq(Byte), NEW t \in Seq(Byte), Whole(s), Whole(t)
  PROVE  Whole(s \o t)
<1> DEFINE a == Len(s)
           b == Len(t)
           u == s \o t
<1>1. a \in Nat /\ b \in Nat
  BY LenProperties
<1>2. Len(u) = a + b /\ \A i \in 1 .. a + b : u[i] = IF i <= a THEN s[i] ELSE t[i - a]
  BY ConcatProperties
<1>3. \A m \in Messages : Size[m] \in Nat
  BY SizeAssumption
<1>4. \A i \in 1 .. a : \E m \in Messages : \E before \in 0 .. a - Size[m] :
            /\ i \in before + 1 .. before + Size[m]
            /\ \A k \in 1 .. Size[m] : s[before + k] = <<m, k>>
  BY DEF Whole
<1>5. \A i \in 1 .. b : \E m \in Messages : \E before \in 0 .. b - Size[m] :
            /\ i \in before + 1 .. before + Size[m]
            /\ \A k \in 1 .. Size[m] : t[before + k] = <<m, k>>
  BY DEF Whole
<1> HIDE DEF a, b, u
<1>6. ASSUME NEW i \in 1 .. Len(u)
      PROVE  \E m \in Messages : \E before \in 0 .. Len(u) - Size[m] :
                /\ i \in before + 1 .. before + Size[m]
                /\ \A k \in 1 .. Size[m] : u[before + k] = <<m, k>>
  <2>1. CASE i <= a
    <3>1. i \in 1 .. a
      BY <1>1, <1>2, <2>1
    <3>5. PICK m \in Messages : \E before \in 0 .. a - Size[m] :
            /\ i \in before + 1 .. before + Size[m]
            /\ \A k \in 1 .. Size[m] : s[before + k] = <<m, k>>
      BY <1>4, <3>1
    <3>2. PICK before \in 0 .. a - Size[m] :
            /\ i \in before + 1 .. before + Size[m]
            /\ \A k \in 1 .. Size[m] : s[before + k] = <<m, k>>
      BY <3>5
    <3>3. before \in 0 .. Len(u) - Size[m]
      BY <1>1, <1>2, <1>3, <3>2
    <3>4. ASSUME NEW k \in 1 .. Size[m] PROVE u[before + k] = <<m, k>>
      <4>1. before + k \in 1 .. a + b /\ before + k <= a
        BY <1>1, <1>3, <3>2
      <4> QED
        BY <1>2, <3>2, <4>1
    <3> QED
      BY <3>2, <3>3, <3>4
  <2>2. CASE ~ (i <= a)
    <3>1. i - a \in 1 .. b
      BY <1>1, <1>2, <2>2
    <3>5. PICK m \in Messages : \E before \in 0 .. b - Size[m] :
            /\ i - a \in before + 1 .. before + Size[m]
            /\ \A k \in 1 .. Size[m] : t[before + k] = <<m, k>>
      BY <1>5, <3>1
    <3>2. PICK before \in 0 .. b - Size[m] :
            /\ i - a \in before + 1 .. before + Size[m]
            /\ \A k \in 1 .. Size[m] : t[before + k] = <<m, k>>
      BY <3>5
    <3>3. /\ a + before \in 0 .. Len(u) - Size[m]
          /\ i \in (a + before) + 1 .. (a + before) + Size[m]
      BY <1>1, <1>2, <1>3, <3>2
    <3>4. ASSUME NEW k \in 1 .. Size[m] PROVE u[(a + before) + k] = <<m, k>>
      <4>1. /\ (a + before) + k \in 1 .. a + b
            /\ ~ ((a + before) + k <= a)
            /\ ((a + before) + k) - a = before + k
        BY <1>1, <1>3, <3>2
      <4> QED
        BY <1>2, <3>2, <4>1
    <3> QED
      BY <3>3, <3>4
  <2> QED
    BY <2>1, <2>2
<1>7. Whole(u)
  BY <1>6 DEF Whole
<1> QED
  BY <1>7 DEF u

(* One packet's bytes are whole. *)
LEMMA WholePacket ==
  ASSUME NEW m \in Messages
  PROVE  Whole(Bytes(m))
<1> DEFINE b == Bytes(m)
<1>1. Size[m] \in Nat /\ Len(b) = Size[m] /\ \A i \in 1 .. Size[m] : b[i] = <<m, i>>
  BY PacketBytes, SizeAssumption
<1> HIDE DEF b
<1>2. ASSUME NEW i \in 1 .. Len(b)
      PROVE  \E before \in 0 .. Len(b) - Size[m] :
                /\ i \in before + 1 .. before + Size[m]
                /\ \A k \in 1 .. Size[m] : b[before + k] = <<m, k>>
  <2>1. 0 \in 0 .. Len(b) - Size[m] /\ i \in 0 + 1 .. 0 + Size[m]
    BY <1>1
  <2>2. \A k \in 1 .. Size[m] : b[0 + k] = <<m, k>>
    BY <1>1
  <2> QED
    BY <2>1, <2>2
<1>3. Whole(b)
  BY <1>2 DEF Whole
<1> QED
  BY <1>3 DEF b

------------------------------------------------------------------------------
(* Most steps leave the buffers and what is collected in them alone. *)
LEMMA BuffersUntouched ==
  ASSUME BufferInv, FirstConnection' => FirstConnection,
         UNCHANGED <<mSendBuf, mSendingBuf, mSendPos, processThread, wire>>,
         sendThread' = "send" => sendThread = "send",
         sendIO' = sendIO \/ sendIO'.is # "kernel"
  PROVE  (FirstConnection' => WholeInv') /\ WholeMessages'
<1>1. FirstConnection' => WholeInv'
  BY DEF BufferInv, WholeInv, Collected
<1>2. WholeMessages'
  BY WholeNone DEF BufferInv, WholeMessages, Sending
<1> QED
  BY <1>1, <1>2

(* A session is connected for the first time once. *)
LEMMA StillFirst ==
  ASSUME TypeOK, conns' = conns \/ conns' = conns + 1
  PROVE  FirstConnection' => FirstConnection
BY ConnAssumption DEF FirstConnection, TypeOK, Socks

(* Each action keeps the inductive invariant. *)
LEMMA GetEmptyClientInfoStep ==
  ASSUME BufferInv, GetEmptyClientInfo
  PROVE  BufferInv'
<1> USE DEF BufferInv, InsideBuffer
<1> USE SizeAssumption, ConnAssumption
<1>1. TypeOK' /\ fault' # "overrun"
  BY DEF TypeOK, SocketInv, RoomInv, Conns, Socks, Running, GetEmptyClientInfo,
     recvVars, sendVars, ioVars
<1>2. LockInv' /\ RoomInv' /\ SocketInv'
  BY DEF LockInv, RoomInv, SocketInv, TypeOK, Socks, GetEmptyClientInfo, recvVars,
     sendVars, ioVars
<1>3. FirstConnection' => FirstConnection
  BY StillFirst DEF GetEmptyClientInfo, recvVars, sendVars, ioVars
<1>4. FirstConnection' => FreshInv'
  BY <1>3 DEF FirstConnection, FreshInv, SocketInv, LockInv, TypeOK, Socks,
     GetEmptyClientInfo, recvVars, sendVars, ioVars
<1>5. FirstConnection' => PermissionInv'
  BY <1>3 DEF PermissionInv, FreshInv, SendingUntouched, TypeOK, GetEmptyClientInfo,
     recvVars, sendVars, ioVars
<1>6. FirstConnection' => CollectedInv'
  BY <1>3 DEF CollectedInv, FreshInv, LockInv, RoomInv, TypeOK, GetEmptyClientInfo,
     recvVars, sendVars, ioVars
<1>7. SendingUntouched' /\ NoEmptySend'
  BY <1>3 DEF SendingUntouched, NoEmptySend, PermissionInv, CollectedInv, FreshInv,
     TypeOK, GetEmptyClientInfo, recvVars, sendVars, ioVars
<1>8. (FirstConnection' => WholeInv') /\ WholeMessages'
  BY <1>3, BuffersUntouched DEF GetEmptyClientInfo, recvVars, sendVars, ioVars
<1> QED
  BY <1>1, <1>2, <1>4, <1>5, <1>6, <1>7, <1>8

LEMMA OnConnectStep ==
  ASSUME BufferInv, OnConnect
  PROVE  BufferInv'
<1> USE DEF BufferInv, InsideBuffer
<1> USE SizeAssumption, ConnAssumption
<1>1. TypeOK' /\ fault' # "overrun"
  BY DEF TypeOK, SocketInv, RoomInv, Conns, Socks, Running, OnConnect, recvVars,
     sendVars, ioVars
<1>2. LockInv' /\ RoomInv' /\ SocketInv'
  BY DEF LockInv, RoomInv, SocketInv, TypeOK, Socks, OnConnect, recvVars, sendVars,
     ioVars
<1>3. FirstConnection' => FirstConnection
  BY StillFirst DEF OnConnect, recvVars, sendVars, ioVars
<1>4. FirstConnection' => FreshInv'
  BY <1>3 DEF FirstConnection, FreshInv, SocketInv, LockInv, TypeOK, Socks, OnConnect,
     recvVars, sendVars, ioVars
<1>5. FirstConnection' => PermissionInv'
  BY <1>3 DEF PermissionInv, FreshInv, SendingUntouched, TypeOK, OnConnect, recvVars,
     sendVars, ioVars
<1>6. FirstConnection' => CollectedInv'
  BY <1>3 DEF CollectedInv, FreshInv, LockInv, RoomInv, TypeOK, OnConnect, recvVars,
     sendVars, ioVars
<1>7. SendingUntouched' /\ NoEmptySend'
  BY <1>3 DEF SendingUntouched, NoEmptySend, PermissionInv, CollectedInv, FreshInv,
     TypeOK, OnConnect, recvVars, sendVars, ioVars
<1>8. (FirstConnection' => WholeInv') /\ WholeMessages'
  BY <1>3, BuffersUntouched DEF OnConnect, recvVars, sendVars, ioVars
<1> QED
  BY <1>1, <1>2, <1>4, <1>5, <1>6, <1>7, <1>8

LEMMA ClearPosStep ==
  ASSUME BufferInv, ClearPos
  PROVE  BufferInv'
<1> USE DEF BufferInv, InsideBuffer
<1> USE SizeAssumption, ConnAssumption
<1>1. TypeOK' /\ fault' # "overrun"
  BY DEF TypeOK, SocketInv, RoomInv, Conns, Socks, Running, ClearPos, recvVars, ioVars
<1>2. LockInv' /\ RoomInv' /\ SocketInv'
  BY DEF LockInv, RoomInv, SocketInv, TypeOK, Socks, ClearPos, recvVars, ioVars
<1>3. FirstConnection' => FirstConnection
  BY StillFirst DEF ClearPos, recvVars, ioVars
<1>4. FirstConnection' => FreshInv'
  BY <1>3 DEF FirstConnection, FreshInv, SocketInv, LockInv, TypeOK, Socks, ClearPos,
     recvVars, ioVars
<1>5. FirstConnection' => PermissionInv'
  BY <1>3 DEF PermissionInv, FreshInv, SendingUntouched, TypeOK, ClearPos, recvVars,
     ioVars
<1>6. FirstConnection' => CollectedInv'
  BY <1>3 DEF CollectedInv, FreshInv, LockInv, RoomInv, TypeOK, ClearPos, recvVars,
     ioVars
<1>7. SendingUntouched' /\ NoEmptySend'
  BY <1>3 DEF SendingUntouched, NoEmptySend, PermissionInv, CollectedInv, FreshInv,
     TypeOK, ClearPos, recvVars, ioVars
<1>8. FirstConnection' => WholeInv'
  BY <1>3 DEF FreshInv, WholeInv, Collected, ClearPos
<1>9. WholeMessages'
  BY <1>3 DEF WholeMessages, Sending, ClearPos, recvVars, ioVars
<1> QED
  BY <1>1, <1>2, <1>4, <1>5, <1>6, <1>7, <1>8, <1>9

LEMMA ClearSendingStep ==
  ASSUME BufferInv, ClearSending
  PROVE  BufferInv'
<1> USE DEF BufferInv, InsideBuffer
<1> USE SizeAssumption, ConnAssumption
<1>1. TypeOK' /\ fault' # "overrun"
  BY ZenonT(40) DEF TypeOK, SocketInv, RoomInv, Conns, Socks, Running, ClearSending, recvVars,
     ioVars
<1>2. LockInv' /\ RoomInv' /\ SocketInv'
  BY DEF LockInv, RoomInv, SocketInv, TypeOK, Socks, ClearSending, recvVars, ioVars
<1>3. FirstConnection' => FirstConnection
  BY StillFirst DEF ClearSending, recvVars, ioVars
<1>4. FirstConnection' => FreshInv'
  BY <1>3 DEF FirstConnection, FreshInv, SocketInv, LockInv, TypeOK, Socks,
     ClearSending, recvVars, ioVars
<1>5. FirstConnection' => PermissionInv'
  BY <1>3 DEF PermissionInv, FreshInv, SendingUntouched, TypeOK, ClearSending,
     recvVars, ioVars
<1>6. FirstConnection' => CollectedInv'
  BY <1>3 DEF CollectedInv, FreshInv, LockInv, RoomInv, TypeOK, ClearSending, recvVars,
     ioVars
<1>7. SendingUntouched' /\ NoEmptySend'
  BY <1>3 DEF SendingUntouched, NoEmptySend, PermissionInv, CollectedInv, FreshInv,
     TypeOK, ClearSending, recvVars, ioVars
<1>8. (FirstConnection' => WholeInv') /\ WholeMessages'
  BY <1>3, BuffersUntouched DEF ClearSending, recvVars, ioVars
<1> QED
  BY <1>1, <1>2, <1>4, <1>5, <1>6, <1>7, <1>8

LEMMA BindStep ==
  ASSUME BufferInv, Bind
  PROVE  BufferInv'
<1> USE DEF BufferInv, InsideBuffer
<1> USE SizeAssumption, ConnAssumption
<1>1. TypeOK' /\ fault' # "overrun"
  BY SMTT(30) DEF TypeOK, SocketInv, RoomInv, Conns, Socks, Running, Bind, PostReceive,
     sendVars, ioVars
<1>2. LockInv' /\ RoomInv' /\ SocketInv'
  BY DEF LockInv, RoomInv, SocketInv, TypeOK, Socks, Bind, PostReceive, sendVars,
     ioVars
<1>3. FirstConnection' => FirstConnection
  BY StillFirst DEF Bind, PostReceive, sendVars, ioVars
<1>4. FirstConnection' => FreshInv'
  BY <1>3 DEF FirstConnection, FreshInv, SocketInv, LockInv, TypeOK, Socks, Bind,
     PostReceive, sendVars, ioVars
<1>5. FirstConnection' => PermissionInv'
  BY <1>3 DEF PermissionInv, FreshInv, SendingUntouched, TypeOK, Bind, PostReceive,
     sendVars, ioVars
<1>6. FirstConnection' => CollectedInv'
  BY <1>3 DEF CollectedInv, FreshInv, LockInv, RoomInv, TypeOK, Bind, PostReceive,
     sendVars, ioVars
<1>7. SendingUntouched' /\ NoEmptySend'
  BY <1>3 DEF SendingUntouched, NoEmptySend, PermissionInv, CollectedInv, FreshInv,
     TypeOK, Bind, PostReceive, sendVars, ioVars
<1>8. (FirstConnection' => WholeInv') /\ WholeMessages'
  BY <1>3, BuffersUntouched DEF Bind, PostReceive, sendVars, ioVars
<1> QED
  BY <1>1, <1>2, <1>4, <1>5, <1>6, <1>7, <1>8

LEMMA OnReceiveStep ==
  ASSUME BufferInv, NEW w \in Workers, NEW m \in Messages, OnReceive(w, m)
  PROVE  BufferInv'
<1> USE DEF BufferInv, InsideBuffer
<1> USE SizeAssumption, ConnAssumption
<1>1. TypeOK' /\ fault' # "overrun"
  BY DEF TypeOK, SocketInv, RoomInv, Conns, Socks, Running, OnReceive,
     WorkerLeavesAlone, sendVars, ioVars
<1>2. LockInv' /\ RoomInv' /\ SocketInv'
  BY DEF LockInv, RoomInv, SocketInv, TypeOK, Socks, OnReceive, WorkerLeavesAlone,
     sendVars, ioVars
<1>3. FirstConnection' => FirstConnection
  BY StillFirst DEF OnReceive, WorkerLeavesAlone, sendVars, ioVars
<1>4. FirstConnection' => FreshInv'
  BY <1>3 DEF FirstConnection, FreshInv, SocketInv, LockInv, TypeOK, Socks, OnReceive,
     WorkerLeavesAlone, sendVars, ioVars
<1>5. FirstConnection' => PermissionInv'
  BY <1>3 DEF PermissionInv, FreshInv, SendingUntouched, TypeOK, OnReceive,
     WorkerLeavesAlone, sendVars, ioVars
<1>6. FirstConnection' => CollectedInv'
  BY <1>3 DEF CollectedInv, FreshInv, LockInv, RoomInv, TypeOK, OnReceive,
     WorkerLeavesAlone, sendVars, ioVars
<1>7. SendingUntouched' /\ NoEmptySend'
  BY <1>3 DEF SendingUntouched, NoEmptySend, PermissionInv, CollectedInv, FreshInv,
     TypeOK, OnReceive, WorkerLeavesAlone, sendVars, ioVars
<1>8. (FirstConnection' => WholeInv') /\ WholeMessages'
  BY <1>3, BuffersUntouched DEF OnReceive, WorkerLeavesAlone, sendVars, ioVars
<1> QED
  BY <1>1, <1>2, <1>4, <1>5, <1>6, <1>7, <1>8

LEMMA BindRecvStep ==
  ASSUME BufferInv, NEW w \in Workers, BindRecv(w)
  PROVE  BufferInv'
<1> USE DEF BufferInv, InsideBuffer
<1> USE SizeAssumption, ConnAssumption
<1>1. TypeOK' /\ fault' # "overrun"
  BY SMTT(30) DEF TypeOK, SocketInv, RoomInv, Conns, Socks, Running, BindRecv, PostReceive,
     Resting, WorkerLeavesAlone, sendVars, ioVars
<1>2. LockInv' /\ RoomInv' /\ SocketInv'
  BY DEF LockInv, RoomInv, SocketInv, TypeOK, Socks, BindRecv, PostReceive, Resting,
     WorkerLeavesAlone, sendVars, ioVars
<1>3. FirstConnection' => FirstConnection
  BY StillFirst DEF BindRecv, PostReceive, Resting, WorkerLeavesAlone, sendVars, ioVars
<1>4. FirstConnection' => FreshInv'
  BY <1>3 DEF FirstConnection, FreshInv, SocketInv, LockInv, TypeOK, Socks, BindRecv,
     PostReceive, Resting, WorkerLeavesAlone, sendVars, ioVars
<1>5. FirstConnection' => PermissionInv'
  BY <1>3 DEF PermissionInv, FreshInv, SendingUntouched, TypeOK, BindRecv, PostReceive,
     Resting, WorkerLeavesAlone, sendVars, ioVars
<1>6. FirstConnection' => CollectedInv'
  BY <1>3 DEF CollectedInv, FreshInv, LockInv, RoomInv, TypeOK, BindRecv, PostReceive,
     Resting, WorkerLeavesAlone, sendVars, ioVars
<1>7. SendingUntouched' /\ NoEmptySend'
  BY <1>3 DEF SendingUntouched, NoEmptySend, PermissionInv, CollectedInv, FreshInv,
     TypeOK, BindRecv, PostReceive, Resting, WorkerLeavesAlone, sendVars, ioVars
<1>8. (FirstConnection' => WholeInv') /\ WholeMessages'
  BY <1>3, BuffersUntouched DEF BindRecv, PostReceive, Resting, WorkerLeavesAlone,
     sendVars, ioVars
<1> QED
  BY <1>1, <1>2, <1>4, <1>5, <1>6, <1>7, <1>8

LEMMA TakeDisconnectStep ==
  ASSUME BufferInv, NEW w \in Workers, TakeDisconnect(w)
  PROVE  BufferInv'
<1> USE DEF BufferInv, InsideBuffer
<1> USE SizeAssumption, ConnAssumption
<1>1. TypeOK' /\ fault' # "overrun"
  BY DEF TypeOK, SocketInv, RoomInv, Conns, Socks, Running, TakeDisconnect,
     WorkerLeavesAlone, sendVars, ioVars
<1>2. LockInv' /\ RoomInv' /\ SocketInv'
  BY DEF LockInv, RoomInv, SocketInv, TypeOK, Socks, TakeDisconnect, WorkerLeavesAlone,
     sendVars, ioVars
<1>3. FirstConnection' => FirstConnection
  BY StillFirst DEF TakeDisconnect, WorkerLeavesAlone, sendVars, ioVars
<1>4. FirstConnection' => FreshInv'
  BY <1>3 DEF FirstConnection, FreshInv, SocketInv, LockInv, TypeOK, Socks,
     TakeDisconnect, WorkerLeavesAlone, sendVars, ioVars
<1>5. FirstConnection' => PermissionInv'
  BY <1>3 DEF PermissionInv, FreshInv, SendingUntouched, TypeOK, TakeDisconnect,
     WorkerLeavesAlone, sendVars, ioVars
<1>6. FirstConnection' => CollectedInv'
  BY <1>3 DEF CollectedInv, FreshInv, LockInv, RoomInv, TypeOK, TakeDisconnect,
     WorkerLeavesAlone, sendVars, ioVars
<1>7. SendingUntouched' /\ NoEmptySend'
  BY <1>3 DEF SendingUntouched, NoEmptySend, PermissionInv, CollectedInv, FreshInv,
     TypeOK, TakeDisconnect, WorkerLeavesAlone, sendVars, ioVars
<1>8. (FirstConnection' => WholeInv') /\ WholeMessages'
  BY <1>3, BuffersUntouched DEF TakeDisconnect, WorkerLeavesAlone, sendVars, ioVars
<1> QED
  BY <1>1, <1>2, <1>4, <1>5, <1>6, <1>7, <1>8

LEMMA TakeSentStep ==
  ASSUME BufferInv, NEW w \in Workers, TakeSent(w)
  PROVE  BufferInv'
<1> USE DEF BufferInv, InsideBuffer
<1> USE SizeAssumption, ConnAssumption
<1>1. TypeOK' /\ fault' # "overrun"
  BY DEF TypeOK, SocketInv, RoomInv, Conns, Socks, Running, TakeSent, NoIO,
     WorkerLeavesAlone, recvVars, sendVars
<1>2. LockInv' /\ RoomInv' /\ SocketInv'
  BY DEF LockInv, RoomInv, SocketInv, TypeOK, Socks, TakeSent, NoIO, WorkerLeavesAlone,
     recvVars, sendVars
<1>3. FirstConnection' => FirstConnection
  BY StillFirst DEF TakeSent, NoIO, WorkerLeavesAlone, recvVars, sendVars
<1>4. FirstConnection' => FreshInv'
  BY <1>3 DEF FirstConnection, FreshInv, SocketInv, LockInv, TypeOK, Socks, TakeSent,
     NoIO, WorkerLeavesAlone, recvVars, sendVars
<1>5. FirstConnection' => PermissionInv'
  BY <1>3 DEF PermissionInv, FreshInv, SendingUntouched, TypeOK, TakeSent, NoIO,
     WorkerLeavesAlone, recvVars, sendVars
<1>6. FirstConnection' => CollectedInv'
  BY <1>3 DEF CollectedInv, FreshInv, LockInv, RoomInv, TypeOK, TakeSent, NoIO,
     WorkerLeavesAlone, recvVars, sendVars
<1>7. SendingUntouched' /\ NoEmptySend'
  BY <1>3 DEF SendingUntouched, NoEmptySend, PermissionInv, CollectedInv, FreshInv,
     TypeOK, TakeSent, NoIO, WorkerLeavesAlone, recvVars, sendVars
<1>8. (FirstConnection' => WholeInv') /\ WholeMessages'
  BY <1>3, BuffersUntouched DEF TakeSent, NoIO, WorkerLeavesAlone, recvVars, sendVars
<1> QED
  BY <1>1, <1>2, <1>4, <1>5, <1>6, <1>7, <1>8

LEMMA SendCompletedStep ==
  ASSUME BufferInv, NEW w \in Workers, SendCompleted(w)
  PROVE  BufferInv'
<1> USE DEF BufferInv, InsideBuffer
<1> USE SizeAssumption, ConnAssumption
<1>1. TypeOK' /\ fault' # "overrun"
  <2>1. worker' \in [Workers -> [at : {"wait", "bindRecv", "sendCompleted", "close"}, sock : Socks]]
    BY DEF TypeOK, Socks, SendCompleted, Resting
  <2>2. mIsSending' \in BOOLEAN
    BY DEF SendCompleted
  <2>3. UNCHANGED <<sessionVars, recvVars, mSendLock, mSendPos, mSendBuf, mSendingBuf, ioVars,
                    processThread, sendThread, fault>>
    BY DEF SendCompleted, WorkerLeavesAlone, sessionVars
  <2> QED
    BY <2>1, <2>2, <2>3 DEF TypeOK, Running, SendCompleted, sessionVars, recvVars, ioVars
<1>2. LockInv' /\ RoomInv' /\ SocketInv'
  BY DEF LockInv, RoomInv, SocketInv, TypeOK, Socks, SendCompleted, Resting,
     WorkerLeavesAlone, recvVars, ioVars
<1>3. FirstConnection' => FirstConnection
  BY StillFirst DEF SendCompleted, Resting, WorkerLeavesAlone, recvVars, ioVars
<1>4. FirstConnection' => FreshInv'
  BY <1>3 DEF FirstConnection, FreshInv, SocketInv, LockInv, TypeOK, Socks,
     SendCompleted, Resting, WorkerLeavesAlone, recvVars, ioVars
<1>5. FirstConnection' => PermissionInv'
  BY <1>3 DEF PermissionInv, FreshInv, SendingUntouched, TypeOK, SendCompleted,
     Resting, WorkerLeavesAlone, recvVars, ioVars
<1>6. FirstConnection' => CollectedInv'
  BY <1>3 DEF CollectedInv, FreshInv, LockInv, RoomInv, TypeOK, SendCompleted, Resting,
     WorkerLeavesAlone, recvVars, ioVars
<1>7. SendingUntouched' /\ NoEmptySend'
  BY <1>3 DEF SendingUntouched, NoEmptySend, PermissionInv, CollectedInv, FreshInv,
     TypeOK, SendCompleted, Resting, WorkerLeavesAlone, recvVars, ioVars
<1>8. (FirstConnection' => WholeInv') /\ WholeMessages'
  BY <1>3, BuffersUntouched DEF SendCompleted, Resting, WorkerLeavesAlone, recvVars,
     ioVars
<1> QED
  BY <1>1, <1>2, <1>4, <1>5, <1>6, <1>7, <1>8

LEMMA CloseStep ==
  ASSUME BufferInv, NEW w \in Workers, Close(w)
  PROVE  BufferInv'
<1> USE DEF BufferInv, InsideBuffer
<1> USE SizeAssumption, ConnAssumption
<1>1. TypeOK' /\ fault' # "overrun"
  BY DEF TypeOK, SocketInv, RoomInv, Conns, Socks, Running, Close, Resting,
     WorkerLeavesAlone, recvVars, sendVars, ioVars
<1>2. LockInv' /\ RoomInv' /\ SocketInv'
  BY DEF LockInv, RoomInv, SocketInv, TypeOK, Socks, Close, Resting, WorkerLeavesAlone,
     recvVars, sendVars, ioVars
<1>3. FirstConnection' => FirstConnection
  BY StillFirst DEF Close, Resting, WorkerLeavesAlone, recvVars, sendVars, ioVars
<1>4. FirstConnection' => FreshInv'
  BY <1>3 DEF FirstConnection, FreshInv, SocketInv, LockInv, TypeOK, Socks, Close,
     Resting, WorkerLeavesAlone, recvVars, sendVars, ioVars
<1>5. FirstConnection' => PermissionInv'
  BY <1>3 DEF PermissionInv, FreshInv, SendingUntouched, TypeOK, Close, Resting,
     WorkerLeavesAlone, recvVars, sendVars, ioVars
<1>6. FirstConnection' => CollectedInv'
  BY <1>3 DEF CollectedInv, FreshInv, LockInv, RoomInv, TypeOK, Close, Resting,
     WorkerLeavesAlone, recvVars, sendVars, ioVars
<1>7. SendingUntouched' /\ NoEmptySend'
  BY <1>3 DEF SendingUntouched, NoEmptySend, PermissionInv, CollectedInv, FreshInv,
     TypeOK, Close, Resting, WorkerLeavesAlone, recvVars, sendVars, ioVars
<1>8. (FirstConnection' => WholeInv') /\ WholeMessages'
  BY <1>3, BuffersUntouched DEF Close, Resting, WorkerLeavesAlone, recvVars, sendVars,
     ioVars
<1> QED
  BY <1>1, <1>2, <1>4, <1>5, <1>6, <1>7, <1>8

LEMMA SendMsgStep ==
  ASSUME BufferInv, SendMsg
  PROVE  BufferInv'
<1> USE DEF BufferInv, InsideBuffer
<1> USE SizeAssumption, ConnAssumption
<1>1. TypeOK' /\ fault' # "overrun"
  BY SMTT(30) DEF TypeOK, SocketInv, RoomInv, Conns, Socks, Running, SendMsg, SenderLeavesAlone,
     LockIsFree, Overflows, sessionVars, ioVars
<1>2. LockInv' /\ RoomInv' /\ SocketInv'
  BY DEF LockInv, RoomInv, SocketInv, TypeOK, Socks, SendMsg, SenderLeavesAlone,
     LockIsFree, Overflows, sessionVars, ioVars
<1>3. FirstConnection' => FirstConnection
  BY StillFirst DEF SendMsg, SenderLeavesAlone, LockIsFree, Overflows, sessionVars,
     ioVars
<1>4. FirstConnection' => FreshInv'
  BY <1>3 DEF FirstConnection, FreshInv, SocketInv, LockInv, TypeOK, Socks, SendMsg,
     SenderLeavesAlone, LockIsFree, Overflows, sessionVars, ioVars
<1>5. FirstConnection' => PermissionInv'
  BY <1>3 DEF PermissionInv, FreshInv, SendingUntouched, TypeOK, SendMsg,
     SenderLeavesAlone, LockIsFree, Overflows, sessionVars, ioVars
<1>6. FirstConnection' => CollectedInv'
  BY <1>3 DEF CollectedInv, FreshInv, LockInv, RoomInv, TypeOK, SendMsg,
     SenderLeavesAlone, LockIsFree, Overflows, sessionVars, ioVars
<1>7. SendingUntouched' /\ NoEmptySend'
  BY <1>3 DEF SendingUntouched, NoEmptySend, PermissionInv, CollectedInv, FreshInv,
     TypeOK, SendMsg, SenderLeavesAlone, LockIsFree, Overflows, sessionVars, ioVars
<1>8. FirstConnection' => WholeInv'
  <2>1. mSendPos' = 0 \/ mSendPos' = mSendPos
    BY DEF SendMsg
  <2>2. FirstConnection => Whole(Collected)'
    <3>1. CASE mSendPos' = 0
      <4>1. Collected' = << >>
        BY <3>1, SubSeqEmpty DEF Collected
      <4> QED
        BY <4>1, WholeNone
    <3>2. CASE mSendPos' = mSendPos
      BY <3>2 DEF WholeInv, Collected, SendMsg
    <3> QED
      BY <2>1, <3>1, <3>2
  <2> QED
    BY <1>3, <2>2 DEF WholeInv, SendMsg, SenderLeavesAlone, LockInv, LockIsFree
<1>9. WholeMessages'
  BY <1>3 DEF WholeMessages, Sending, SendMsg, SenderLeavesAlone, LockIsFree,
     Overflows, sessionVars, ioVars
<1> QED
  BY <1>1, <1>2, <1>4, <1>5, <1>6, <1>7, <1>8, <1>9

LEMMA CopyMsgStep ==
  ASSUME BufferInv, CopyMsg
  PROVE  BufferInv'
<1> USE DEF BufferInv, InsideBuffer
<1> USE SizeAssumption, ConnAssumption
<1>1. TypeOK' /\ fault' # "overrun"
  <2> DEFINE m == processThread.msg
  <2>1. m \in Messages /\ mSendPos \in Nat /\ Size[m] \in 1 .. MAX_SOCK_SENDBUF
    BY DEF CopyMsg, RoomInv, TypeOK
  <2>2. \A i \in mSendPos + 1 .. mSendPos + Size[m] : i - mSendPos \in 1 .. MAX_SOCK_SENDBUF
    BY <2>1
  <2>3. mSendBuf' \in Buffers
    BY <2>1, <2>2 DEF CopyMsg, TypeOK, Buffers, Byte
  <2>4. mSendPos + 1 .. mSendPos + Size[m] \subseteq DOMAIN mSendBuf
    BY <2>1 DEF CopyMsg, RoomInv, TypeOK, Buffers
  <2>5. fault' = fault
    BY <2>4 DEF CopyMsg
  <2> QED
    BY ZenonT(40), <2>3, <2>5 DEF TypeOK, Running, CopyMsg, SenderLeavesAlone, sessionVars, ioVars
<1>2. LockInv' /\ RoomInv' /\ SocketInv'
  BY DEF LockInv, RoomInv, SocketInv, TypeOK, Socks, CopyMsg, SenderLeavesAlone,
     sessionVars, ioVars
<1>3. FirstConnection' => FirstConnection
  BY StillFirst DEF CopyMsg, SenderLeavesAlone, sessionVars, ioVars
<1>4. FirstConnection' => FreshInv'
  BY <1>3 DEF FirstConnection, FreshInv, SocketInv, LockInv, TypeOK, Socks, CopyMsg,
     SenderLeavesAlone, sessionVars, ioVars
<1>5. FirstConnection' => PermissionInv'
  BY <1>3 DEF PermissionInv, FreshInv, SendingUntouched, TypeOK, CopyMsg,
     SenderLeavesAlone, sessionVars, ioVars
<1>6. FirstConnection' => CollectedInv'
  BY <1>3 DEF CollectedInv, FreshInv, LockInv, RoomInv, TypeOK, CopyMsg,
     SenderLeavesAlone, sessionVars, ioVars
<1>7. SendingUntouched' /\ NoEmptySend'
  BY <1>3 DEF SendingUntouched, NoEmptySend, PermissionInv, CollectedInv, FreshInv,
     TypeOK, CopyMsg, SenderLeavesAlone, sessionVars, ioVars
<1>8. FirstConnection' => WholeInv'
  <2> DEFINE m == processThread.msg
  <2>1. /\ m \in Messages /\ mSendPos \in Nat /\ Size[m] \in Nat
        /\ mSendPos + Size[m] <= MAX_SOCK_SENDBUF
    BY DEF CopyMsg, RoomInv, TypeOK
  <2>2. \A i \in 1 .. mSendPos : mSendBuf'[i] = mSendBuf[i]
    BY <2>1 DEF CopyMsg, TypeOK, Buffers
  <2>3. \A k \in 1 .. Size[m] : mSendBuf'[mSendPos + k] = <<m, k>>
    BY SMTT(30), <2>1 DEF CopyMsg, TypeOK, Buffers
  <2>4. Collected' = Collected
    <3>1. mSendBuf \in Buffers /\ mSendBuf' \in Buffers /\ mSendPos \in 0 .. MAX_SOCK_SENDBUF
      BY <1>1 DEF TypeOK
    <3>2. SubSeq(mSendBuf', 1, mSendPos) = SubSeq(mSendBuf, 1, mSendPos)
      BY <2>2, <3>1, SameBytes
    <3> QED
      BY <3>2 DEF Collected, CopyMsg
  <2>5. sendThread # "send" /\ UNCHANGED sendThread
    BY DEF CopyMsg, LockInv, SenderLeavesAlone
  <2>6. processThread'.msg = m /\ processThread'.pos = mSendPos /\ mSendPos' = mSendPos
    BY DEF CopyMsg, TypeOK
  <2> QED
    BY <1>3, <2>3, <2>4, <2>5, <2>6 DEF WholeInv
<1>9. WholeMessages'
  BY <1>3 DEF WholeMessages, Sending, CopyMsg, SenderLeavesAlone, sessionVars, ioVars
<1> QED
  BY <1>1, <1>2, <1>4, <1>5, <1>6, <1>7, <1>8, <1>9

LEMMA AddSizeStep ==
  ASSUME BufferInv, AddSize
  PROVE  BufferInv'
<1> USE DEF BufferInv, InsideBuffer
<1> USE SizeAssumption, ConnAssumption
<1>1. TypeOK' /\ fault' # "overrun"
  <2>1. mSendPos' \in 0 .. MAX_SOCK_SENDBUF
    BY DEF TypeOK, RoomInv, AddSize
  <2>2. processThread' \in [at : {"wait", "copy", "add"}, msg : Messages \cup {Nothing},
                            pos : 0 .. MAX_SOCK_SENDBUF]
    BY DEF AddSize, NoMsg
  <2> QED
    BY <2>1, <2>2 DEF TypeOK, Running, AddSize, SenderLeavesAlone, sessionVars, ioVars
<1>2. LockInv' /\ RoomInv' /\ SocketInv'
  BY DEF LockInv, RoomInv, SocketInv, TypeOK, Socks, AddSize, SenderLeavesAlone, NoMsg,
     sessionVars, ioVars
<1>3. FirstConnection' => FirstConnection
  BY StillFirst DEF AddSize, SenderLeavesAlone, NoMsg, sessionVars, ioVars
<1>4. FirstConnection' => FreshInv'
  BY <1>3 DEF FirstConnection, FreshInv, SocketInv, LockInv, TypeOK, Socks, AddSize,
     SenderLeavesAlone, NoMsg, sessionVars, ioVars
<1>5. FirstConnection' => PermissionInv'
  BY <1>3 DEF PermissionInv, FreshInv, SendingUntouched, TypeOK, AddSize,
     SenderLeavesAlone, NoMsg, sessionVars, ioVars
<1>6. FirstConnection' => CollectedInv'
  BY <1>3 DEF CollectedInv, FreshInv, LockInv, RoomInv, TypeOK, AddSize,
     SenderLeavesAlone, NoMsg, sessionVars, ioVars
<1>7. SendingUntouched' /\ NoEmptySend'
  BY <1>3 DEF SendingUntouched, NoEmptySend, PermissionInv, CollectedInv, FreshInv,
     TypeOK, AddSize, SenderLeavesAlone, NoMsg, sessionVars, ioVars
<1>8. FirstConnection' => WholeInv'
  <2> SUFFICES ASSUME FirstConnection PROVE WholeInv'
    BY <1>3
  <2> DEFINE m == processThread.msg
  <2>1. /\ m \in Messages /\ mSendPos \in 0 .. MAX_SOCK_SENDBUF
        /\ mSendPos + Size[m] <= MAX_SOCK_SENDBUF
    BY DEF AddSize, RoomInv, TypeOK
  <2>2. processThread.pos = mSendPos /\ \A k \in 1 .. Size[m] : mSendBuf[mSendPos + k] = <<m, k>>
    BY DEF AddSize, WholeInv
  <2>3. mSendPos' = mSendPos + Size[m] /\ mSendBuf' = mSendBuf
    BY <2>2 DEF AddSize
  <2>4. Collected' = Collected \o Bytes(m)
    BY <2>1, <2>2, <2>3, OneMore DEF Collected, TypeOK
  <2>5. /\ Collected \in Seq(Byte) /\ Bytes(m) \in Seq(Byte)
        /\ Whole(Collected) /\ Whole(Bytes(m))
    BY <2>1, FirstBytes, PacketBytes, WholePacket DEF Collected, TypeOK, WholeInv
  <2>6. Whole(Collected)'
    BY <2>4, <2>5, WholeConcat
  <2>7. sendThread' # "send" /\ processThread'.at # "add"
    BY DEF AddSize, LockInv, SenderLeavesAlone, NoMsg
  <2> QED
    BY <2>6, <2>7 DEF WholeInv
<1>9. WholeMessages'
  BY <1>3 DEF WholeMessages, Sending, AddSize, SenderLeavesAlone, NoMsg, sessionVars,
     ioVars
<1> QED
  BY <1>1, <1>2, <1>4, <1>5, <1>6, <1>7, <1>8, <1>9

LEMMA PollStep ==
  ASSUME BufferInv, Poll
  PROVE  BufferInv'
<1> USE DEF BufferInv, InsideBuffer
<1> USE SizeAssumption, ConnAssumption
<1>1. TypeOK' /\ fault' # "overrun"
  BY DEF TypeOK, SocketInv, RoomInv, Conns, Socks, Running, Poll, NothingCollected,
     MayNotSend, PollLeavesAlone, sessionVars, recvVars, sendVars, ioVars
<1>2. LockInv' /\ RoomInv' /\ SocketInv'
  BY DEF LockInv, RoomInv, SocketInv, TypeOK, Socks, Poll, NothingCollected,
     MayNotSend, PollLeavesAlone, sessionVars, recvVars, sendVars, ioVars
<1>3. FirstConnection' => FirstConnection
  BY StillFirst DEF Poll, NothingCollected, MayNotSend, PollLeavesAlone, sessionVars,
     recvVars, sendVars, ioVars
<1>4. FirstConnection' => FreshInv'
  BY <1>3 DEF FirstConnection, FreshInv, SocketInv, LockInv, TypeOK, Socks, Poll,
     NothingCollected, MayNotSend, PollLeavesAlone, sessionVars, recvVars, sendVars,
     ioVars
<1>5. FirstConnection' => PermissionInv'
  BY <1>3 DEF PermissionInv, FreshInv, SendingUntouched, TypeOK, Poll,
     NothingCollected, MayNotSend, PollLeavesAlone, sessionVars, recvVars, sendVars,
     ioVars
<1>6. FirstConnection' => CollectedInv'
  BY <1>3 DEF CollectedInv, FreshInv, LockInv, RoomInv, TypeOK, Poll, NothingCollected,
     MayNotSend, PollLeavesAlone, sessionVars, recvVars, sendVars, ioVars
<1>7. SendingUntouched' /\ NoEmptySend'
  BY <1>3 DEF SendingUntouched, NoEmptySend, PermissionInv, CollectedInv, FreshInv,
     TypeOK, Poll, NothingCollected, MayNotSend, PollLeavesAlone, sessionVars,
     recvVars, sendVars, ioVars
<1>8. (FirstConnection' => WholeInv') /\ WholeMessages'
  BY <1>3, BuffersUntouched DEF Poll, NothingCollected, MayNotSend, PollLeavesAlone,
     sessionVars, recvVars, sendVars, ioVars
<1> QED
  BY <1>1, <1>2, <1>4, <1>5, <1>6, <1>7, <1>8

LEMMA SendIOStep ==
  ASSUME BufferInv, SendIO
  PROVE  BufferInv'
<1> USE DEF BufferInv, InsideBuffer
<1> USE SizeAssumption, ConnAssumption
<1>1. TypeOK' /\ fault' # "overrun"
  BY DEF TypeOK, SocketInv, RoomInv, Conns, Socks, Running, SendIO, LockIsFree,
     PollLeavesAlone, sessionVars, recvVars, ioVars
<1>2. LockInv' /\ RoomInv' /\ SocketInv'
  BY DEF LockInv, RoomInv, SocketInv, TypeOK, Socks, SendIO, LockIsFree,
     PollLeavesAlone, sessionVars, recvVars, ioVars
<1>3. FirstConnection' => FirstConnection
  BY StillFirst DEF SendIO, LockIsFree, PollLeavesAlone, sessionVars, recvVars, ioVars
<1>4. FirstConnection' => FreshInv'
  BY <1>3 DEF FirstConnection, FreshInv, SocketInv, LockInv, TypeOK, Socks, SendIO,
     LockIsFree, PollLeavesAlone, sessionVars, recvVars, ioVars
<1>5. FirstConnection' => PermissionInv'
  BY <1>3 DEF PermissionInv, FreshInv, SendingUntouched, TypeOK, SendIO, LockIsFree,
     PollLeavesAlone, sessionVars, recvVars, ioVars
<1>6. FirstConnection' => CollectedInv'
  BY <1>3 DEF CollectedInv, FreshInv, LockInv, RoomInv, TypeOK, SendIO, LockIsFree,
     PollLeavesAlone, sessionVars, recvVars, ioVars
<1>7. SendingUntouched' /\ NoEmptySend'
  BY <1>3 DEF SendingUntouched, NoEmptySend, PermissionInv, CollectedInv, FreshInv,
     TypeOK, SendIO, LockIsFree, PollLeavesAlone, sessionVars, recvVars, ioVars
<1>8. (FirstConnection' => WholeInv') /\ WholeMessages'
  BY <1>3, BuffersUntouched DEF SendIO, LockIsFree, PollLeavesAlone, sessionVars,
     recvVars, ioVars
<1> QED
  BY <1>1, <1>2, <1>4, <1>5, <1>6, <1>7, <1>8

LEMMA CopyCollectedStep ==
  ASSUME BufferInv, CopyCollected
  PROVE  BufferInv'
<1> USE DEF BufferInv, InsideBuffer
<1> USE SizeAssumption, ConnAssumption
<1>1. TypeOK' /\ fault' # "overrun"
  <2>1. mSendingBuf' \in Buffers
    BY Overwritten DEF CopyCollected, TypeOK
  <2> QED
    BY <2>1 DEF TypeOK, Running, CopyCollected, PollLeavesAlone, sessionVars, recvVars, ioVars
<1>2. LockInv' /\ RoomInv' /\ SocketInv'
  BY DEF LockInv, RoomInv, SocketInv, TypeOK, Socks, CopyCollected, PollLeavesAlone,
     sessionVars, recvVars, ioVars
<1>3. FirstConnection' => FirstConnection
  BY StillFirst DEF CopyCollected, PollLeavesAlone, sessionVars, recvVars, ioVars
<1>4. FirstConnection' => FreshInv'
  BY <1>3 DEF FirstConnection, FreshInv, SocketInv, LockInv, TypeOK, Socks,
     CopyCollected, PollLeavesAlone, sessionVars, recvVars, ioVars
<1>5. FirstConnection' => PermissionInv'
  BY <1>3 DEF PermissionInv, FreshInv, SendingUntouched, TypeOK, CopyCollected,
     PollLeavesAlone, sessionVars, recvVars, ioVars
<1>6. FirstConnection' => CollectedInv'
  BY <1>3 DEF CollectedInv, FreshInv, LockInv, RoomInv, TypeOK, CopyCollected,
     PollLeavesAlone, sessionVars, recvVars, ioVars
<1>7. SendingUntouched' /\ NoEmptySend'
  BY <1>3 DEF SendingUntouched, NoEmptySend, PermissionInv, CollectedInv, FreshInv,
     TypeOK, CopyCollected, PollLeavesAlone, sessionVars, recvVars, ioVars
<1>8. FirstConnection' => WholeInv'
  <2>1. \A i \in 1 .. mSendPos : mSendingBuf'[i] = mSendBuf[i]
    BY Overwritten DEF CopyCollected, TypeOK
  <2>2. Collected' = Collected /\ processThread' = processThread
    BY DEF Collected, CopyCollected, PollLeavesAlone
  <2>3. UNCHANGED <<mSendBuf, mSendPos>>
    BY DEF CopyCollected
  <2> QED
    BY <1>3, <2>1, <2>2, <2>3 DEF WholeInv
<1>9. WholeMessages'
  BY <1>3 DEF WholeMessages, Sending, PermissionInv, SendingUntouched, CopyCollected, ioVars
<1> QED
  BY <1>1, <1>2, <1>4, <1>5, <1>6, <1>7, <1>8, <1>9

LEMMA WSASendStep ==
  ASSUME BufferInv, WSASend
  PROVE  BufferInv'
<1> USE DEF BufferInv, InsideBuffer
<1> USE SizeAssumption, ConnAssumption
<1>1. TypeOK' /\ fault' # "overrun"
  <2>1. sendIO' \in [sock : Socks, len : 0 .. MAX_SOCK_SENDBUF,
                     is : {"none", "kernel", "done", "failed"}]
    BY DEF TypeOK, WSASend
  <2>2. fault' \in {"none", "sendOverlap"}
    BY DEF Running, WSASend
  <2> QED
    BY <2>1, <2>2 DEF TypeOK, WSASend, PollLeavesAlone, sessionVars, recvVars
<1>2. LockInv' /\ RoomInv' /\ SocketInv'
  BY DEF LockInv, RoomInv, SocketInv, TypeOK, Socks, WSASend, PollLeavesAlone,
     sessionVars, recvVars
<1>3. FirstConnection' => FirstConnection
  BY StillFirst DEF WSASend, PollLeavesAlone, sessionVars, recvVars
<1>4. FirstConnection' => FreshInv'
  BY <1>3 DEF FirstConnection, FreshInv, SocketInv, LockInv, TypeOK, Socks, WSASend,
     PollLeavesAlone, sessionVars, recvVars
<1>5. FirstConnection' => PermissionInv'
  BY <1>3 DEF PermissionInv, FreshInv, SendingUntouched, TypeOK, WSASend,
     PollLeavesAlone, sessionVars, recvVars
<1>6. FirstConnection' => CollectedInv'
  BY <1>3 DEF CollectedInv, FreshInv, LockInv, RoomInv, TypeOK, WSASend,
     PollLeavesAlone, sessionVars, recvVars
<1>7. SendingUntouched' /\ NoEmptySend'
  BY <1>3 DEF SendingUntouched, NoEmptySend, PermissionInv, CollectedInv, FreshInv,
     TypeOK, WSASend, PollLeavesAlone, sessionVars, recvVars
<1>8. FirstConnection' => WholeInv'
  BY <1>3 DEF WholeInv, Collected, WSASend, PollLeavesAlone
<1>9. WholeMessages'
  <2>1. UNCHANGED wire
    BY DEF WSASend
  <2>2. CASE sendIO' = sendIO
    BY <1>3, <2>1, <2>2 DEF WholeMessages, Sending, WSASend
  <2>3. CASE sendIO' = [sock |-> mSock, len |-> mSendPos, is |-> "kernel"]
    <3>1. Sending' = SubSeq(mSendingBuf, 1, mSendPos)
      BY <2>3 DEF Sending, WSASend
    <3>2. FirstConnection => Sending' = Collected
      BY <3>1, SameBytes DEF Collected, WholeInv, TypeOK, WSASend
    <3> QED
      BY <1>3, <2>1, <3>2 DEF WholeMessages, WholeInv
  <2> QED
    BY <2>2, <2>3 DEF WSASend
<1> QED
  BY <1>1, <1>2, <1>4, <1>5, <1>6, <1>7, <1>8, <1>9

LEMMA ResetPosStep ==
  ASSUME BufferInv, ResetPos
  PROVE  BufferInv'
<1> USE DEF BufferInv, InsideBuffer
<1> USE SizeAssumption, ConnAssumption
<1>1. TypeOK' /\ fault' # "overrun"
  BY DEF TypeOK, SocketInv, RoomInv, Conns, Socks, Running, ResetPos, PollLeavesAlone,
     sessionVars, recvVars, ioVars
<1>2. LockInv' /\ RoomInv' /\ SocketInv'
  BY DEF LockInv, RoomInv, SocketInv, TypeOK, Socks, ResetPos, PollLeavesAlone,
     sessionVars, recvVars, ioVars
<1>3. FirstConnection' => FirstConnection
  BY StillFirst DEF ResetPos, PollLeavesAlone, sessionVars, recvVars, ioVars
<1>4. FirstConnection' => FreshInv'
  BY <1>3 DEF FirstConnection, FreshInv, SocketInv, LockInv, TypeOK, Socks, ResetPos,
     PollLeavesAlone, sessionVars, recvVars, ioVars
<1>5. FirstConnection' => PermissionInv'
  BY <1>3 DEF PermissionInv, FreshInv, SendingUntouched, TypeOK, ResetPos,
     PollLeavesAlone, sessionVars, recvVars, ioVars
<1>6. FirstConnection' => CollectedInv'
  BY <1>3 DEF CollectedInv, FreshInv, LockInv, RoomInv, TypeOK, ResetPos,
     PollLeavesAlone, sessionVars, recvVars, ioVars
<1>7. SendingUntouched' /\ NoEmptySend'
  BY <1>3 DEF SendingUntouched, NoEmptySend, PermissionInv, CollectedInv, FreshInv,
     TypeOK, ResetPos, PollLeavesAlone, sessionVars, recvVars, ioVars
<1>8. FirstConnection' => WholeInv'
  <2>1. Collected' = << >>
    BY SubSeqEmpty DEF Collected, ResetPos
  <2> QED
    BY <2>1, WholeNone DEF WholeInv, ResetPos, PollLeavesAlone, LockInv
<1>9. WholeMessages'
  BY <1>3 DEF WholeMessages, Sending, ResetPos, PollLeavesAlone, sessionVars, recvVars,
     ioVars
<1> QED
  BY <1>1, <1>2, <1>4, <1>5, <1>6, <1>7, <1>8, <1>9

LEMMA TransmitStep ==
  ASSUME BufferInv, Transmit
  PROVE  BufferInv'
<1> USE DEF BufferInv, InsideBuffer
<1> USE SizeAssumption, ConnAssumption
<1>1. TypeOK' /\ fault' # "overrun"
  <2>1. sendIO.sock \in Conns /\ sendIO.len \in 0 .. MAX_SOCK_SENDBUF
    BY DEF TypeOK, SocketInv, Conns, Socks, Transmit
  <2>2. SubSeq(mSendingBuf, 1, sendIO.len) \in Seq(Byte) /\ wire[sendIO.sock] \in Seq(Byte)
    BY <2>1, FirstBytes DEF TypeOK
  <2>3. wire[sendIO.sock] \o SubSeq(mSendingBuf, 1, sendIO.len) \in Seq(Byte)
    BY <2>2, ConcatProperties
  <2> HIDE DEF Byte
  <2>4. wire' \in [Conns -> Seq(Byte)]
    BY <2>3 DEF TypeOK, Transmit
  <2>5. sendIO' \in [sock : Socks, len : 0 .. MAX_SOCK_SENDBUF,
                     is : {"none", "kernel", "done", "failed"}]
    BY SMTT(30) DEF TypeOK, Transmit, Report, NoIO, Socks
  <2> QED
    BY <2>4, <2>5 DEF TypeOK, Running, Transmit, KernelLeavesAlone, sessionVars, recvVars, sendVars
<1>2. LockInv' /\ RoomInv' /\ SocketInv'
  BY DEF LockInv, RoomInv, SocketInv, TypeOK, Socks, Transmit, Report, NoIO,
     KernelLeavesAlone, sessionVars, recvVars, sendVars
<1>3. FirstConnection' => FirstConnection
  BY StillFirst DEF Transmit, Report, NoIO, KernelLeavesAlone, sessionVars, recvVars,
     sendVars
<1>4. FirstConnection' => FreshInv'
  BY <1>3 DEF FirstConnection, FreshInv, SocketInv, LockInv, TypeOK, Socks, Transmit,
     Report, NoIO, KernelLeavesAlone, sessionVars, recvVars, sendVars
<1>5. FirstConnection' => PermissionInv'
  BY <1>3 DEF PermissionInv, FreshInv, SendingUntouched, TypeOK, Transmit, Report,
     NoIO, KernelLeavesAlone, sessionVars, recvVars, sendVars
<1>6. FirstConnection' => CollectedInv'
  BY <1>3 DEF CollectedInv, FreshInv, LockInv, RoomInv, TypeOK, Transmit, Report, NoIO,
     KernelLeavesAlone, sessionVars, recvVars, sendVars
<1>7. SendingUntouched' /\ NoEmptySend'
  BY <1>3 DEF SendingUntouched, NoEmptySend, PermissionInv, CollectedInv, FreshInv,
     TypeOK, Transmit, Report, NoIO, KernelLeavesAlone, sessionVars, recvVars, sendVars
<1>8. FirstConnection' => WholeInv'
  BY <1>3 DEF WholeInv, Collected, Transmit, KernelLeavesAlone, sendVars
<1>9. WholeMessages'
  <2> SUFFICES ASSUME FirstConnection PROVE WholeMessages'
    BY <1>3 DEF WholeMessages
  <2> DEFINE c == sendIO.sock
             s == SubSeq(mSendingBuf, 1, sendIO.len)
  <2>1. c \in Conns /\ sendIO.len \in 0 .. MAX_SOCK_SENDBUF
    BY DEF TypeOK, SocketInv, Conns, Socks, Transmit
  <2>2. s \in Seq(Byte) /\ wire[c] \in Seq(Byte) /\ Whole(s) /\ Whole(wire[c])
    BY <2>1, FirstBytes DEF TypeOK, WholeMessages, Sending, Transmit
  <2>3. Whole(wire[c] \o s)
    BY <2>2, WholeConcat
  <2>4. \A d \in Conns : wire'[d] = IF d = c THEN wire[c] \o s ELSE wire[d]
    BY DEF TypeOK, Transmit
  <2>5. \A d \in Conns : Whole(wire'[d])
    BY <2>3, <2>4 DEF WholeMessages
  <2>6. Sending' = << >>
    BY DEF Sending, Transmit, Report, NoIO
  <2> QED
    BY <2>5, <2>6, WholeNone DEF WholeMessages
<1> QED
  BY <1>1, <1>2, <1>4, <1>5, <1>6, <1>7, <1>8, <1>9

LEMMA FailStep ==
  ASSUME BufferInv, Fail
  PROVE  BufferInv'
<1> USE DEF BufferInv, InsideBuffer
<1> USE SizeAssumption, ConnAssumption
<1>1. TypeOK' /\ fault' # "overrun"
  <2>1. sendIO' \in [sock : Socks, len : 0 .. MAX_SOCK_SENDBUF,
                     is : {"none", "kernel", "done", "failed"}]
    <3>1. sendIO' = NoIO \/ sendIO' = [sendIO EXCEPT !.is = "failed"]
      BY DEF Fail, Report
    <3>2. 0 \in Socks
      BY DEF Socks
    <3> QED
      <4>1. NoIO \in [sock : Socks, len : 0 .. MAX_SOCK_SENDBUF,
                      is : {"none", "kernel", "done", "failed"}]
        BY <3>2 DEF NoIO
      <4>2. [sendIO EXCEPT !.is = "failed"] \in [sock : Socks, len : 0 .. MAX_SOCK_SENDBUF,
                                                 is : {"none", "kernel", "done", "failed"}]
        BY DEF TypeOK
      <4> QED
        BY <3>1, <4>1, <4>2
  <2> QED
    BY <2>1 DEF TypeOK, Running, Fail, KernelLeavesAlone, sessionVars, recvVars, sendVars
<1>2. LockInv' /\ RoomInv' /\ SocketInv'
  BY DEF LockInv, RoomInv, SocketInv, TypeOK, Socks, Fail, Report, NoIO,
     KernelLeavesAlone, sessionVars, recvVars, sendVars
<1>3. FirstConnection' => FirstConnection
  BY StillFirst DEF Fail, Report, NoIO, KernelLeavesAlone, sessionVars, recvVars,
     sendVars
<1>4. FirstConnection' => FreshInv'
  BY <1>3 DEF FirstConnection, FreshInv, SocketInv, LockInv, TypeOK, Socks, Fail,
     Report, NoIO, KernelLeavesAlone, sessionVars, recvVars, sendVars
<1>5. FirstConnection' => PermissionInv'
  BY <1>3 DEF PermissionInv, FreshInv, SendingUntouched, TypeOK, Fail, Report, NoIO,
     KernelLeavesAlone, sessionVars, recvVars, sendVars
<1>6. FirstConnection' => CollectedInv'
  BY <1>3 DEF CollectedInv, FreshInv, LockInv, RoomInv, TypeOK, Fail, Report, NoIO,
     KernelLeavesAlone, sessionVars, recvVars, sendVars
<1>7. SendingUntouched' /\ NoEmptySend'
  BY <1>3 DEF SendingUntouched, NoEmptySend, PermissionInv, CollectedInv, FreshInv,
     TypeOK, Fail, Report, NoIO, KernelLeavesAlone, sessionVars, recvVars, sendVars
<1>8. (FirstConnection' => WholeInv') /\ WholeMessages'
  BY <1>3, BuffersUntouched DEF Fail, Report, NoIO, KernelLeavesAlone, sessionVars,
     recvVars, sendVars
<1> QED
  BY <1>1, <1>2, <1>4, <1>5, <1>6, <1>7, <1>8

------------------------------------------------------------------------------
(* It holds at first, and every step keeps it. *)
LEMMA InitInv == Init => BufferInv
<1> SUFFICES ASSUME Init PROVE BufferInv
  OBVIOUS
<1> USE SizeAssumption, ConnAssumption
<1>1. [i \in 1 .. MAX_SOCK_SENDBUF |-> Nothing] \in Buffers
  BY DEF Buffers, Byte
<1>2. mSendBuf \in Buffers /\ mSendingBuf \in Buffers
  BY <1>1 DEF Init
<1>3. TypeOK
  <2>1. mIsSending \in BOOLEAN
    BY DEF Init
  <2>2. /\ mSock \in Socks /\ conns \in Socks /\ recvIO \in Socks
        /\ mSendPos \in 0 .. MAX_SOCK_SENDBUF
    BY DEF Init, Socks
  <2>3. sendIO \in [sock : Socks, len : 0 .. MAX_SOCK_SENDBUF,
                   is : {"none", "kernel", "done", "failed"}]
    BY DEF Init, NoIO, Socks
  <2>4. worker \in [Workers -> [at : {"wait", "bindRecv", "sendCompleted", "close"},
                               sock : Socks]]
    BY DEF Init, Resting, Socks
  <2>5. processThread \in [at : {"wait", "copy", "add"}, msg : Messages \cup {Nothing},
                          pos : 0 .. MAX_SOCK_SENDBUF]
    BY DEF Init, NoMsg
  <2>6. wire \in [Conns -> Seq(Byte)] /\ mPacketDataQueue \in Seq(Messages)
    BY DEF Init
  <2> QED
    BY <1>2, <2>1, <2>2, <2>3, <2>4, <2>5, <2>6 DEF Init, TypeOK
<1>4. Collected = << >> /\ Sending = << >>
  BY SubSeqEmpty DEF Init, Collected, Sending, NoIO
<1>5. WholeInv /\ WholeMessages
  BY <1>4, WholeNone DEF Init, WholeInv, WholeMessages, NoMsg
<1>6. LockInv /\ RoomInv /\ SocketInv
  BY DEF Init, LockInv, RoomInv, SocketInv, NoMsg, NoIO
<1>7. FreshInv /\ PermissionInv /\ CollectedInv /\ SendingUntouched /\ NoEmptySend
  BY DEF Init, FreshInv, PermissionInv, CollectedInv, SendingUntouched, NoEmptySend, NoMsg,
     NoIO, Resting
<1> QED
  BY <1>3, <1>5, <1>6, <1>7 DEF BufferInv, InsideBuffer, Init

LEMMA NextInv == BufferInv /\ [Next]_vars => BufferInv'
<1> SUFFICES ASSUME BufferInv, [Next]_vars PROVE BufferInv'
  OBVIOUS
<1>1. CASE UNCHANGED vars
  <2> USE <1>1 DEF vars, sessionVars, recvVars, sendVars, ioVars, BufferInv
  <2>1. InsideBuffer' /\ LockInv' /\ RoomInv' /\ SocketInv'
    BY DEF InsideBuffer, TypeOK, LockInv, RoomInv, SocketInv
  <2>2. FirstConnection' = FirstConnection
    BY DEF FirstConnection
  <2>3. FirstConnection' => FreshInv' /\ PermissionInv' /\ CollectedInv' /\ WholeInv'
    BY <2>2 DEF FreshInv, PermissionInv, CollectedInv, WholeInv, Collected
  <2>4. SendingUntouched' /\ NoEmptySend' /\ WholeMessages'
    BY <2>2 DEF SendingUntouched, NoEmptySend, WholeMessages, Sending
  <2> QED
    BY <2>1, <2>3, <2>4
<1> QED
  BY <1>1, GetEmptyClientInfoStep, OnConnectStep, ClearPosStep, ClearSendingStep, BindStep,
     OnReceiveStep, BindRecvStep, TakeDisconnectStep, TakeSentStep, SendCompletedStep, CloseStep,
     SendMsgStep, CopyMsgStep, AddSizeStep, PollStep, SendIOStep, CopyCollectedStep, WSASendStep,
     ResetPosStep, TransmitStep, FailStep
  DEF Next, AccepterStep, WorkerStep, ProcessStep, SendThreadStep

(* The inductive invariant of stage 5's session. *)
THEOREM Invariance == Spec => []BufferInv
BY InitInv, NextInv, PTL DEF Spec

(* Every variable keeps its type, mSendPos in particular its bound, and no   *)
(* message is copied past the end of mSendBuf, however often the session is *)
(* connected again.                                                         *)
THEOREM InsideBufferTheorem == Spec => []InsideBuffer
<1>1. BufferInv => InsideBuffer
  BY DEF BufferInv
<1> QED
  BY <1>1, Invariance, PTL

(* On a session's first connection the buffer being sent is left alone until *)
(* the worker reports it sent.                                              *)
THEOREM SendingUntouchedTheorem == Spec => []SendingUntouched
<1>1. BufferInv => SendingUntouched
  BY DEF BufferInv
<1> QED
  BY <1>1, Invariance, PTL

(* On a session's first connection SendIO posts no send of 0 bytes.  On a     *)
(* later one it may: OnConnect's Clear does not take mSendLock, and may set *)
(* mSendPos to 0 between SendIO's test and its WSASend.                     *)
THEOREM NoEmptySendTheorem == Spec => []NoEmptySend
<1>1. BufferInv => NoEmptySend
  BY DEF BufferInv
<1> QED
  BY <1>1, Invariance, PTL

(* What the peer of a session's first connection gets is a row of whole      *)
(* messages.  On a later one Clear may cut a message off.                   *)
THEOREM WholeMessagesTheorem == Spec => []WholeMessages
<1>1. BufferInv => WholeMessages
  BY DEF BufferInv
<1> QED
  BY <1>1, Invariance, PTL

------------------------------------------------------------------------------
(* A session whose WSASend was refused says nothing more until OnConnect     *)
(* clears mIsSending: nobody else resets it.                                *)
THEOREM MuteTheorem == Spec => MuteUntilCleared
<1>1. BufferInv /\ [Next]_vars
        => [Mute /\ ~ Mute' => accepter = "clearSending" /\ ~ mIsSending']_vars
  <2> SUFFICES ASSUME BufferInv, Next, Mute, ~ Mute'
               PROVE  accepter = "clearSending" /\ ~ mIsSending'
    OBVIOUS
  <2>1. /\ mIsSending /\ sendIO.is = "none" /\ sendThread \notin {"lock", "copy", "send"}
        /\ \A w \in Workers : worker[w].at # "sendCompleted"
    BY DEF Mute
  <2>2. ASSUME NEW w \in Workers,
               (\E m \in Messages : OnReceive(w, m)) \/ TakeDisconnect(w) \/ WorkerStep(w)
        PROVE  FALSE
    <3>1. worker \in [Workers -> [at : {"wait", "bindRecv", "sendCompleted", "close"},
                                 sock : Socks]]
      BY DEF BufferInv, InsideBuffer, TypeOK
    <3>2. mIsSending' = mIsSending /\ sendThread' = sendThread /\ sendIO' = sendIO
      BY <2>1, <2>2 DEF OnReceive, TakeDisconnect, WorkerStep, BindRecv, TakeSent,
         SendCompleted, Close, WorkerLeavesAlone, sendVars, ioVars
    <3>3. \A v \in Workers : worker'[v].at # "sendCompleted"
      <4>1. CASE \E m \in Messages : OnReceive(w, m)
        BY <2>1, <3>1, <4>1 DEF OnReceive
      <4>2. CASE TakeDisconnect(w)
        BY <2>1, <3>1, <4>2 DEF TakeDisconnect
      <4>3. CASE BindRecv(w) \/ Close(w)
        BY <2>1, <3>1, <4>3 DEF BindRecv, Close, Resting
      <4>4. ~ TakeSent(w) /\ ~ SendCompleted(w)
        BY <2>1 DEF TakeSent, SendCompleted
      <4> QED
        BY <2>2, <4>1, <4>2, <4>3, <4>4 DEF WorkerStep
    <3> QED
      BY <2>1, <3>2, <3>3 DEF Mute
  <2>3. ~ ProcessStep
    BY <2>1 DEF ProcessStep, SendMsg, CopyMsg, AddSize, SenderLeavesAlone, ioVars, Mute
  <2>4. ~ SendThreadStep
    BY <2>1 DEF SendThreadStep, Poll, MayNotSend, SendIO, CopyCollected, WSASend, ResetPos,
       PollLeavesAlone, sendVars, ioVars, Mute
  <2>5. ~ Transmit /\ ~ Fail
    BY <2>1 DEF Transmit, Fail
  <2>6. AccepterStep => accepter = "clearSending" /\ ~ mIsSending'
    BY <2>1 DEF AccepterStep, GetEmptyClientInfo, OnConnect, ClearPos, ClearSending, Bind,
       sendVars, ioVars, Mute
  <2> QED
    BY <2>2, <2>3, <2>4, <2>5, <2>6 DEF Next
<1> QED
  BY <1>1, Invariance, PTL DEF Spec, MuteUntilCleared

(* No step goes back to the first connection. *)
LEMMA FirstBefore ==
  ASSUME TypeOK, [Next]_vars
  PROVE  FirstConnection' => FirstConnection
<1>1. CASE AccepterStep
  BY <1>1, StillFirst DEF AccepterStep, GetEmptyClientInfo, OnConnect, ClearPos, ClearSending,
     Bind, PostReceive, sendVars, ioVars, recvVars
<1>2. CASE \E w \in Workers : \/ \E m \in Messages : OnReceive(w, m)
                            \/ TakeDisconnect(w) \/ WorkerStep(w)
  BY <1>2, StillFirst DEF OnReceive, TakeDisconnect, WorkerStep, BindRecv, TakeSent,
     SendCompleted, Close, WorkerLeavesAlone
<1>3. CASE ProcessStep
  BY <1>3, StillFirst DEF ProcessStep, SendMsg, CopyMsg, AddSize, SenderLeavesAlone, sessionVars
<1>4. CASE SendThreadStep
  BY <1>4, StillFirst DEF SendThreadStep, Poll, SendIO, CopyCollected, WSASend, ResetPos,
     PollLeavesAlone, sessionVars
<1>5. CASE Transmit \/ Fail
  BY <1>5, StillFirst DEF Transmit, Fail, KernelLeavesAlone, sessionVars
<1>6. CASE UNCHANGED vars
  BY <1>6, StillFirst DEF vars, sessionVars
<1> QED
  BY <1>1, <1>2, <1>3, <1>4, <1>5, <1>6 DEF Next

------------------------------------------------------------------------------
(* AddSize is Collect, SendMsg that finds no room Overflow, WSASend Send,    *)
(* Transmit Deliver and Fail Lose; nothing else is seen from outside.       *)
LEMMA StepSimulation ==
  ASSUME BufferInv, FirstConnection, FirstConnection', [Next]_vars
  PROVE  [Abstract!Next]_(Abstract!vars)
<1> USE SizeAssumption, ConnAssumption DEF BufferInv, InsideBuffer
<1> DEFINE shown == IF sendThread = "reset" THEN << >> ELSE Collected
<1>1. CASE SendMsg
  <2>1. PICK m \in Messages : mSendPos' = IF Overflows(Size[m]) THEN 0 ELSE mSendPos
    BY <1>1, HeadTailProperties DEF SendMsg, TypeOK
  <2>2. /\ sendThread # "reset" /\ UNCHANGED <<sendThread, wire, Sending, mSendBuf>>
    BY <1>1 DEF SendMsg, LockIsFree, LockInv, SenderLeavesAlone, ioVars, Sending
  <2>3. CASE Overflows(Size[m])
    <3>1. Collected' = << >> /\ Len(Collected) = mSendPos
      BY <2>1, <2>3, SubSeqEmpty, FirstBytes DEF Collected, TypeOK
    <3>2. Abstract!Overflow(Bytes(m))
      BY <2>2, <2>3, <3>1, PacketBytes DEF Abstract!Overflow, Overflows
    <3> QED
      BY <3>2 DEF Abstract!Next
  <2>4. CASE ~ Overflows(Size[m])
    BY <2>1, <2>2, <2>4 DEF Collected, Abstract!vars
  <2> QED
    BY <2>3, <2>4
<1>2. CASE AddSize
  <2> DEFINE m == processThread.msg
  <2>1. /\ m \in Messages /\ mSendPos \in 0 .. MAX_SOCK_SENDBUF
        /\ mSendPos + Size[m] <= MAX_SOCK_SENDBUF
    BY <1>2 DEF AddSize, RoomInv, TypeOK
  <2>2. processThread.pos = mSendPos /\ \A k \in 1 .. Size[m] : mSendBuf[mSendPos + k] = <<m, k>>
    BY <1>2 DEF AddSize, WholeInv
  <2>3. mSendPos' = mSendPos + Size[m] /\ mSendBuf' = mSendBuf
    BY <1>2, <2>2 DEF AddSize
  <2>4. Collected' = Collected \o Bytes(m)
    BY <2>1, <2>2, <2>3, OneMore DEF Collected, TypeOK
  <2>5. Len(Collected) + Len(Bytes(m)) <= MAX_SOCK_SENDBUF
    BY <2>1, FirstBytes, PacketBytes DEF Collected, TypeOK
  <2>6. sendThread # "reset" /\ UNCHANGED <<sendThread, wire, Sending>>
    BY <1>2 DEF AddSize, LockInv, SenderLeavesAlone, ioVars, Sending
  <2>7. Abstract!Collect(Bytes(m))
    BY <2>4, <2>5, <2>6 DEF Abstract!Collect
  <2> QED
    BY <2>1, <2>7 DEF Abstract!Next
<1>3. CASE WSASend
  <2>1. CASE UNCHANGED sendIO /\ sendThread' = "poll"
    BY <1>3, <2>1 DEF WSASend, Collected, Sending, Abstract!vars
  <2>2. CASE sendIO' = [sock |-> mSock, len |-> mSendPos, is |-> "kernel"] /\ sendThread' = "reset"
    <3>1. Sending' = SubSeq(mSendingBuf, 1, mSendPos)
      BY <1>3, <2>2 DEF Sending, WSASend
    <3>2. Sending' = Collected
      BY <1>3, <3>1, SameBytes DEF Collected, WholeInv, TypeOK, WSASend
    <3>3. Sending = << >>
      BY <1>3 DEF Sending, SendingUntouched, WSASend
    <3>4. Abstract!Send
      BY <1>3, <2>2, <3>2, <3>3 DEF WSASend, Abstract!Send
    <3> QED
      BY <3>4 DEF Abstract!Next
  <2> QED
    BY <1>3, <2>1, <2>2 DEF WSASend
<1>4. CASE ResetPos
  <2>1. Collected' = << >>
    BY <1>4, SubSeqEmpty DEF Collected, ResetPos
  <2>2. UNCHANGED <<wire, Sending>>
    BY <1>4 DEF ResetPos, Sending, ioVars
  <2> QED
    BY <1>4, <2>1, <2>2 DEF ResetPos, Abstract!vars
<1>5. CASE Transmit
  <2>1. sendIO.sock = 1
    BY <1>5 DEF Transmit, SocketInv, FirstConnection, TypeOK, Socks
  <2>2. wire'[1] = wire[1] \o Sending /\ Sending' = << >>
    BY SMTT(30), <1>5, <2>1 DEF Transmit, TypeOK, Conns, Sending, Report, NoIO
  <2>3. UNCHANGED <<Collected, sendThread>>
    BY <1>5 DEF Transmit, KernelLeavesAlone, sendVars, Collected
  <2>4. Abstract!Deliver
    BY <2>2, <2>3 DEF Abstract!Deliver
  <2> QED
    BY <2>4 DEF Abstract!Next
<1>6. CASE Fail
  <2>1. Sending' = << >> /\ UNCHANGED <<Collected, sendThread, wire>>
    BY <1>6 DEF Fail, Sending, Report, NoIO, KernelLeavesAlone, sendVars, Collected
  <2>2. Abstract!Lose
    BY <2>1 DEF Abstract!Lose
  <2> QED
    BY <2>2 DEF Abstract!Next
<1>7. CASE \/ AccepterStep \/ CopyMsg \/ Poll \/ SendIO \/ CopyCollected \/ UNCHANGED vars
           \/ \E w \in Workers : \/ \E m \in Messages : OnReceive(w, m)
                                 \/ TakeDisconnect(w)
                                 \/ WorkerStep(w)
  <2>1. CASE AccepterStep
    <3>1. UNCHANGED <<mSendBuf, sendThread, wire, sendIO, mSendingBuf>>
      BY <2>1 DEF AccepterStep, GetEmptyClientInfo, OnConnect, ClearPos, ClearSending, Bind,
         sendVars, ioVars
    <3>2. mSendPos' = mSendPos
      BY <2>1 DEF AccepterStep, GetEmptyClientInfo, OnConnect, ClearPos, ClearSending, Bind,
         sendVars, FreshInv
    <3> QED
      BY <3>1, <3>2 DEF Collected, Sending, Abstract!vars
  <2>2. CASE CopyMsg
    <3>1. UNCHANGED <<sendThread, wire, sendIO, mSendingBuf, mSendPos>>
      BY <2>2 DEF CopyMsg, SenderLeavesAlone, ioVars
    <3>2. \A i \in 1 .. mSendPos : mSendBuf'[i] = mSendBuf[i]
      BY <2>2 DEF CopyMsg, TypeOK, Buffers
    <3>3. mSendBuf' \in Buffers
      BY <2>2, CopyMsgStep DEF TypeOK
    <3>4. Collected' = Collected
      BY <3>1, <3>2, <3>3, SameBytes DEF Collected, TypeOK
    <3> QED
      BY <3>1, <3>4 DEF Sending, Abstract!vars
  <2>3. CASE Poll \/ SendIO \/ CopyCollected
    <3>1. /\ UNCHANGED <<mSendBuf, mSendPos, wire, sendIO>>
          /\ sendThread # "reset" /\ sendThread' # "reset"
      BY <2>3 DEF Poll, SendIO, CopyCollected, sendVars, ioVars
    <3>2. Sending' = Sending
      BY <2>3 DEF Sending, Poll, SendIO, CopyCollected, sendVars, ioVars, SendingUntouched
    <3> QED
      BY <3>1, <3>2 DEF Collected, Abstract!vars
  <2>4. ASSUME NEW w \in Workers,
               (\E m \in Messages : OnReceive(w, m)) \/ TakeDisconnect(w) \/ WorkerStep(w)
        PROVE  UNCHANGED Abstract!vars
    <3>1. UNCHANGED <<mSendBuf, mSendPos, mSendingBuf, wire, sendThread>>
      BY <2>4 DEF OnReceive, TakeDisconnect, WorkerStep, BindRecv, TakeSent, SendCompleted,
         Close, WorkerLeavesAlone, sendVars, ioVars
    <3>2. sendIO' = sendIO \/ (sendIO.is # "kernel" /\ sendIO'.is # "kernel")
      BY <2>4 DEF OnReceive, TakeDisconnect, WorkerStep, BindRecv, TakeSent, SendCompleted,
         Close, ioVars, NoIO
    <3>3. Sending' = Sending
      BY <3>1, <3>2 DEF Sending
    <3> QED
      BY <3>1, <3>3 DEF Collected, Abstract!vars
  <2>5. CASE UNCHANGED vars
    BY <2>5 DEF vars, sendVars, ioVars, Collected, Sending, Abstract!vars
  <2> QED
    BY <1>7, <2>1, <2>2, <2>3, <2>4, <2>5
<1> QED
  BY <1>1, <1>2, <1>3, <1>4, <1>5, <1>6, <1>7 DEF Next, ProcessStep, SendThreadStep

(* A session implements LossySender with every step of its first connection: *)
(* whatever fails, its messages leave in order, in whole batches, once.     *)
THEOREM Refinement == Spec => InBatches
<1>1. Init => Abstract!Init
  BY SubSeqEmpty, ConnAssumption DEF Init, Abstract!Init, Collected, Sending, NoIO, Conns
<1>2. BufferInv /\ [Next]_vars => [FirstConnection' => Abstract!Next]_(Abstract!vars)
  BY StepSimulation, FirstBefore DEF BufferInv, InsideBuffer
<1> QED
  BY <1>1, <1>2, Invariance, PTL DEF Spec, InBatches
==============================================================================
