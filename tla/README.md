# Verification of the overlapped I/O / IOCP servers

The repository is a course in Windows overlapped I/O: seven stages of an echo
server on an I/O completion port (`Server_chat` ... `server_chat7`), an older
broadcast chat server (`IOCP_기초`), console clients and three exercises. Each
stage replaces a piece of the one before it because that piece was wrong or
slow. What is hard in it is always the same: a few threads (workers on the
completion port, an accepter, a packet thread, in stage 5 a send thread) share
the fields of a client slot, few of them under a lock, and the kernel works on
buffers and overlapped blocks of that slot at the same time.

The modules below are read from the code, stage by stage; the numbers in
`PROJECT.json` ("map") give the lines of each definition.

## 1. Inventory

| Component | Source | State | Operations |
|---|---|---|---|
| Slot pool, stage 7 | `server_chat7/IOCPServer.h`, `ClientInfo.h` | per slot: `mIsConnect`, `mLatestClosedTimeSec`, `mSocket`, the accept, receive and send overlapped | `AccepterThread` (sweep, closed time, wait, `PostAccept`), `WorkerThread` (five kinds of completion), `OnConnect`, `Close` |
| Echo, stages 4 to 7 | `EchoServer.h`, `Packet.h` | `mPacketDataQueue` under `mLock` | `OnReceive`, `DequePacketData`, `ProcessPacket` |
| Send queue, stages 6 and 7 | `Server_chat6/ClientInfo.h`, `server_chat7/ClientInfo.h` | `mSendDataqueue` under `mSendLock`, heap blocks | `SendMsg`, `SendIO`, `SendCompleted` |
| Double send buffer, stage 5 | `server_chat5/ClientInfo.h`, `IOCPServer.h` | `mSendBuf`, `mSendPos`, `mSendingBuf`, `mIsSending`, `mSendLock` | `SendMsg`, `SendIO` polled by `SendThread`, `SendCompleted`, `Clear` |
| One block per send, stage 4 | `Server_chat4/*.h` | per slot `mSock`, the receive overlapped; a heap block per send | `SendMsg`, the delete in `WorkerThread`, `onConnect`, `Close` |
| Direct echo, stages 1 to 3 | `Server_chat/IOCP_client.h`, `Server_chat2/IOCompletionPort.h`, `Server_chat3/IOCPServer.h` | per client: socket, one receive and one send overlapped, their buffers | `WorkerThread`, `SendMsg`, `BindRecv`, `CloseSocket`, `AccepterThread` |
| Broadcast chat | `IOCP_기초/main.cpp` | client list and its critical section, reference counts of broadcast blocks | accept loop, worker |
| Start and stop | `main.cpp`, `IOCPServer.h`, `EchoServer.h` of each stage | thread flags, threads, listen socket, completion port, `mClientInfos` | `InitSocket`, `BindandListen`, `Run`, `StartServer`, `End`, `DestroyThread`, the loops of all threads |
| Clients | `Client_chat`, `IOCP기초_클라이언트` | none of interest | send and receive loops |
| Exercises | `overlappedio_test` | none of interest | single API calls |

**How they interact.** A worker takes a completion from the port and finds the
client by the completion key, which is a pointer to the slot (a null pointer for
the accept of stage 7, which finds the slot by the index in the overlapped
block). It calls `EchoServer::OnReceive`, which copies the data to
`mPacketDataQueue`; the packet thread takes the packet and calls
`stClientInfo::SendMsg` of the slot named in it, which starts a send or leaves
that to `SendCompleted` in a worker (stages 6, 7), to the send thread (stage 5),
or posts it at once (stages 1 to 4). A failed or empty completion makes the
worker close the slot; the accepter finds the closed slot and uses it again.
Nothing in a slot, an overlapped block or a packet names the *connection* it
belongs to.

**What is hard**, in the order in which the models take it up:

1. *Handing over the permission to send* (stages 6, 7). `SendMsg` starts a send
   only if its block is the only one queued, `SendCompleted` only if something
   is left. Both under `mSendLock`; each relies on the other.
2. *The life of a slot* (stage 7). Two workers may close a slot at once, each
   working on whatever handle `mSocket` holds by then, the accepter reads the
   slot's fields without a lock, and completions, workers and packets of the last
   connection may be about when the next one begins.
3. *Fields tested outside the lock* (stage 5). `SendIO` tests `mSendPos` and
   `mIsSending` before it takes `mSendLock`; `SendCompleted` and `Clear` write
   them without it.
   `OnConnect` also sets `mSock` before it binds the socket to the port (stages 4
   to 6): a packet left over from the last connection may be sent in between, and
   nobody hears of that send. The chat server's accept loop has the same gap
   between the client list and the port.
4. *One buffer, many sends* (stages 1 to 3).
5. *Results nobody looks at.* `BindRecv`, `SendIO` and `SendMsg` return `false`
   to callers that drop it. Each model keeps the failing branch.
6. *Reference counts tested after the lock* (broadcast chat).
7. *Many sends of a session at once* (stage 4): which block a completion deletes,
   and what keeps the order.
8. *The order in which the threads are started and stopped*: the packet thread
   runs before there are clients, the port is closed while the accepter still
   accepts, a join waits for a thread that only the closing of a handle wakes, and
   `main` looks at no result.

**What makes each component correct:** the send queue: one send at a time, the
block freed is the block that completed, order kept, nothing forgotten. The pool:
no overlapped block given out twice, a close never hits a later connection of its
slot (and another slot's only through a handle given out again), a slot is reused
only when nothing of the last connection is left, echoes go to where the packet
came from, a closed slot comes back. The double buffer: whole messages, in order,
in batches; the buffer being sent is left alone; no batch is empty, because the
completion of an empty send is taken for a disconnection. Direct echo: echoes in
order and with the right content. Broadcast: a block is freed once, after its last
send, and left behind only by a refused call; the list is still while it is
walked; all clients see messages in one order. Stage 4: each block deleted once
and after its own completion, or leaked for a known reason, the order of receipt
kept. Start and stop: whatever failed on the way up, quit ends every thread before
the server goes out of scope, and nobody uses what is not built yet or already
gone.

## 2. Modules

| Module | Models | Uses |
|---|---|---|
| `OrderedSender` | abstract: messages of a session are delivered one at a time in order | |
| `SendQueue` | stage 6, one session: send queue, workers, packet thread, accepter | refines `OrderedSender` |
| `SendQueueProofs` | its theorems | |
| `SessionPool` | stage 7: slots, accepter, workers, clock, packet thread | |
| `SessionPoolProofs` | its theorems | |
| `LossySender` | abstract: packets, each a sequence of bytes, collected and sent in whole batches | |
| `DoubleBuffer` | stage 5, one slot: both buffers byte by byte, send thread, packet thread, workers, accepter | refines `LossySender` on a first connection |
| `DoubleBufferProofs` | its theorems | |
| `DirectEcho` | stages 1 to 3, one slot | |
| `DirectEchoProofs` | its theorems | |
| `PipelinedSender` | abstract: messages of a connection are delivered in order, any number under way, some lost | |
| `BlockPerSend` | stage 4, one slot: accepter, workers, packet thread, a heap block per send | refines `PipelinedSender`, connection by connection |
| `BlockPerSendProofs` | its theorems | |
| `ServerLifecycle` | stages 1 to 7 from `main` to its return: start, thread loops, stop | |
| `ServerLifecycleProofs` | its theorems | |
| `Broadcast` | the chat server of `IOCP_기초`, all of it | |
| `BroadcastProofs` | its theorems | |
| `MC...` | symmetry and values for TLC | |

### How state and actions correspond to the code

*Names* are the source's. A thread is a variable that says where it is between
two shared accesses (`worker[w]`, `accepter`, `processThread`, `sendThread`).
What runs under a lock is one step where no unlocked access can come between
(`SessionPool.SendMsg`) and several where one can (`SendQueue.SendMsg` and
`SendFirst`, all of `DoubleBuffer`). *The kernel* is a set of actions of its own:
`Transmit`, `Fail`, `Receive` and, in the models that do not need the moment of
arrival, the `Take...` action of the worker, which is enabled whenever the kernel
may have produced the completion. Every call to the kernel (`WSASend`, `WSARecv`,
`AcceptEx`, `WSASocket`) may fail, and on a closed socket always fails.

*Sockets* are numbered in the order they were made, 0 is `INVALID_SOCKET`. The
number lets a property ask whether a completion, a worker or a packet belongs to
this connection or an earlier one; the code has no such thing, and no action
tests it, except for what is the kernel's business: whether the socket a call
names is open, and whose it is by then (`SessionPool` gives handles out again), and
that the completion of an operation on a socket not yet bound to the port is not
reported.

*Undefined behaviour* sets `fault`, after which the model stops; what a property
says is checked up to there.

* **SendQueue.** A message is named by its heap block. `io[m]` says how far its
  send is. `SendMsg`/`SendFirst` and `SendCompleted`/`SendNext` are the two
  halves of the two functions, with `mSendLock` between them. `OnConnect` (line
  25, `mSock`), `BindIOCompletionPort` and `BindFirstRecv` are three steps: a send
  on a socket that is not in `bound` when it finishes becomes `"unreported"`.
  `Close` and `OnConnect` do not touch the queue: that they do not is modelled,
  and `StaysStalled` says what follows from it. One session is the whole stage,
  because its `GetEmptyClientInfo` returns from the first round of its loop.
* **SessionPool.** `CheckConnected`, `CheckClosedTime`, `CheckWait`,
  `PostAccept`, `AcceptEx` are the lines of the accepter's loop body;
  `CloseIsConnect`, `CloseStamp`, `closesocket`, `InvalidateSocket` the statements
  of `Close`. `mSocket` says which of the slot's sockets is in the field, `handle`
  the value the program has for it; `sockets` says what each handle stands for, and
  a handle is free for any slot's `WSASocket` as soon as `closesocket` was called
  on it. `IsOpen` and `Foreign` tell whether the handle still stands for the slot's
  own socket; `hit` remembers the slots whose socket another slot's `Close` closed.
  A `WSARecv`, `WSASend` or `AcceptEx` on another slot's socket is the fault
  `"foreignSocket"`, after which the model stops; what a `shutdown` (line 43) does to
  it is covered by the kernel failing an operation at any time. The
  unsigned difference of line 208 is modelled as what it is: a closed time later
  than `curTimeSec` passes the test. The source reads
  the closed time twice, at 205 and 208; `LoadsTwice` says whether the compiled
  program does.
* **DoubleBuffer.** A byte is a pair of a message and a place in it. `CopyMsg`
  and `AddSize` are separate because `Clear` may come between, and `AddSize`
  uses the value of `mSendPos` from before or after it.
* **DirectEcho.** A buffer holds what one receive brought; `Transmit` sends what
  the buffer holds by then and records what was meant. `stage` selects the
  differences between stages 1, 2 and 3 (where the send reads from, whether a
  disconnected client is closed, where a terminator falls). `client` is a client
  that `"waits"` for its echo and has each message arrive in one receive, one that
  waits but whose messages TCP may `"split"` over two (`Arrive`, bounded by
  `MaxParts`), or one that `"streams"`. Nothing in the code keeps a message in one
  receive: a split one is echoed in two sends from the one buffer, and the second
  receive may overwrite the first part (run `direct_echo` reaches it;
  `WaitingClientGetsEchoes` is said of `"waits"` only, which is what a client on a
  quiet network sees).
* **Broadcast.** A block is numbered by its allocation and counts its sends; the
  loop over the list sends to one client per step, with `crt` held. Memory that
  was freed and is only read (`usedFreed`) does not stop the model: the code does
  not act on the handle it reads, and a count read from a freed block may be
  anything. `refused` is history: the blocks of calls that were refused or whose
  completion was never reported, the only ones `LeaksOnlyRefused` lets leak. The
  code passes one OVERLAPPED, that of the block, to the sends of all clients
  (line 144), which `WSASend` does not allow while another is under way; the model
  takes each send as completing on its own, which is what the code counts on, and
  that `CreateIoCompletionPort` succeeds for a new client.
* **BlockPerSend.** A message is named by its block; `io[m]` says where its send
  is, `sends[c]` is the kernel's queue of a connection's sends. `SendMsg` is one
  round of `ProcessPacket`, `WSASend` the member function `SendMsg` it calls.
  `onConnect` (line 26, `mSock`), `BindIOCompletionPort` and `BindFirstRecv` are
  three steps: the packet thread may send a leftover packet on the socket before it
  is bound (that send's completion is `"unreported"`), and a worker may close it on
  account of the last connection.
* **ServerLifecycle.** `stage` is chosen in `Init` and selects the differences:
  which threads there are, who makes the port, whether a refused association with
  it is noticed, how a client is connected (`accept` or `AcceptEx`), and the order
  of `DestroyThread`. `main` is the function or line main is at; each thread is a
  place in `at`, and tests its flag (`Test`) between two rounds of its loop.
  `InitSocket` and `BindandListen` are one step each, because no other thread
  exists yet; every statement of `DestroyThread` is a step. A message is handed over
  when `SendMsg` is called for it, and that is as far as this module goes: whether
  `SendMsg` sends, queues or drops it is in the other modules, and so is what
  becomes of a slot, which is one of `MAX_CLIENT` here. In stage 7 an outstanding
  `AcceptEx` may fail at any time (`FailAccept`); the worker that takes its
  completion calls a method of a null client (`CloseNull`), and the process is gone
  (`main = "crashed"`). A stage 7 whose `Init` failed starts no workers
  (`StartedWorkers`), because it has not set their number. The flags are plain
  `bool`s read by other threads; each loop calls into the operating system, so that
  a loop test is taken to read memory.

## 3. What the runs check and show

| Run | Bounds | Shows |
|---|---|---|
| `sendqueue` | 3 messages, 2 workers, 3 connections, fairness | `OneSendAtATime`, `NoUseAfterFree`, `StaysStalled`, the refinement `InOrder`, `EchoedOrStalled`, the inductive `SendQueueInv` (with `FreesWhatCompleted` and `NothingForgotten`) |
| `block_per_send` | 3 messages, 2 workers, 2 connections, fairness | `NoUseAfterFree`, the refinement `InOrder`, `FreedOrLeaked`, the inductive `BlockInv` (with `FirstHeard`; it implies `LeaksExplained`) |
| `lifecycle` | stages 2 to 7, 2 workers, 2 clients, 1 slot, fairness | `NoThreadOutlivesServer`, `CountedAreBound`, `QuitTerminates`, `HandedOverUnlessQuit`, the inductive `LifecycleInv` (with `NoNullClientAtStop`) |
| `pool` | 1 slot, 1 handle, 2 workers, 2 lives, wait 1 s, clock to 6, 2 packets, fairness | `OverlappedExclusive`, `ReceiveBufferExclusive`, `ReusedWhenDrained`, `ReuseWaits`, `EchoToOrigin`, `LostForEver`, `ClosedIsReposted`, the inductive `PoolInv` |
| `pool_handles` | 2 slots that share 2 handles, 2 workers, 2 lives each, wait 0 s, clock to 2, 1 packet | `NoStaleClose` |
| `pool_two_loads` | as `pool`, `LoadsTwice` | **violation** of `ReuseWaits` |
| `double_buffer` | 3 messages of 2, 1, 2 bytes, 2 of them at a time, buffers of 3, 2 workers, 2 connections, fairness | `SendingUntouched`, `NoEmptySend`, `WholeMessages`, `InBatches` (each step of the first connection is one of `LossySender`), `NothingLingers`, `MuteUntilCleared`, the inductive `BufferInv` (with `InsideBuffer`) |
| `double_buffer_stale` | the same | **violation** of `ClosesTheDisconnected` |
| `direct_echo` | 4 messages (1 of full length), 2 workers, 2 connections, messages in 1 or 2 receives | `ReceiveUntouched`, `EchoInOrder`, `WaitingClientGetsEchoes`, the inductive `EchoInv` |
| `broadcast` | 2 clients, 2 messages, 2 workers | `FreedAfterLastSend`, `IterationSafe`, `LeavesOnce`, `SameOrder`, the inductive `BroadcastInv` (with `CountsSends`; it implies `LeaksOnlyRefused`) |
| `broadcast_twice` | 2 clients, 1 message, 2 workers | **violation** of `FreedOnce` |
| `direct_echo_stream` | 2 messages, 2 workers, 1 connection | **violation** of `EchoesReceived` |

**Why the bounds are enough to be interesting.** Two workers are enough for every
race in this code: no step depends on a third, and two closers, or one closer and
one copier, of a slot are there. Three messages fill the queue behind a send,
empty it and fill it again, and put two sends of stage 4 under way with a third
queued. Two lives of a slot are what every stale-state hazard needs, and the clock
goes on long enough for close, wait, reuse and a second close (`MaxTime` 6 with a
wait of 1). With buffers of three bytes two of the messages fit together and two
do not, so that overflow happens with something collected; `MaxPackets` lets
clients have any two of them in the server or echoed at a time, so that no batch
of the run holds more than two messages. In `pool` there is one slot, because
slots share only the accepter, the workers, the packet queue and the socket
handles; that any number of them behave is what `SessionPoolProofs` proves. The
handles are what `pool_handles` is about: two slots are needed for a second closer
to find its handle standing for another slot's socket, and nothing there depends
on how long the wait is. Two parts (`MaxParts`) are what it takes for one message
to overwrite itself. Two broadcasts to two clients are enough for two loops, two
completions of one block, and a client leaving, at once. In `lifecycle` one slot
and two clients fill the server and leave one client waiting, with the accepter
gone; stage 1 takes the same steps as stage 3 there and is left to the proofs.
Every run's reachable graph is finite because of these bounds only: `MaxConn`,
`MaxGen` (WSASocket fails from then on), `MaxTime`, `MaxPackets`, and the number
of messages.

**The four disagreements** are `findings` of `PROJECT.json`:

* `direct_echo_stream`: stages 1 to 3 echo a message from a buffer that the next
  receive (stage 1) or the next echo (2, 3) overwrites while the send is under
  way. The comment there says the message is echoed to the client.
* `double_buffer_stale`: stage 5 closes the slot, not the connection, when a
  failed completion arrives; the comment says it is for a client that has
  disconnected. Stage 7's wait is the cure: `NoStaleClose` shows that no close
  hits a later connection of its slot.
* `broadcast_twice`: the reference count of a broadcast is tested after the lock
  is released; two workers may both find it at 0 and both report the message and
  free its block.
* `pool_two_loads`: the one hole in that wait. The closed time is read twice
  without a lock; if the slot is closed again between the two reads, in a later
  second than the sweep began, the unsigned difference wraps and the slot is
  reused at once. It takes a compiler that keeps both loads (an unoptimised
  build does).

### The assumption behind the wait

`SessionPool` has one assumption that is not in the code: what a close leaves
behind (aborted operations, workers in the slot, its packets in the packet queue)
is handled within `DrainSec` seconds, and `DrainSec` is at most
`RE_USE_SESSION_WAIT_TIMESEc` (`TimeAssumption`; `Tick` holds the clock back
until it is so). This is precisely what the wait of stage 7 is for, and the code
has nothing else to rely on. A server so loaded that a worker or the packet
thread is more than three seconds behind breaks it, and then none of
`NoStaleClose`, `ReusedWhenDrained`, `EchoToOrigin` and `ConnectsOnlyNewest`
can be expected.

### Fairness

`SendQueue`, `DoubleBuffer`: weak fairness of each thread's own steps (the
operating system runs them; none waits for anything but a lock that is held for a
few lines or a queue) and of the kernel finishing a send it has accepted, with
success or failure. `SessionPool`: the threads, the clock, and the kernel
returning what it holds on a socket that was closed, which `closesocket`
guarantees. For the last, fairness is strong: the port is a queue, so a worker
gets to an aborted operation however many completions of other slots there are
(with more than one slot weak fairness would not be enough). `BlockPerSend`: what
a worker does with a completion it can take, the packet thread, the kernel
finishing sends. `ServerLifecycle`: every thread, `main` included, takes its
steps; whether anybody types quit, and what clients do, is open. There is no
fairness for what clients do, for `accept`, or for success rather than failure, so
the liveness properties say "or stalled", "or the session went mute", "or the
connection ended": that is how far the code's promise goes.

Deadlock is not checked (`CHECK_DEADLOCK FALSE`): with all messages sent and the
bounds used up the server really rests, with every thread waiting.

### What stops short of a property

`CountedAreBound` says that a counted client's socket is on the completion port
for stages 1, 2, 3 and 5 only. In stages 4, 6 and 7 the accepter, or a worker in
the middle of an accept, may run after `DestroyThread` has closed the port, and
`BindIOCompletionPort` tests the result against `INVALID_HANDLE_VALUE`
(`Server_chat4/ClientInfo.h:53`, `Server_chat6/ClientInfo.h:49`,
`server_chat7/ClientInfo.h:108`) while `CreateIoCompletionPort` returns `NULL`:
the failure is taken for success, and such a client is counted and never served.
Stages 1 to 3 test for `NULL`; stage 5 has the wrong test too (line 84), but stops
the accepter first. No comment or test says what should hold, so this is a hazard
and not a finding.

A server that no longer accepts (stage 6 with its one slot, the others when all
slots are taken or a first receive was refused) is modelled in every module that
has an accepter, and is no property either: nothing promises a later client a
place. `HandedOverUnlessQuit` and `FreedOrLeaked` are about packets already
received.

A call on another slot's socket (`"foreignSocket"`) and the crash on a failed
`AcceptEx` (`CloseNull`) do happen in the code as it is. No line of the repository
says what should happen then, so they are hazards, where the models stop, and not
findings.

## 4. What is proved

`SendQueueProofs`, for any set of messages, workers and any number of
connections:

* `Invariance`: `Spec => []SendQueueInv`. The property one wants,
  `OneSendAtATime`, is not inductive: a step of `SendFirst` keeps it only if
  nobody else has the permission to start a send. `OnePermission` says who may
  have it (the kernel, the worker about to call `SendCompleted`, the thread that
  has just popped or has just pushed on an empty queue), `LockInv` that the last
  two hold the lock, and `HistoryInv` that a block is queued once. `FirstHeard`
  says that no send of a first connection goes unreported: its packets come when
  its socket is bound. The proof takes one step per action and one lemma per conjunct.
* From it: `TypeCorrect`, `OneSendTheorem`, `FreesTheorem`,
  `NoUseAfterFreeTheorem`, `StalledForever` (an action property) and `Refinement`
  (`Spec => Abstract!Spec`: `Transmit` is `Deliver`, `SendMsg` is `Submit`, all
  else stutters).

`SessionPoolProofs`, for any number of slots and workers, any wait, clock and
bounds, for a program that reads the closed time once (`~ LoadsTwice`) and under
`TimeAssumption`:

* `PoolInvariant`: `~ LoadsTwice => (Spec => []PoolInv)`. `LivesInv` says slot by
  slot that everything about a slot is about its newest socket
  (`OneGeneration`), how far a closed slot can be (`ClosedInv`), that a slot
  being opened has one party at it (`OpeningInv`), that the receive block
  and the send block have one holder (`ReceiveInv`, `SendInv`), and what the
  accepter knows at each line (`AccepterInv`): once it has seen a closed time old
  enough, the drain assumption leaves nobody who could change it. The step proof
  goes action by action; `PostAccept` is where the wait is used. `SocketInv` adds
  what the handles stand for: an open socket of a slot is the one in its `mSocket`,
  and where a handle has outlived its socket a worker is about to call
  `InvalidateSocket`, or another slot's `Close` was to blame.
* From it: `TypeCorrect`, `OverlappedBlocks`, `ReceiveBuffers`,
  `CloseHitsItsOwn` (`NoStaleClose`, for any number of slots and handles, given out
  again at once), `ReuseAfterDrain`, `ReuseAfterWait`, `EchoesGoHome`,
  `ConnectsNewest` and `NeverRecovered` (two action properties).

`BlockPerSendProofs`, for any messages, workers and number of connections:

* `BlockInvariant`: `Spec => []BlockInv`. `NoUseAfterFree` alone is not inductive:
  `PlaceInv` adds that a block is in one place only (the queue, one connection's
  sends, on the port, leaked, deleted) and that those places hold it once, and
  `BoundInv` which sockets may be bound or have sends.
* `OrderInvariant`: `Spec => []OrderInv`, on top of `BlockInv`: last transmitted,
  sends and queue of a connection are in the order of receipt. With it,
  `Refinement`: `Transmit` delivers a message whose place is behind the last one
  delivered, `OnReceive` is `Receive`, all else stutters.
* From it: `NoUseAfterFreeTheorem`, `TypeCorrect` and `LeaksTheorem`
  (`LeaksExplained`): a block leaks only when its send was refused, failed, or
  completed on a socket not yet bound, and the last never on a first connection.

`ServerLifecycleProofs`, for all seven stages, any workers, clients and
`MAX_CLIENT`, from the assumption that the threads are different ones:

* `LifecycleInvariant`: `Spec => []LifecycleInv`. The parts it adds to what one
  wants: `JoinInv` (what main has joined at each place of its way down, and which
  threads a stage has), `PortInv` (where the port must be open or closed, and
  that only stage 7 accepts through it), `BuiltInv` (until `CreateClient` only the
  packet thread runs and finds no packet), `HandleInv`.
* From it: `NoThreadOutlives`, `CountedBound`, `NullClientNotAtStop`,
  `ClientsFirst`.

`DoubleBufferProofs`, for any messages and sizes, any `MAX_SOCK_SENDBUF`, workers
and number of connections:

* `Invariance`: `Spec => []BufferInv`. Its parts are of two kinds. `TypeOK` (with
  the bound on `mSendPos`), `LockInv` and `RoomInv` hold on every connection: the
  room `SendMsg` found is still there when it copies and when it adds, because
  whoever else writes `mSendPos`, `Clear` without the lock included, makes it
  smaller. The others are said of a session's first connection
  (`FirstConnection`): `PermissionInv` (who may start a send: the send thread, the
  send under way, or the worker about to call `SendCompleted`), `CollectedInv`
  (what the test of `mSendPos` outside the lock found is still there under it) and
  `WholeInv` (what is collected is whole messages, and what is about to be sent is
  what was collected). They are false later, and not only in the model:
  `OnConnect` clears a slot whose threads may be in the middle of the last
  connection, and stage 5 has nothing that keeps the two apart.
* From it: `InsideBufferTheorem`, `SendingUntouchedTheorem`, `NoEmptySendTheorem`,
  `WholeMessagesTheorem`, and `MuteTheorem`, an action property that holds on every
  connection.
* `Refinement`: `Spec => InBatches`. `AddSize` is `Collect`, a `SendMsg` that finds
  no room is `Overflow`, `WSASend` is `Send`, `Transmit` is `Deliver`, `Fail` is
  `Lose`; all else stutters, the reset of `mSendPos` too, because the bytes count as
  sent from `WSASend` on while the lock is held. `InBatches` is the initial condition
  of `LossySender` and says that each step within the first connection is one of its
  steps; on a session connected once it is the whole of `LossySender!Spec`.

`DirectEchoProofs`, for any messages, workers and number of connections, all three
stages and all three kinds of client:

* `Invariance`: `Spec => []EchoInv`. `PermissionInv` says that `mRecvBuf` is with
  the posted receive or with one worker, from the completion to the next
  `BindRecv`; `OrderInv` that wire, sends under way and the echo about to be
  posted are in the order of receipt; `WaitingInv` that a client that waits, and
  whose messages come in one receive each, has one message on its way at most,
  held by both buffers when its echo is sent: that is all that saves stages 1 to
  3, whose buffers nothing protects (`direct_echo_stream`). The last three are
  said of the first connection, for the same reason as above.
* From it: `ReceiveUntouchedTheorem`, `EchoInOrderTheorem` and
  `WaitingClientTheorem`.

`BroadcastProofs`, for any finite set of clients, any workers and any
`MaxMessages`:

* `Invariance`: `Spec => []BroadcastInv`. It is built in layers. The critical
  section has one holder (`LockInv`); the list is the clients that were accepted
  and have not left, each once, and the loop is at some place of it (`ListInv`,
  `LoopInv`); one hand at a time receives for a client (`ReceiveInv`), which is
  why it leaves once. A block then has one owner after another: the receive
  (`ReadInv`), the worker that took it (`TakenInv`), the loop (`SendingInv`), the
  sends still to be counted down, each of which is in one place (`OnceInv`). On
  that rest the counts: a live block's `refCount` is the number of these sends
  (`CountsSends`), nobody who tests it sees 0 before the last (`FreedAfterLastSend`),
  and somebody is left to test it (`KeptInv`). `OrderInv` is about what was posted:
  no two clients have two messages in opposite orders, and the message being
  broadcast is the last wherever it was posted. `BoundInv` counts blocks against
  clients and messages, so that the bound on `Blocks` cuts nothing off.
* From it: `CountTheorem` (`CountInv`, that is `CountsSends` and
  `LeaksOnlyRefused`), `FreedAfterLastSendTheorem`, `IterationSafeTheorem`,
  `LeavesOnceTheorem`, `SameOrderTheorem`. `FreedOnce` is not among them: the code
  violates it (`broadcast_twice`), and the model stops there.

**Only model-checked:** liveness, for which fairness and ENABLED are needed
(`EchoedOrStalled`, `ClosedIsReposted`, `NothingLingers`, `FreedOrLeaked`,
`QuitTerminates`, `HandedOverUnlessQuit`); and that the four disagreements are real,
which takes a counterexample and not a proof. Every safety invariant, action
property and refinement that a passing run checks is stated by a theorem.
Nothing recursive had to be proved about: `Whole` and `EndsWith` quantify over
places in a sequence for that reason.

## 5. What is not modelled, and the plan

Not modelled:

* the clients (blocking console programs: the servers' environment);
* the exercises of `overlappedio_test` (single API calls). `IOCP.cpp`, the one
  server among them, is unfinished: its first `WSARecv` uses `ioInfo` before
  anything was assigned to it (line 122), clients are never bound to the port, and
  the worker returns after one completion (line 183). Nothing after the first
  accept is defined, so there is no behaviour to state properties of;
* logging, addresses, linger and other socket options, `WSAStartup` and
  `WSACleanup`, the memory of a packet's copy (`PacketData`);
* in the chat server, a `CreateIoCompletionPort` that fails for a new client, and
  the one OVERLAPPED that a block's sends share (section 2);
* in stages 3 to 5, which of several slots a client gets, and `mClientCnt`, which
  nobody reads.

Left, in this order:

1. An abstract specification of the chat server (messages put in one order, each
   client receiving a part of it in that order), with `Broadcast` as its
   refinement: `SameOrder` is the part of it that is an invariant.
2. The same for a slot of stage 7 (free, being opened, connected, closed, waiting),
   refined by `SessionPool` slot by slot from `PoolInv`.
3. `DoubleBuffer` after the first connection: which parts of `PermissionInv`
   survive `OnConnect` when the last send has been taken before it.

The hazards in `PROJECT.json` name the line where each bites, and those without
a property say why.
