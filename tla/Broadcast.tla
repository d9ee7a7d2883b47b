------------------------------ MODULE Broadcast ------------------------------
(***************************************************************************)
(* The chat server of IOCP_기초: every message read from one client is sent *)
(* to all, with one overlapped block (PER_IO_DATA) that counts its sends.   *)
(* The list of clients and the counts are under the critical section crt;   *)
(* the test of a count, and the free it decides, are not.                   *)
(*                                                                          *)
(* A client stands for its socket and its PER_HANDLE_DATA, which is the     *)
(* completion key of all that happens on the socket.  Blocks are numbered   *)
(* in the order in which they are allocated; a message is named by the      *)
(* block it was read into.                                                  *)
(***************************************************************************)
EXTENDS Integers, Sequences, SequencesExt, FiniteSets

CONSTANTS Clients,
          Workers,        \* the threads that run IOThreadFunc
          Free,           \* crt is not held
          NoClient,
          MaxMessages     \* bound: messages the clients send, all together

ASSUME ClientAssumption == IsFiniteSet(Clients) /\ NoClient \notin Clients
ASSUME LockAssumption == Free \notin Workers
ASSUME BoundAssumption == MaxMessages \in Nat

VARIABLES
    clientList,         \* in the order of the accepts
    crt,                \* the worker that holds it
    accepting,          \* the client the main thread is about to listen to
    handle,             \* the PER_HANDLE_DATA of each client
    reading,            \* the block each client's receive is outstanding on
    pending,            \* sends with the kernel on each client's socket, in order
    done,               \* completed sends on the port: block and client
    broken,             \* clients a send to whom has failed
    allocated,          \* blocks allocated so far
    block,              \* whether each block is live
    refCount,
    refused,            \* history: blocks of a refused receive, or with a send never reported
    worker,             \* what each worker does, for which client and block
    messages,           \* messages read so far
    delivered,          \* history: the messages sent to each client
    fault               \* undefined behaviour run into

listVars == <<clientList, crt>>
sendVars == <<pending, done, broken, delivered>>
blockVars == <<allocated, block, refCount, refused>>
vars == <<listVars, accepting, handle, reading, sendVars, blockVars, worker, messages, fault>>

Blocks == 1 .. Cardinality(Clients) + MaxMessages
Resting == [at |-> "wait", client |-> NoClient, block |-> 0, todo |-> << >>]

Init == /\ clientList = << >>
        /\ crt = Free
        /\ accepting = NoClient
        /\ handle = [c \in Clients |-> "none"]
        /\ reading = [c \in Clients |-> 0]
        /\ pending = [c \in Clients |-> << >>]
        /\ done = {}
        /\ broken = {}
        /\ allocated = 0
        /\ block = [b \in Blocks |-> "none"]
        /\ refCount = [b \in Blocks |-> 0]
        /\ refused = {}
        /\ worker = [w \in Workers |-> Resting]
        /\ messages = 0
        /\ delivered = [c \in Clients |-> << >>]
        /\ fault = "none"

(* Freed memory that is only read still looks like something; after a block *)
(* has been freed twice, or the end of the list erased, nothing is known.   *)
Running == fault \in {"none", "usedFreed"}

(* Unlocked and, below, RepostFirst, SendUncounted and BelowZero are wrong   *)
(* on purpose: each is the plausible mistake the properties must notice in   *)
(* the definition after it.                                                 *)
Unlocked == TRUE
CrtIsFree == crt = Free

(* A new block, and a receive for client c on it, which may be refused; *)
(* nobody looks at the result.                                              *)
PostRead(c) ==
    /\ allocated' = allocated + 1
    /\ block' = [block EXCEPT ![allocated'] = "live"]
    /\ \/ reading' = [reading EXCEPT ![c] = allocated'] /\ UNCHANGED refused
       \/ refused' = refused \cup {allocated'} /\ UNCHANGED reading
    /\ UNCHANGED refCount

------------------------------------------------------------------------------
(* The main thread: accept, and the client is in the list.  A failed accept  *)
(* is not noticed: it makes a client on whose socket every call is refused. *)
Accept(c) ==
    /\ Running
    /\ accepting = NoClient
    /\ handle[c] = "none"
    /\ CrtIsFree
    /\ handle' = [handle EXCEPT ![c] = "live"]
    /\ clientList' = Append(clientList, c)
    /\ accepting' = c
    /\ UNCHANGED <<crt, reading, sendVars, blockVars, worker, messages, fault>>

(* The socket is bound to the port, and the first receive is posted. *)
Listen ==
    /\ Running
    /\ accepting # NoClient
    /\ PostRead(accepting)
    /\ accepting' = NoClient
    /\ UNCHANGED <<listVars, handle, sendVars, worker, messages, fault>>

------------------------------------------------------------------------------
(* The kernel sends in the order of the WSASends on a socket; once one has   *)
(* failed, none of the later ones succeeds.  As long as the socket of a new  *)
(* client is not bound to the port, nothing is reported.                    *)
Complete(c) == /\ Running
               /\ pending[c] # << >>
               /\ \/ done' = done \cup {<<Head(pending[c]), c>>} /\ UNCHANGED refused
                  \/ /\ c = accepting
                     /\ refused' = refused \cup {Head(pending[c])}
                     /\ UNCHANGED done
               /\ pending' = [pending EXCEPT ![c] = Tail(@)]
               /\ UNCHANGED <<listVars, accepting, handle, reading, allocated, block, refCount,
                              worker, messages, fault>>

Transmit(c) == /\ c \notin broken
               /\ Complete(c)
               /\ delivered' = [delivered EXCEPT ![c] = Append(@, Head(pending[c]))]
               /\ UNCHANGED broken

SendFails(c) == /\ Complete(c)
                /\ broken' = broken \cup {c}
                /\ UNCHANGED delivered

------------------------------------------------------------------------------
(* IOThreadFunc takes a completion from the port.  The handle is read first, *)
(* although it is used for receives only.                                   *)
Takes(w, at, c, b) ==
    worker' = [worker EXCEPT ![w] = [at |-> at, client |-> c, block |-> b, todo |-> << >>]]
ReadHandle(c) == fault' = IF handle[c] = "freed" THEN "usedFreed" ELSE fault

(* A message. *)
RepostFirst(w, c) ==
    /\ Running
    /\ worker[w].at = "wait"
    /\ reading[c] # 0
    /\ messages < MaxMessages
    /\ messages' = messages + 1
    /\ Takes(w, "message", c, reading[c])
    /\ ReadHandle(c)
    /\ UNCHANGED <<listVars, accepting, handle, reading, sendVars, blockVars>>

TakeMessage(w, c) ==
    /\ Running
    /\ worker[w].at = "wait"
    /\ reading[c] # 0
    /\ messages < MaxMessages
    /\ messages' = messages + 1
    /\ Takes(w, "message", c, reading[c])
    /\ reading' = [reading EXCEPT ![c] = 0]
    /\ ReadHandle(c)
    /\ UNCHANGED <<listVars, accepting, handle, sendVars, blockVars>>

(* The client has left. *)
TakeLeave(w, c) ==
    /\ Running
    /\ worker[w].at = "wait"
    /\ reading[c] # 0
    /\ Takes(w, "leave", c, reading[c])
    /\ reading' = [reading EXCEPT ![c] = 0]
    /\ ReadHandle(c)
    /\ UNCHANGED <<listVars, accepting, handle, sendVars, blockVars, messages>>

(* A send of block b to client c is over, well or not. *)
TakeSent(w, b, c) ==
    /\ Running
    /\ worker[w].at = "wait"
    /\ <<b, c>> \in done
    /\ done' = done \ {<<b, c>>}
    /\ Takes(w, "sent", c, b)
    /\ ReadHandle(c)
    /\ UNCHANGED <<listVars, accepting, handle, reading, pending, broken, delivered, blockVars,
                   messages>>

------------------------------------------------------------------------------
GoesTo(w, at) == worker' = [worker EXCEPT ![w].at = at]
Done(w) == worker' = [worker EXCEPT ![w] = Resting]

(* The client leaves the list, and its handle and receive block are freed. *)
Leave(w) ==
    /\ Running
    /\ worker[w].at = "leave"
    /\ CrtIsFree
    /\ LET c == worker[w].client
       IN  /\ fault' = IF c \notin Range(clientList) THEN "erasedEnd"
                       ELSE IF handle[c] = "freed" THEN "freedTwice"
                       ELSE fault
           /\ clientList' = RemoveFirst(clientList, c)
           /\ handle' = [handle EXCEPT ![c] = "freed"]
    /\ block' = [block EXCEPT ![worker[w].block] = "freed"]
    /\ Done(w)
    /\ UNCHANGED <<crt, accepting, reading, sendVars, allocated, refCount, refused, messages>>

(* The broadcast: take the lock, *)
StartBroadcast(w) ==
    /\ Running
    /\ worker[w].at = "message"
    /\ CrtIsFree
    /\ crt' = w
    /\ worker' = [worker EXCEPT ![w].at = "sending", ![w].todo = clientList]
    /\ UNCHANGED <<clientList, accepting, handle, reading, sendVars, blockVars, messages, fault>>

SendUncounted(w) ==
    /\ Running
    /\ worker[w].at = "sending"
    /\ worker[w].todo # << >>
    /\ worker' = [worker EXCEPT ![w].todo = Tail(@)]
    /\ pending' = [pending EXCEPT ![Head(worker[w].todo)] = Append(@, worker[w].block)]
    /\ UNCHANGED <<listVars, accepting, handle, reading, done, broken, delivered, blockVars,
                   messages, fault>>

(* count a send and call WSASend, which may refuse, for one client at a time, *)
SendToNext(w) ==
    /\ Running
    /\ worker[w].at = "sending"
    /\ worker[w].todo # << >>
    /\ LET e == Head(worker[w].todo)
           b == worker[w].block
       IN  /\ worker' = [worker EXCEPT ![w].todo = Tail(@)]
           /\ refCount' = [refCount EXCEPT ![b] = @ + 1]
           /\ \/ pending' = [pending EXCEPT ![e] = Append(@, b)] /\ UNCHANGED refused
              \/ refused' = refused \cup {b} /\ UNCHANGED pending
    /\ UNCHANGED <<listVars, accepting, handle, reading, done, broken, delivered, allocated,
                   block, messages, fault>>

(* and unlock. *)
EndBroadcast(w) ==
    /\ Running
    /\ worker[w].at = "sending"
    /\ worker[w].todo = << >>
    /\ crt' = Free
    /\ GoesTo(w, "repost")
    /\ UNCHANGED <<clientList, accepting, handle, reading, sendVars, blockVars, messages, fault>>

Repost(w) ==
    /\ Running
    /\ worker[w].at = "repost"
    /\ PostRead(worker[w].client)
    /\ Done(w)
    /\ UNCHANGED <<listVars, accepting, handle, sendVars, messages, fault>>

Decrement(w) ==
    /\ Running
    /\ worker[w].at = "sent"
    /\ CrtIsFree
    /\ refCount' = [refCount EXCEPT ![worker[w].block] = @ - 1]
    /\ GoesTo(w, "test")
    /\ UNCHANGED <<listVars, accepting, handle, reading, sendVars, allocated, block, refused,
                   messages, fault>>

BelowZero(b) == refCount[b] < 0
LastSend(b) == refCount[b] <= 0

(* The test after the lock.  A count in a block that is freed already may    *)
(* read as anything.                                                        *)
TestCount(w) ==
    /\ Running
    /\ worker[w].at = "test"
    /\ LET b == worker[w].block
       IN  \/ /\ block[b] = "live"
              /\ LastSend(b)
              /\ block' = [block EXCEPT ![b] = "freed"]
              /\ UNCHANGED fault
           \/ /\ block[b] = "live"
              /\ ~ LastSend(b)
              /\ UNCHANGED <<block, fault>>
           \/ /\ block[b] = "freed"
              /\ fault' \in {"freedTwice", "usedFreed"}
              /\ UNCHANGED block
    /\ Done(w)
    /\ UNCHANGED <<listVars, accepting, handle, reading, sendVars, allocated, refCount, refused,
                   messages>>

------------------------------------------------------------------------------
MainStep == (\E c \in Clients : Accept(c)) \/ Listen

KernelStep == \E c \in Clients : Transmit(c) \/ SendFails(c)

WorkerStep(w) == \/ \E c \in Clients : \/ TakeMessage(w, c)
                                       \/ TakeLeave(w, c)
                                       \/ \E b \in Blocks : TakeSent(w, b, c)
                 \/ Leave(w)
                 \/ StartBroadcast(w)
                 \/ SendToNext(w)
                 \/ EndBroadcast(w)
                 \/ Repost(w)
                 \/ Decrement(w)
                 \/ TestCount(w)

Next == MainStep \/ KernelStep \/ \E w \in Workers : WorkerStep(w)

Spec == Init /\ [][Next]_vars

------------------------------------------------------------------------------
Jobs == [at : {"wait", "message", "sending", "repost", "leave", "sent", "test"},
         client : Clients \cup {NoClient},
         block : Blocks \cup {0},
         todo : Seq(Clients)]

(* Every variable has its type; no count goes below 0. *)
TypeOK ==
    /\ clientList \in Seq(Clients)
    /\ crt \in Workers \cup {Free}
    /\ accepting \in Clients \cup {NoClient}
    /\ handle \in [Clients -> {"none", "live", "freed"}]
    /\ reading \in [Clients -> Blocks \cup {0}]
    /\ pending \in [Clients -> Seq(Blocks)]
    /\ done \subseteq Blocks \X Clients
    /\ broken \subseteq Clients
    /\ allocated \in Blocks \cup {0}
    /\ block \in [Blocks -> {"none", "live", "freed"}]
    /\ refCount \in [Blocks -> Nat]
    /\ refused \subseteq Blocks
    /\ worker \in [Workers -> Jobs]
    /\ messages \in 0 .. MaxMessages
    /\ delivered \in [Clients -> Seq(Blocks)]
    /\ fault \in {"none", "usedFreed", "freedTwice", "erasedEnd"}

(* A broadcast block is freed only after the last of its sends: counting all *)
(* of them before crt is released keeps the count above 0 until then, though *)
(* the first may complete before the last is posted.                        *)
FreedAfterLastSend ==
    \A b \in Blocks : block[b] = "freed" =>
        /\ \A c \in Clients : b \notin Range(pending[c]) /\ <<b, c>> \notin done
        /\ \A w \in Workers :
               worker[w].block = b => worker[w].at \notin {"message", "sending", "sent"}

(* The sends of a block that somebody still has to count down. *)
Outstanding(b) ==
    {c \in Clients : \/ b \in Range(pending[c])
                     \/ <<b, c>> \in done
                     \/ \E w \in Workers : /\ worker[w].at = "sent"
                                           /\ worker[w].block = b
                                           /\ worker[w].client = c}

(* As long as a block lives its count is the number of these sends, and more *)
(* only if a send of it was refused or never reported: those were counted    *)
(* too, and nobody counts them down.                                        *)
CountsSends ==
    \A b \in Blocks : block[b] = "live" =>
        LET n == Cardinality(Outstanding(b))
        IN  IF b \in refused THEN refCount[b] >= n ELSE refCount[b] = n

(* A block nobody has any more, no thread, no receive and no send, is freed, *)
(* unless its receive or one of its sends was refused or never reported:    *)
(* every other count comes to 0 in front of some worker's test.             *)
LeaksOnlyRefused ==
    \A b \in 1 .. allocated : block[b] = "live" /\ b \notin refused =>
        \/ \E c \in Clients : reading[c] = b
        \/ \E w \in Workers : worker[w].block = b
        \/ Outstanding(b) # {}

(* What the reference count does and does not do for the blocks. *)
CountInv == CountsSends /\ LeaksOnlyRefused

(* The loop at line 142 walks a list nobody changes (the comment at 139). *)
IterationSafe ==
    \A w \in Workers : worker[w].at = "sending" =>
        /\ IsSuffix(worker[w].todo, clientList)
        /\ \A c \in Range(worker[w].todo) : handle[c] = "live"

(* A client leaves once, when it is in the list: std::find at line 127 never *)
(* returns the end, and its handle is freed once.                           *)
LeavesOnce ==
    \A v, w \in Workers : worker[w].at = "leave" =>
        LET c == worker[w].client
        IN  /\ c \in Range(clientList)
            /\ handle[c] = "live"
            /\ reading[c] = 0
            /\ worker[v].client = c /\ v # w => worker[v].at \in {"sent", "test"}

(* Those who get two messages get them in the same order: a broadcast posts  *)
(* all its sends before another one begins.                                 *)
SameOrder ==
    \A c, d \in Clients :
        \A i, j \in DOMAIN delivered[c], k, l \in DOMAIN delivered[d] :
            /\ delivered[c][i] = delivered[d][k]
            /\ delivered[c][j] = delivered[d][l]
            => (i < j <=> k < l)

(* One worker, the one that saw the last send complete, reports the message  *)
(* as sent and frees its block.                                             *)
FreedOnce == fault # "freedTwice"

------------------------------------------------------------------------------
(* Why all this holds.                                                      *)

(* crt is held through the loop at line 142, and nowhere else for longer     *)
(* than a step.                                                             *)
LockInv == \A w \in Workers : worker[w].at = "sending" <=> crt = w

(* A worker that waits has nothing; another has a client and a block. *)
WorkerInv ==
    \A w \in Workers : IF worker[w].at = "wait"
                        THEN worker[w].client = NoClient /\ worker[w].block = 0
                        ELSE worker[w].client \in Clients /\ worker[w].block \in 1 .. allocated

(* Each client that was accepted and has not left is in the list once. *)
ListInv == /\ IsInjective(clientList)
           /\ Range(clientList) = {c \in Clients : handle[c] = "live"}

(* The loop is at some place of the list. *)
EndsWith(t, s) == /\ Len(s) <= Len(t)
                  /\ \A i \in 1 .. Len(s) : s[i] = t[Len(t) - Len(s) + i]

LoopInv ==
    \A w \in Workers : worker[w].at = "sending" =>
        EndsWith(clientList, worker[w].todo) /\ IsInjective(worker[w].todo)

(* One hand at a time receives for a client: the main thread, the kernel or a *)
(* worker, from the completion of one receive to the post of the next.      *)
Receiving(w) == worker[w].at \in {"message", "leave", "sending", "repost"}

ReceiveInv ==
    /\ accepting # NoClient => handle[accepting] = "live"
    /\ \A c \in Clients : reading[c] # 0 => handle[c] = "live" /\ c # accepting
    /\ \A w \in Workers : Receiving(w) => LET c == worker[w].client
                                          IN  /\ handle[c] = "live"
                                              /\ reading[c] = 0
                                              /\ c # accepting
    /\ \A v, w \in Workers :
           Receiving(v) /\ Receiving(w) /\ worker[v].client = worker[w].client => v = w

(* A block for each client that was listened to and one for each message     *)
(* after which the worker has posted a receive.                             *)
Listened == {c \in Clients : handle[c] # "none" /\ c # accepting}
Reposting == {w \in Workers : worker[w].at \in {"message", "sending", "repost"}}

BoundInv == /\ IsFiniteSet(Reposting)
            /\ allocated = Cardinality(Listened) + messages - Cardinality(Reposting)

(* A block no message was broadcast with. *)
Unsent(b) == /\ refCount[b] = 0
             /\ b \notin refused
             /\ \A c \in Clients : /\ b \notin Range(pending[c])
                                   /\ <<b, c>> \notin done
                                   /\ b \notin Range(delivered[c])

(* A block belongs to a receive, *)
ReadInv ==
    \A c \in Clients : reading[c] # 0 =>
        /\ reading[c] <= allocated
        /\ block[reading[c]] = "live"
        /\ Unsent(reading[c])
        /\ \A w \in Workers : worker[w].block # reading[c]
        /\ \A d \in Clients : reading[d] = reading[c] => d = c

(* then to the worker that took it, *)
TakenInv ==
    \A w \in Workers : worker[w].at \in {"message", "leave"} =>
        /\ block[worker[w].block] = "live"
        /\ Unsent(worker[w].block)
        /\ \A v \in Workers : worker[v].block = worker[w].block => v = w

(* and then to the sends of one broadcast, of which no count is tested until *)
(* all are posted.                                                          *)
SendingInv ==
    \A w \in Workers : worker[w].at = "sending" =>
        /\ block[worker[w].block] = "live"
        /\ \A v \in Workers : worker[v].block = worker[w].block => v = w \/ worker[v].at = "sent"
        /\ Range(worker[w].todo) \cap Outstanding(worker[w].block) = {}

BlockInv ==
    /\ \A b \in Blocks : IF b > allocated THEN block[b] = "none" /\ Unsent(b)
                                           ELSE block[b] # "none"
    /\ ReadInv /\ TakenInv /\ SendingInv

(* A send is with the kernel, on the port or with one worker. *)
OnceInv ==
    /\ \A c \in Clients : /\ IsInjective(pending[c])
                          /\ \A b \in Range(pending[c]) : <<b, c>> \notin done
    /\ \A w \in Workers : worker[w].at = "sent" =>
           /\ worker[w].block \notin Range(pending[worker[w].client])
           /\ <<worker[w].block, worker[w].client>> \notin done
           /\ \A v \in Workers :
                  /\ worker[v].at = "sent"
                  /\ worker[v].block = worker[w].block
                  /\ worker[v].client = worker[w].client
                  => v = w

(* Who frees a block that lives: a message is sent to its sender at least,   *)
(* and somebody is still to test the count.                                 *)
KeptInv ==
    \A b \in 1 .. allocated : block[b] = "live" /\ b \notin refused =>
        \/ \E c \in Clients : reading[c] = b
        \/ \E w \in Workers : /\ worker[w].block = b
                              /\ \/ worker[w].at \in {"message", "leave", "test"}
                                 \/ /\ worker[w].at = "sending"
                                    /\ worker[w].client \in Range(worker[w].todo)
        \/ Outstanding(b) # {}

(* The sends to client c that were posted and have not failed, in order. *)
Posted(c) == delivered[c] \o pending[c]

Before(s, x, y) == \E i, j \in DOMAIN s : i < j /\ s[i] = x /\ s[j] = y

(* No two clients have two messages in opposite orders, and the message that *)
(* is being broadcast is the last one wherever it was posted.               *)
OrderInv ==
    /\ \A c \in Clients : IsInjective(Posted(c))
    /\ \A c, d \in Clients : \A x, y \in Blocks :
           ~ (Before(Posted(c), x, y) /\ Before(Posted(d), y, x))
    /\ \A w \in Workers : worker[w].at = "sending" =>
           \A c \in Clients :
               /\ c \in Range(worker[w].todo) => worker[w].block \notin Range(Posted(c))
               /\ \A y \in Blocks : ~ Before(Posted(c), worker[w].block, y)

(* All of it, the inductive invariant. *)
BroadcastInv ==
    /\ TypeOK /\ LockInv /\ WorkerInv /\ ListInv /\ LoopInv /\ ReceiveInv /\ BoundInv
    /\ BlockInv /\ OnceInv /\ KeptInv /\ CountsSends /\ FreedAfterLastSend
    /\ OrderInv
==============================================================================
