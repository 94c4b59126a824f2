# transparentProxyNet in TLA+

Specifications, model-checking configurations and proofs for the two programs of
this repository: `server/`, the gateway in the home network, and `remoteVps/`, the
server that reaches the targets. Together they carry TCP connections over KCP over
encrypted UDP. Line numbers refer to the sources beside this directory (`src/`).

## 1. The system

| part | state | operations | works with |
|---|---|---|---|
| home session (`server/session.*`) | KCP block, `trafficBusy_`, `sessionClose_`, `currentCmdStatus_`, deque of chunks to write, one read buffer | `start`, TCP read and write handlers, `inputToKcp`, `closeSession`, `driveSessionTimeClock` | client's TCP socket; its worker's UDP socket, session map and time wheel |
| remote session (`remoteVps/session.*`) | the same, and `enableToSendToTargetServer_` | the same without a client; `handShakeWithtargetServer` | target's TCP socket; its worker |
| KCP (`ikcp`, not in the repository) | segments not acknowledged, segments out of order, messages not read | `ikcp_send`, `_input`, `_recv`, `_flush`, `_update`, `_check`, `_waitsnd` | called by the sessions, calls `kcpCallBack` |
| worker (`*/worker.*`) | `sessionMap_`, UDP queue, receive buffer, timer | receive loop, bounded UDP send queue, 3 ms timer | one thread per worker; owns its sessions |
| time wheel (`timeWheel/`) | ring of 1000 slots, intrusive doubly linked lists | `registerTask`, `mountTask`, `removeTask`, `doCurrentTimeWheel` | the worker's timer drives it, it calls the sessions |
| thread pool and dispatcher (`*/server.cpp`) | `sonThreadStatus_`, mutex and condition variable, list of workers | `startThreadPool`, `checkSeverAlive`, `getThreadWorker`, `work` | starts workers; posts each accepted socket to one of them |
| memory pool (`memoryPool/`) | four size classes of block lists | `mallocMemory`, `freeMemory`, `freeOldMemoryBlock` (no caller yet) | one per worker; every buffer of its sessions |
| framing (`*/AES.*`) | cipher contexts | `doEncrypt`, `doDecrypt` | every datagram |

How a connection runs. The dispatcher accepts a redirected client socket and posts
it to a worker, which constructs a home session, gives it a random id, puts it in
`sessionMap_` and starts it. `start` mounts the session in the time wheel, sends a
`newSession` message with the original destination through KCP and begins to read
the client. The first datagram with an unknown id makes a remote worker construct a
remote session; its `newSession` message makes that session connect to the target.
From then on both read TCP chunks into KCP and write what KCP delivers to TCP.
A read is started again only while fewer than 128 segments wait in KCP; otherwise
`trafficBusy_` is set and an ack that brings the number under two thirds starts it.
A TCP error closes the session: socket closed, out of the time wheel, kept in the map.

What is hard. Each worker has one thread, so a handler is atomic; the difficulty is
the *order* in which completions, datagrams and ticks reach that thread: two reads or
two writes outstanding at once, a completion queued before a close and handled after
it, data that overtakes the handshake, a flow-control flag and an ack that miss each
other, datagrams lost, repeated and reordered, intrusive lists changed while they are
walked. Across threads, the start-up protocol has a counter, a predicate and a
notification, and the main thread posts sessions to workers that have only just
reported in. Below the sessions, one queue, one receive buffer and one pool of blocks
serve all sessions of a worker: a send that fails, a datagram that does not decrypt,
or a size at the edge of a class concerns them all. The properties that make each part correct are listed in section 3;
`PROJECT.json` lists every hazard with its line.

## 2. Modules

`Kcp` is an operator library for the control block; with `MemoryPool` it shares
`Selection`, what a loop over a sequence keeps of it. `HomeSession` and `RemoteSession`
EXTEND it; each is one session against an arbitrary peer. `Tunnel` INSTANCEs both and
puts a network between them; `Relay` is what the proxy promises of one direction.
`Dispatcher` EXTENDS `ThreadPool` and goes on where it ends. `UdpIngress` and
`MemoryPool` EXTEND `Framing`, which says how long datagrams are. `TimeWheel` and
`UdpEgress` stand alone. `MC...` modules only define the datagrams
of the peer. `...Proofs` modules hold the theorems about the module they are named
after, with two exceptions: `FramingProofs` has the two modules that EXTEND
`Framing`, and `DispatcherProofs` begins with the start-up. Because `UdpIngress` and
`MemoryPool` are proved about in one module, the pool's specification has names of its
own (`PoolInit`, `PoolNext`, `PoolSpec`).

**Kcp** (external; modelled from its calls). A record per block: `log` numbers every
segment ever queued, `snd` is what is not acknowledged, `rcvBuf`/`rcvQueue` are the
receiving side, `acklist` the acks for the next flush. A message is cut into 1 to
`MaxFrags` segments (a 2048-byte buffer at an MTU of 1250 needs two). There is no
window and no timer: a flush emits every segment not acknowledged. Early emission is a
duplicate, emission that is due but lost is a loss, and the network produces both.
`ikcp_send` is assumed not to fail. One datagram carries one segment or one ack.

**HomeSession**, `server/session.cpp`. `rd` and `wr` are the asynchronous operation on
each direction of the socket: not started, with the kernel (`pending`), completed with
its handler queued (`ok`, `err`), or started twice (`overlap`). The kernel's completion
(`readCompletes`, `writeCompletes`) and the handler are separate actions, so that a
close, a tick or a datagram can come between them. `start` is `registerSession`,
`start` and `sendIpAndportToServer`, which run in one posted handler. A chunk of the
stream is its index. Which of `Next`'s disjuncts is which function can be read off
their names.

**RemoteSession**, `remoteVps/session.cpp` and the handler of `worker::listen`, which
finds or creates the session, in one action. `conn` is the `async_connect`. The write
handler clears a closed session's deque *before* it pops: on success that pops an
empty deque, which is undefined; `emptyPop` records it and the session's handlers
stop there. The home session pops first and has no such step.

**Tunnel**. `toRemote` and `toHome` are sets of datagrams in flight. A delivery may
leave a copy behind (duplication), any datagram may be chosen (reordering) or dropped
(`Lose`: the network, or a worker's full UDP queue). `Relay` counts what was taken
from the sender and lists what reached the receiver.

**TimeWheel**, `timeWheel.hpp`, pointer by pointer: `next` of headers and tasks,
`ahead` of tasks, exactly the assignments of the code. `doCurrentTimeWheel` is split
into `beginTick`, one `runTask` per task, `endTick`; nothing else runs while `ticking`.
`list`, `pos`, `len`, `slack`, `driven`, `ran` are history: where each task is and when
it asked to be driven. They are never read by the code's actions, except that
`slack` and `pos` follow them. `start` passes `now + d` to `mountTask`, as the code does.

**ThreadPool**, `startThreadPool` and `worker::start` of both programs. The test of the
predicate and going to sleep are two steps, because the workers change the counter and
notify without the mutex. `InitialStatus` is {0} for the home program; the remote
program does not initialise its counter, so there it is any of a set of values.

**Dispatcher**, `server/server.cpp`: the probe, the start-up (`ThreadPool`'s
Next, inside the action `startThreadPool`), `work` with its accept handler, and the
handler posted to the worker. `armed` is the worker that the outstanding `async_accept`
was started for, so the choice is made one connection ahead of the count. The posted
handler runs in the worker's thread, hence not while that thread is in its connect
handler, between reporting in (`counted`) and having started its time wheel
(`notified`). A session's end leaves `sessionSize` alone.

**UdpEgress**, `tryTosendUdpMessageToRemoteServer` and the send loop, which are the same
code in both programs (the remote worker keeps an endpoint with each datagram). `op` is
the `async_send`, as `rd` and `wr` are in the sessions; `stalled` is history.

**Framing** and **UdpIngress**. `Framing` computes the lengths of `doEncrypt` and
`doDecrypt` and when they refuse; whether a datagram authenticates is one bit of it.
`UdpIngress` has the receive handlers of both programs: after a decryption that failed
they still read an id at offset 44 of the one buffer, so `Header` is the set of ids that
may be found there: the id of the datagram, what an earlier datagram left (when this
one is too short to reach that far), or anything. `fed` is history: what `ikcp_input`
accepted (it refuses less than `IKCP_OVERHEAD` bytes), for which session. A damaged
datagram has the size of a genuine one, or one below the smallest. Two calls throw, and
nobody catches: the constructor of a remote session, whose `open` finds no descriptor
(`listenThrows`, `remoteVps/session.cpp:17`), and `getSessionId` (`registerSessionThrows`).
The exception leaves the handler, `io_context::run` and the thread, and the program ends:
after `terminated` there is no step.

**MemoryPool**, `memoryPool.cpp`. A block is its number, a node an index in it; `chain` is a
class's list of blocks and `free` a block's list of free nodes, both as sequences in
the order of the links. `held` has the nodes in use with the bytes their user writes,
which for `kcpCallBack` is what `doEncrypt` makes of its argument. Simplifications: all
classes have the same number of nodes per block (the code has a number for each), and
`aligned_alloc` does not fail before `MaxBlocks` are in use. The code links one node
more than it counts, and the model does too.

Operators whose comment begins "Defect" and whose name ends in `_...` are defective
variants of the operator after them: a guard dropped, a mark off by one, an order
swapped. `PROJECT.json` pairs each property with a variant that breaks it; they are
not used by any specification.

## 3. Runs

| run | what it shows | bounds |
|---|---|---|
| `home` | one read, one write at a time (`NoOverlap`); no lost wake-up of the reader (`ReadingOrBackedUp`); the queue is bounded (`BacklogBounded`); a write owns the deque's head and nothing waits without one (`WriteOwnsHead`); in the wheel until closed (`MountedUntilClosed`); closed is final (`ClosedIsFinal`) | mark 3, 2 segments per message, 3 chunks; peer sends 3 segments, any ack, in any order, any number of times |
| `remote` | the same; nothing moves before the handshake (`NothingBeforeHandshake`); the undefined pop needs a closed session (`EmptyPopOnlyAfterClose`) | the same; peer sends 4 segments |
| `tunnel` | both directions implement `Relay!SafeSpec` | 1 chunk each way, mark 2, sockets fail at any time |
| `tunnel_up`, `tunnel_down` | everything sent is delivered (`Relay!Spec`) | 2 chunks one way, mark 2: the reader stops and restarts |
| `timewheel` | lists intact, `removeTask` safe, once per tick, redriven on time, every open session driven for ever (`DrivenForever`) | 3 sessions, 3 slots of 2 ms, delays to 5 ms |
| `timewheel_start` | violated: first drive on time | 1 session |
| `threadpool_lostwakeup` | violated: ready, then listening | 2 workers |
| `udp_ingress` | one receive at a time, the remote worker stops receiving only when the program ends (`RemoteListens`), KCP takes only what was sent in the session's name (`OnlyGenuineFed`) | 2 drawn and 2 foreign ids, KCP datagrams of 24 and 1250 bytes |
| `udp_egress` | never two sends and always one while a datagram waits, but for a stall (`OneSend`); the front stays while it is sent (`BufferHeld`); what the queue took is given to the socket, but for a stall (`AcceptedIsSent`) | limit 3, 3 datagrams, sends may fail |
| `dispatcher` | work only when all workers have reported in (`WorkOnlyWhenReady`); sessions start only on workers that are connected and ticking (`StartedOnReadyWorker`); a connection goes to a worker that was given no more of them than any other (`ChosenHasFewest`); every client gets its session, whichever accepts fail (`ClientsServed`) | 3 workers, whose connects may fail, 5 connections |
| `memory_pool` | counts, free lists and nodes in use agree (`FreeListsIntact`); every user has room, in a block of one chain that is not given back meanwhile (`BigEnough`) | 2 nodes per block, 2 blocks beyond the first four; requests of 255, 1378 and 2048 bytes |

Why the bounds are enough. A mark of 3 with messages of up to two segments lets the
queue be below, at and above both marks, overshoot the upper one, and drain in steps of one; three chunks
make the reader stop, restart and stop again. The peer's messages include a two-segment one, so that
incomplete messages, gaps and duplicates occur. In the wheel, three slots and delays
up to two ticks put a task in the next slot, in the slot just left, and behind another task, and
make `Target` and the cursor wrap. A limit of 3 lets the send queue be empty, partly
full, at its limit and one above it; five connections on three workers make the least
counter move round more than once; two nodes per block let a block be untouched,
half used and exhausted, and two more blocks give a chain of three. The requests are
127 and 1250 bytes of KCP (the edges: 255 asked for, in the 256 class, and the MTU)
and a whole 2048-byte buffer. Where the mark and the ring
length matter for every value, the theorems of section 5 apply. Runs that may stop say `CHECK_DEADLOCK FALSE`:
the remote session before any datagram or after the undefined pop, a tunnel
whose sessions are both closed, a pool whose worker failed, a server that is down, a
dispatcher whose clients are all served, a home worker after a receive error, a program
that an exception ended.

Fairness. `Tunnel!FairSpec`: a handler that is queued runs (`io_context::run` never
stops serving); a TCP peer that is up accepts writes and answers the connect; the 3 ms timer re-arms itself
(`startTimeWheel`); a datagram sent again and again arrives at last (strong fairness
per datagram, since any finite number of losses is possible). The last one is an
assumption about the network *and* the workers' queues, which the code does not ensure:
the queue drops what finds it full and gives no session a guarantee, so the delivery runs
speak of loads at which a session's datagrams find room now and then. No peer is obliged to
send. `TimeWheel!FairSpec`: only the timer. `ThreadPool!FairSpec`: threads run; a
spurious wake-up is never owed. `UdpEgress!FairSpec`: sends finish (well or not) and their handlers run;
nothing is granted to what is offered. `DispatcherFairSpec`: threads run, and accepting does not
fail every time. The delivery runs set `SocketsFail` to FALSE because
after a close nothing is promised (section 4).

## 4. Where code and comments disagree

1. *First drive at the wrong time* (`timewheel_start`). `start` passes the time
   returned by `ikcp_check` to `mountTask`, which expects a delay
   (`server/session.cpp:34-35`, `remoteVps/session.cpp:36-37`). The first drive is off by
   the uptime modulo the three seconds of the wheel; every later one is right.
2. *Lost wake-up* (`threadpool_lostwakeup`). The last `notify_one` can fall between
   predicate and sleep; then the home server never listens (`server/server.cpp:19-28`).

The following have no run of their own; each can be read off the model.

3. *Uninitialised counter*. `remoteVps/server.cpp:6` leaves `sonThreadStatus_` without a
   value, so `InitialStatus` is not {0} for the remote program: with a value
   from 1 to the number of workers `WorkOnlyWhenReady` is violated, and with any other but
   0 the main thread never goes on.
   `remoteVps/server.h:20` says that the counter guarantees the order. `ListenAfterReady`
   has the initial value as its hypothesis.
4. *Sessions are never removed*. `doCloseSession` is empty; its comments promise removal
   after 30 s (`server/session.cpp:84`). No action takes a session out of the map.
5. *One more than the limit*. "Not more than 2048" (`server/worker.cpp:76`) is tested
   with `size()>2048` before the push, so the queue reaches 2049. That this is all is
   the theorem `EgressBounded`, with the bound `OneOverLimit`; no run states it, since
   the bound is the code's and not the comment's.
6. *Not discarded*. `AES.cpp:78` says that a datagram that fails the tag is discarded
   at once; `worker::listen` does not look at the result and makes a session of whatever
   id it finds (`remoteVps/worker.cpp:70`; the action `listen`). It is fed nothing:
   `OnlyGenuineFed` holds, because the length it passes on is negative.
7. *Load of ended sessions*. `sessionSize` is said to be the number of current sessions
   (`server/worker.h:47`), but is only ever incremented, so a worker whose sessions have
   all ended is passed over for one that is full of them: the live load may be as
   skewed as the ends of the sessions make it. `ChosenHasFewest` is about the
   connections ever accepted, and says no more.

Behaviour worth knowing that contradicts no comment: a read error closes a session
while data sent before it may be unacknowledged, and a closed session is no longer
retransmitted, so the tail of a stream can be lost; the other side is not told
(`removeSession` is never sent); a failed connection to the target leaves the remote
session open and queueing; the deques towards TCP are unbounded; the remote
session's pop of an empty deque (section 2). A worker whose `async_send` fails while
other datagrams wait never sends again, because its handler returns and everybody
else finds the queue not empty (`OneSend` says exactly when); a home worker
whose receive fails never receives again, while a remote one does
(`server/worker.cpp:132`, `remoteVps/worker.cpp:60`). Every unknown id makes the remote worker
open a socket, a damaged datagram's as well, and nothing closes the socket of an id that
nobody drew: when no descriptor is left the constructor throws and the whole program ends (`listenThrows`). A session whose
datagrams find the send queue full each time sends nothing. `mallocMemory` does not
check its argument: from 2304 bytes on the shift yields the smallest class; no
caller asks for so much. `Relay!SafeSpec` still holds throughout: what
arrives is a prefix.

## 5. Proofs

All proofs are checked by tlapm with SMT, Zenon and PTL. *Every safety invariant and
every action property of the passing runs is a theorem*, and so is the refinement of
`Relay!SafeSpec`. Assumptions are the named ones of the modules, which TLC evaluates:

- `HomeSessionAssumption`, `RemoteSessionAssumption`, `TunnelAssumption`: the types of
  the constants; the mark is greater than 1 (or the lower mark would be 0 and reading would
  never resume); what the peer sends is well-formed KCP (`PeerDatagram` is a set of
  `KcpDatagram`, what `ikcp_input` can make of bytes).
- `NewSessionFirst` (`RemoteSession`): the `newSession` message is the peer's
  segment 1, because `session::start` sends it before anything is read
  (`server/session.cpp:57-67`). The tunnel does not assume it: there the peer is
  the home session, and `SessionsInTunnel` proves it.
- `TimeWheelAssumption`: a delay is shorter than a turn of the wheel.
- `UdpIngressAssumption`: a KCP datagram has at least its header.
- `MemoryPoolAssumption`: a block has a node, there is a block for each class, KCP's
  output is at most the MTU and everything else at most a buffer.
- `UdpEgressAssumption`, `ThreadPoolAssumption`: types; `DispatcherAssumption`: the home
  program's counter starts at 0.

*Flow control* (`HomeSessionProofs`, `RemoteSessionProofs`, over the lemmas of
`KcpProofs`). Proved for every mark, message size, number of chunks and *every set of
well-formed KCP datagrams*: `TypeOK`, `ReadingOrBackedUp`, `BacklogBounded`,
`NoOverlap`, `WriteOwnsHead`, `MountedUntilClosed`, `ClosedIsFinal`, and for the remote
session `NothingBeforeHandshake` and `EmptyPopOnlyAfterClose`. The inductive invariant
`FlowInv` adds to these that a read which may bring data is under way only below the
mark (`ReadBelowMark`; without it a message could be added to a full queue), that a
closed socket holds no operation (`ClosedHoldsNothing`), and that a session that was not
started has nothing (`Started`); for the remote session, that before the handshake
nothing has been read, written, queued or closed, and that no connect is under way
after it (`Handshake`). The reason no wake-up is lost: the flag is set only at
or above the upper mark with no read outstanding, and every step that lowers the backlog
is an input, which makes the resume test itself. A write is started in two places, one
if the deque was empty and one when the head was popped; `WriteOwnsHead` is what makes
the two exclude each other. The remote session needs one thing more for its connects: a
second `newSession` message would start a second one. `HandshakeOnce` says why it is
taken only once: it is segment 1, and the number of the next segment the reader wants
only grows. The lemmas `OnceRecv` and `OnceRead` say so of what `ikcp_recv` returns.

*Tunnel* (`TunnelProofs`). For any number of chunks, any cutting into segments, any loss,
duplication and reordering of datagrams, any close and any failure:
`UpRelays` and `DownRelays`, the implementation of `Relay!SafeSpec` in both directions.
What `RelayUp` shows is a projection (the number of chunks read and the list of those
that reached the other socket), and a prefix is far from inductive: between the two are two
blocks, the network, a deque and a write. The inductive invariant `TunnelInv` is the same
formula, `Flow`, for either direction, and says that all of them hold *one* sequence:

- the sender's log is numbered and its chunks are 1, 2, 3, ... in order (`Numbered`), as many as were
  read, or one less while the handler of a read is queued (`Taken`);
- every datagram in flight is a segment of that log or an ack (`Carries`);
- what the receiving block keeps, in order or not, is the log at those numbers
  (`Reads`). `Arrived` is the number of chunks that end before what it keeps in order;
- what was written, what is being written and what waits in the deque are
  1 to `Arrived`, in order, while the receiver is open and no write has failed
  (`Queue`); after that what was written remains such a prefix (`Writer`).

TLC checked `TunnelInv` (1.5 million states) before it was proved. The proof is by part,
not by action: what a session may do to the direction it feeds (`SenderStep`), and to the
one it drains without a datagram (`WriterStep`) or with one (`InputStep`), each with the lemma
that it keeps `Flow` (`SenderKeeps`, `WriterKeeps`, `InputKeeps`). `HomeLocal`, `HomeInput`, `RemoteLocal` and
`RemoteInput` show each handler to be one of these in both of its directions. `ikcp_recv`
in a loop is the hard part: what it returns are the chunks at the ends of messages
among the segments it consumes, and `RankShift` is how their numbers follow from the position. From `TunnelInv` every step of the tunnel
is a step of the relay or a stutter, with no case of its own for loss or duplication.

Two more theorems say that the composition and its parts fit:

- `SessionsInTunnel`: the two sessions of the tunnel have every state invariant proved of a
  session with any peer. `PeersAsAssumed` shows that what the network can carry
  meets the assumptions made of a peer, `NewSessionFirst` among them, and `SessionsStep` that a step
  of the tunnel is for each session a step of its own `Next`, or leaves it alone.
- `NetworkIsComplete`: every datagram ever sent is in the finite sets from which
  `Tunnel!Next` takes what is delivered, for any number of chunks and segments. Without it
  the theorems above, and the runs, could hold because a delivery was left out. `NumberInv`
  counts: a log has at least one and at most `MaxFrags` segments per chunk that was put
  there (`Sized`), each segment stands where the chunk it carries can be (`Placed`), and an ack is of
  an entry of the peer's log (`Acks`). It needs `TunnelInv` and the invariants of both
  sessions, so it comes last. TLC checked it before it was proved: completely with
  the bounds of the run `tunnel`, and without a violation in the first 5 million states with
  messages of two segments.

*Time wheel* (`TimeWheelProofs`). For any number of sessions, ring length and tick:
`TypeOK`, `ListsIntact`, `RemoveFollowsLink`, `OncePerTick`, `RedrivenOnTime`. The history
variables make `TypeOK /\ ListsIntact` inductive: they say where each task is, and the
invariant says the pointers agree, so there is no induction along the links.
`OncePerTick` adds that a task already driven is in a slot, and `RedrivenOnTime` that a driven
task is exactly `slack` ticks ahead of the current slot.

*Send queue* (`UdpEgressProofs`). For every limit and set of datagrams: `EgressBounded` (types,
and `OneOverLimit`: never more than the limit and one), `OneSend` and `BufferHeld`. The first two
are inductive together with "a stalled queue is not empty", which is why a stall is for ever.

*Receiving* (`FramingProofs`). For every set of ids and sizes: `OnlyGenuineFed`,
`TypeOK` and `RemoteListens`: one receive until the program ends, none after. The lemma `Remains` is the arithmetic of the frame: what is left after a
failed decryption is at most `-17` bytes, what is left of a genuine datagram is exactly
what was sent.

*Memory pool* (`FramingProofs`). For any number of blocks and nodes, and any sizes a
session asks for: `FreeListsIntact` and `BigEnough`. The invariant `PoolInv` says of every
block that its count, its free list and its nodes in use agree (`Intact`: the list has
no node twice and none that is in use, and the two are all of the block), that
a block is in one chain at most (`ChainsApart`), and that one outside the chains
has nobody in it (`UnusedIdle`). So `freeOldMemoryBlock`, which gives back only blocks whose
count is full, takes nothing from a user, though it never looks at the users. `ClassFits` and
`SizeFits` go through the values of the size divided by 256: the class chosen by the
shift has nodes at least as large as what `doEncrypt` then writes.

*Start-up and dispatcher* (`DispatcherProofs`). If the counter starts at 0, then for any number of
workers it equals the number of ready ones, so the main thread goes on only when all
are (`ListenAfterReady`). The hypothesis appears in the theorem, because the remote program violates it.
For any number of workers and connections: `DispatcherTypeOK`, `StartedOnReadyWorker`,
`ChosenHasFewest`. Every step of the dispatcher is a step of the
start-up or leaves it alone, so it implements `ThreadPool`'s `Spec`
(`DispatcherStartsPool`) and has the start-up's invariant. To that is added
that only a working main thread accepts (`AcceptsWhenWorking`), that each counter is the
cardinality of what was accepted (`Counted`), and that the worker chosen for the next
connection has a least counter (`ChosenLeast`). When the main thread works all workers have
counted; a posted handler cannot run before its worker's connect handler ends; so it
runs on one that is ready.

Only model-checked: liveness (`UpDelivers`, `DownDelivers`, `DrivenForever`, `AcceptedIsSent`,
`ClientsServed`), which under fairness is outside the prover, and the two runs of section 4 that
find a violation.

## 6. Not modelled, and the plan

Done: `Kcp`, `HomeSession`, `RemoteSession`, `Relay`, `Tunnel`, `TimeWheel`,
`ThreadPool`, then `UdpEgress`, `Framing`, `UdpIngress`, `Dispatcher`, `MemoryPool`, and the
proofs above, in that order of importance. What is left:

1. Corollaries about the tunnel that follow from `TunnelInv` and have no name yet (a
   chunk is delivered at most once, what is in flight was read).
2. Facts that connect other components and are only stated in prose: that the memory a
   session asks for is what `Framing` writes, and that the datagrams `UdpEgress` sends are
   those the sessions hand over.
3. Shorter proofs of the session modules, whose home and remote halves are alike.

Not modelled: the cryptography (OpenSSL) and OpenSSL failing on its own (`doEncrypt`'s -1
is not looked at by its caller); KCP's windows, congestion control and timers
(`ikcp` is not in the repository); the original-destination lookup (a system call that
fills an address); the remote program's accept loop for the probe, which drops each
socket and has no state; restarts, for which neither program has code (nothing is
persisted, and after a restart sessions of the other side are unknown ids);
configuration, logging and `main`; exceptions other than the two of `UdpIngress`: a failed
allocation, `local_endpoint` of a client that is gone (`server/session.cpp:55`), `close` of a socket,
the cipher's constructor, the key's `RAND_bytes`. Each ends the program too. `RemoteSession` and
`Tunnel` leave out the constructor's: the process ends, which changes nothing
about what was delivered before, and the delivery runs assume that it does not. Larger liveness runs with messages of two segments
finish, but take longer than they add.
