--------------------------- MODULE RemoteSession ---------------------------
(***************************************************************************)
(* remoteVps/session.cpp and the datagram handler of remoteVps/worker.cpp: *)
(* one session of the remote server.  The first datagram with an unknown   *)
(* session id creates it; its newSession message makes it connect to the   *)
(* target server; from then on it forwards in both directions.             *)
(***************************************************************************)
EXTENDS Kcp

CONSTANTS
  HighWater,      \* kcpSendWindowHighWaterMark (128 in session.h:17)
  MaxFrags,       \* segments of the largest message (2048 bytes: 2)
  MaxChunks,      \* bound: chunks the target server sends
  SocketsFail,    \* may a TCP socket report end of stream or an error?
  PeerDatagram    \* datagrams the network may carry to this session

ASSUME RemoteSessionAssumption ==
  /\ HighWater \in Nat /\ HighWater > 1   \* or LowWater would be 0
  /\ MaxFrags \in Nat \ {0}
  /\ MaxChunks \in Nat
  /\ SocketsFail \in BOOLEAN
  /\ PeerDatagram \subseteq KcpDatagram

\* A home session sends newSession once, as its first message and in one
\* segment (start in server/session.cpp).
ASSUME NewSessionFirst ==
  \A d \in PeerDatagram :
    d.type = "push" /\ d.msg.cmd = "newSession" => d.sn = 1

\* kcpSendWindowHighWaterMark*2/3, in integer arithmetic.
LowWater == (HighWater * 2) \div 3

VARIABLES
  kcp_,
  sessionClose_,
  trafficBusy_,
  currentCmdStatus_,
  enableToSendToTargetServer_,
  tcpDataWaitForSendDeque_,   \* chunk indexes waiting for, or in, async_write
  inSessionMap,               \* the worker's sessionMap_ holds the session
  mounted,                    \* linked into a slot of the worker's time wheel
  conn,                       \* the async_connect to the target server
  rd,                         \* the async_read_some on the target's socket
  wr,                         \* the async_write on the target's socket
  emptyPop,                   \* pop_front ran on an empty deque (undefined)
  chunks,                     \* chunks taken from the target's stream so far
  targetGot,                  \* chunks written to the target, in order
  toHome                      \* datagrams given to the worker's UDP socket

vars == <<kcp_, sessionClose_, trafficBusy_, currentCmdStatus_,
          enableToSendToTargetServer_, tcpDataWaitForSendDeque_, inSessionMap,
          mounted, conn, rd, wr, emptyPop, chunks, targetGot, toHome>>

\* As in HomeSession: not started, with the kernel, completed with success or
\* an error and its handler queued, or started twice.
OpState == {"none", "pending", "ok", "err", "overlap"}

Init ==
  /\ kcp_ = ikcp_create
  /\ sessionClose_ = FALSE
  /\ trafficBusy_ = FALSE
  /\ currentCmdStatus_ = "newSession"
  /\ enableToSendToTargetServer_ = FALSE
  /\ tcpDataWaitForSendDeque_ = << >>
  /\ inSessionMap = FALSE
  /\ mounted = FALSE
  /\ conn = "none"
  /\ rd = "none"
  /\ wr = "none"
  /\ emptyPop = FALSE
  /\ chunks = 0
  /\ targetGot = << >>
  /\ toHome = {}
-----------------------------------------------------------------------------
\* Starting an operation op: on a closed socket it fails at once.
StartOp(op) ==
  IF op # "none" THEN "overlap"
  ELSE IF sessionClose_ THEN "err" ELSE "pending"

\* Defect: the socket is left open.
Cancel_Nothing(op) == op

\* Closing the socket cancels what the kernel still holds; a completion that
\* is already queued keeps its result.
Cancel(op) == IF op = "pending" THEN "err" ELSE op

\* Defect: removeTask forgotten.
closeSession_StaysMounted(r, w) ==
  /\ sessionClose_' = TRUE
  /\ IF sessionClose_ THEN rd' = r /\ wr' = w
                      ELSE rd' = Cancel(r) /\ wr' = Cancel(w)
  /\ UNCHANGED mounted

\* closeSession: once; doCloseSession is empty, the map keeps the session.
\* r and w are the operations the calling handler leaves.
closeSession(r, w) ==
  /\ sessionClose_' = TRUE
  /\ IF sessionClose_
       THEN rd' = r /\ wr' = w /\ UNCHANGED mounted
       ELSE rd' = Cancel(r) /\ wr' = Cancel(w) /\ mounted' = FALSE

\* ikcp_flush(k) with kcpCallBack: datagrams go to the worker's UDP queue.
FlushKcp(k) ==
  /\ kcp_' = ikcp_flush(k)
  /\ toHome' = toHome \cup FlushOutput(k)

\* Defect: a write starts although the target has not accepted yet.
BeginsWrite_TooEarly(data) ==
  tcpDataWaitForSendDeque_ = << >> /\ data # << >>

\* trySendTcpToTargetServerMessage: data joins the deque; does a write start?
BeginsWrite(data) ==
  /\ enableToSendToTargetServer_
  /\ tcpDataWaitForSendDeque_ = << >>
  /\ data # << >>

\* Defect: every message is taken for data.
IsData_Any(m) == TRUE

\* The case of tryToReadFromKcp's switch that forwards m.
IsData(m) == m.cmd = "normal"

\* tryToReadFromKcp.  The first newSession starts the handshake; normal
\* messages join the deque, and a write starts only when the target is
\* connected and the deque was empty.
tryToReadFromKcp(k) ==
  LET q == k.rcvQueue
      news == EndsOf(q, "newSession")
      data == DataAt(q, {i \in MessageEnds(q) : IsData(q[i].msg)})
  IN  /\ conn' = IF news # {} /\ currentCmdStatus_ = "newSession"
                   THEN StartOp(conn) ELSE conn
      /\ tcpDataWaitForSendDeque_' = tcpDataWaitForSendDeque_ \o data
      /\ wr' = IF BeginsWrite(data) THEN StartOp(wr) ELSE wr
      /\ kcp_' = ikcp_recvAll(k)

\* Defect: trafficBusy_ is not looked at.
CongestionEnds_AnyTime(k) == ikcp_waitsnd(k) < LowWater

\* The test inputToKcp makes after ikcp_input has left k: resume reading.
CongestionEnds(k) == trafficBusy_ /\ ikcp_waitsnd(k) < LowWater

\* The handler of worker::listen for a datagram d that carries this session's
\* id: find the session, or construct, register and start it; then
\* inputToKcp, which a closed session ignores.  Acks may end a congestion.
listen(d) ==
  /\ ~ emptyPop
  /\ inSessionMap' = TRUE
  /\ mounted' = (mounted \/ ~ inSessionMap)
  /\ \/ /\ sessionClose_
        /\ UNCHANGED <<kcp_, conn, tcpDataWaitForSendDeque_, wr,
                       trafficBusy_, rd>>
     \/ /\ ~ sessionClose_
        /\ tryToReadFromKcp(ikcp_input(kcp_, d))
        /\ IF CongestionEnds(ikcp_input(kcp_, d))
             THEN trafficBusy_' = FALSE /\ rd' = StartOp(rd)
             ELSE UNCHANGED <<trafficBusy_, rd>>
  /\ UNCHANGED <<sessionClose_, currentCmdStatus_,
                 enableToSendToTargetServer_, emptyPop, chunks, targetGot,
                 toHome>>

\* The connection attempt ends.
connectCompletes ==
  /\ conn = "pending"
  /\ \/ conn' = "ok"
     \/ SocketsFail /\ conn' = "err"
  /\ UNCHANGED <<kcp_, sessionClose_, trafficBusy_, currentCmdStatus_,
                 enableToSendToTargetServer_, tcpDataWaitForSendDeque_,
                 inSessionMap, mounted, rd, wr, emptyPop, chunks, targetGot,
                 toHome>>

\* Handler of async_connect.  A failed handshake is only logged: the session
\* stays open and keeps queueing what the client sends.
handShakeWithtargetServer ==
  /\ ~ emptyPop
  /\ conn \in {"ok", "err"}
  /\ conn' = "none"
  /\ \/ /\ conn = "err"
        /\ UNCHANGED <<enableToSendToTargetServer_, currentCmdStatus_, rd, wr>>
     \/ /\ conn = "ok"
        /\ enableToSendToTargetServer_' = TRUE
        /\ currentCmdStatus_' = "normal"
        /\ rd' = StartOp(rd)
        /\ wr' = IF tcpDataWaitForSendDeque_ = << >> THEN wr ELSE StartOp(wr)
  /\ UNCHANGED <<kcp_, sessionClose_, trafficBusy_, tcpDataWaitForSendDeque_,
                 inSessionMap, mounted, emptyPop, chunks, targetGot, toHome>>

\* Defect: a failed read passes on whatever is in the buffer.
ReadFails_Counts == rd' = "err" /\ chunks' = chunks + 1

\* End of stream, or an error.
ReadFails == rd' = "err" /\ UNCHANGED chunks

\* The target's socket finishes the outstanding read.
readCompletes ==
  /\ rd = "pending"
  /\ \/ /\ chunks < MaxChunks
        /\ rd' = "ok"
        /\ chunks' = chunks + 1
     \/ /\ SocketsFail
        /\ ReadFails
  /\ UNCHANGED <<kcp_, sessionClose_, trafficBusy_, currentCmdStatus_,
                 enableToSendToTargetServer_, tcpDataWaitForSendDeque_,
                 inSessionMap, mounted, conn, wr, emptyPop, targetGot, toHome>>

\* Defects: the mark itself is let through; trafficBusy_ is not set.
checkTrafficStatus_AboveOnly(k) ==
  IF ikcp_waitsnd(k) > HighWater
    THEN trafficBusy_' = TRUE /\ rd' = "none"
    ELSE rd' = StartOp("none") /\ UNCHANGED trafficBusy_
checkTrafficStatus_Forgets(k) ==
  /\ rd' = IF ikcp_waitsnd(k) >= HighWater THEN "none" ELSE StartOp("none")
  /\ UNCHANGED trafficBusy_

\* checkTrafficStatus after k was flushed: stop reading above the mark.
checkTrafficStatus(k) ==
  IF ikcp_waitsnd(k) >= HighWater
    THEN trafficBusy_' = TRUE /\ rd' = "none"
    ELSE rd' = StartOp("none") /\ UNCHANGED trafficBusy_

\* Handler of async_read_some in receiveTcpFromTargetServerMessage.
receiveTcpFromTargetServerMessage ==
  /\ ~ emptyPop
  /\ \/ /\ rd = "err"
        /\ closeSession("none", wr)
        /\ UNCHANGED <<kcp_, trafficBusy_, toHome>>
     \/ /\ rd = "ok"
        /\ \E n \in 1 .. MaxFrags :
             LET k == ikcp_send(kcp_, Normal(chunks), n)
             IN  FlushKcp(k) /\ checkTrafficStatus(k)
        /\ UNCHANGED <<sessionClose_, mounted, wr>>
  /\ UNCHANGED <<currentCmdStatus_, enableToSendToTargetServer_,
                 tcpDataWaitForSendDeque_, inSessionMap, conn, emptyPop,
                 chunks, targetGot>>

\* The target's socket finishes the outstanding write.
writeCompletes ==
  /\ wr = "pending"
  /\ \/ /\ wr' = "ok"
        /\ targetGot' = Append(targetGot, Head(tcpDataWaitForSendDeque_))
     \/ /\ SocketsFail
        /\ wr' = "err"
        /\ UNCHANGED targetGot
  /\ UNCHANGED <<kcp_, sessionClose_, trafficBusy_, currentCmdStatus_,
                 enableToSendToTargetServer_, tcpDataWaitForSendDeque_,
                 inSessionMap, mounted, conn, rd, emptyPop, chunks, toHome>>

\* Defect: the wrong flag is looked at.
Uncleared_WhenIdle == IF trafficBusy_ THEN << >> ELSE tcpDataWaitForSendDeque_

\* What the handler of a write finds in the deque: it clears it when closed.
Uncleared == IF sessionClose_ THEN << >> ELSE tcpDataWaitForSendDeque_

\* Defect: the rest of the deque waits for a write nobody starts.
NextWrite_Never(rest) == "none"

\* The write that drains what is left.
NextWrite(rest) == IF rest = << >> THEN "none" ELSE StartOp("none")

\* Handler of async_write: clear when closed, look at the result, and only
\* then pop.  Undefined when the deque was just cleared: the thread's further
\* behaviour is not modelled.
sendTcpToTargetServerMessage ==
  /\ ~ emptyPop
  /\ \/ /\ wr = "err"
        /\ tcpDataWaitForSendDeque_' = Uncleared
        /\ closeSession(rd, "none")
        /\ UNCHANGED emptyPop
     \/ /\ wr = "ok"
        /\ Uncleared # << >>
        /\ tcpDataWaitForSendDeque_' = Tail(Uncleared)
        /\ wr' = NextWrite(Tail(Uncleared))
        /\ UNCHANGED <<sessionClose_, mounted, rd, emptyPop>>
     \/ /\ wr = "ok"
        /\ Uncleared = << >>
        /\ emptyPop' = TRUE
        /\ tcpDataWaitForSendDeque_' = << >>
        /\ wr' = "none"
        /\ UNCHANGED <<sessionClose_, mounted, rd>>
  /\ UNCHANGED <<kcp_, trafficBusy_, currentCmdStatus_,
                 enableToSendToTargetServer_, inSessionMap, conn, chunks,
                 targetGot, toHome>>

\* Defect: the tick flushes nothing.
driveSessionTimeClock_Idle == mounted /\ UNCHANGED vars

\* driveSessionTimeClock, called by the time wheel for a mounted session,
\* which always mounts it again.
driveSessionTimeClock ==
  /\ ~ emptyPop
  /\ mounted
  /\ FlushKcp(kcp_)
  /\ UNCHANGED <<sessionClose_, trafficBusy_, currentCmdStatus_,
                 enableToSendToTargetServer_, tcpDataWaitForSendDeque_,
                 inSessionMap, mounted, conn, rd, wr, emptyPop, chunks,
                 targetGot>>

\* The steps of the session, its timer and its TCP socket.
Local ==
  \/ connectCompletes
  \/ handShakeWithtargetServer
  \/ readCompletes
  \/ receiveTcpFromTargetServerMessage
  \/ writeCompletes
  \/ sendTcpToTargetServerMessage
  \/ driveSessionTimeClock

Next == Local \/ \E d \in PeerDatagram : listen(d)

\* The session against any peer and any network.
Spec == Init /\ [][Next]_vars
-----------------------------------------------------------------------------
TypeOK ==
  /\ IsBlock(kcp_)
  /\ sessionClose_ \in BOOLEAN
  /\ trafficBusy_ \in BOOLEAN
  /\ currentCmdStatus_ \in {"newSession", "normal"}
  /\ enableToSendToTargetServer_ \in BOOLEAN
  /\ tcpDataWaitForSendDeque_ \in Seq(Nat)
  /\ inSessionMap \in BOOLEAN
  /\ mounted \in BOOLEAN
  /\ conn \in OpState
  /\ rd \in OpState
  /\ wr \in OpState
  /\ emptyPop \in BOOLEAN
  /\ chunks \in 0 .. MaxChunks

\* Reads are started from three places, writes from three, the handshake from
\* one inside a loop; never while one of the same kind is outstanding.
NoOverlap == rd # "overlap" /\ wr # "overlap" /\ conn # "overlap"

\* No wake-up is lost: a connected, open session either reads or is busy with
\* a backlog at or above the low-water mark, so an ack that ends the
\* congestion is still to come.
ReadingOrBackedUp ==
  enableToSendToTargetServer_ /\ ~ sessionClose_ =>
    \/ ~ trafficBusy_ /\ rd # "none"
    \/ trafficBusy_ /\ rd = "none" /\ ikcp_waitsnd(kcp_) >= LowWater

\* The back-pressure bounds what one session queues in KCP.
BacklogBounded == ikcp_waitsnd(kcp_) <= HighWater - 1 + MaxFrags

\* While the session is open, a write that is outstanding or just finished
\* owns the head of the deque, and a connected session leaves nothing in the
\* deque without a write to drain it: what arrived before the handshake
\* finished is not forgotten.
WriteOwnsHead ==
  ~ sessionClose_ =>
    /\ wr # "none" => tcpDataWaitForSendDeque_ # << >>
    /\ enableToSendToTargetServer_ /\ wr = "none" =>
         tcpDataWaitForSendDeque_ = << >>

\* The socket is neither read nor written before the target has accepted the
\* connection ("only now may blind forwarding start", session.cpp:197),
\* however early data messages arrive.
NothingBeforeHandshake ==
  ~ enableToSendToTargetServer_ =>
    /\ rd = "none" /\ wr = "none"
    /\ chunks = 0 /\ targetGot = << >>

\* Once closed, a session never moves another byte on its TCP socket and
\* never comes back, although handlers queued before the close still run: they
\* may start operations, which fail at once.
ClosedIsFinal ==
  [][sessionClose_ => sessionClose_' /\ UNCHANGED <<chunks, targetGot>>]_vars

\* closeSession calls removeTask exactly when the session is linked into the
\* time wheel.
MountedUntilClosed == mounted <=> inSessionMap /\ ~ sessionClose_

\* The undefined pop_front needs the close of the session between the success
\* of a write and its handler; an open session cannot reach it.
EmptyPopOnlyAfterClose == emptyPop => sessionClose_
=============================================================================
