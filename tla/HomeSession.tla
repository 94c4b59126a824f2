---------------------------- MODULE HomeSession ----------------------------
(***************************************************************************)
(* server/session.cpp: one session of the home gateway.  It reads chunks   *)
(* from the WiFi client's TCP socket into KCP, and writes what KCP delivers*)
(* back to that socket.  Every handler runs on the worker's single thread, *)
(* so each is one atomic action; what interleaves is the order in which    *)
(* completions, datagrams and timer ticks reach the thread.                *)
(***************************************************************************)
EXTENDS Kcp

CONSTANTS
  HighWater,      \* kcpSendWindowHighWaterMark (128 in session.h:33)
  MaxFrags,       \* segments of the largest message (2048 bytes: 2)
  MaxChunks,      \* bound: chunks the WiFi client sends
  SocketsFail,    \* may a TCP socket report end of stream or an error?
  PeerDatagram    \* datagrams the network may carry to this session

ASSUME HomeSessionAssumption ==
  /\ HighWater \in Nat /\ HighWater > 1   \* or LowWater would be 0
  /\ MaxFrags \in Nat \ {0}
  /\ MaxChunks \in Nat
  /\ SocketsFail \in BOOLEAN
  /\ PeerDatagram \subseteq KcpDatagram

\* kcpSendWindowHighWaterMark*2/3, in integer arithmetic.
LowWater == (HighWater * 2) \div 3

VARIABLES
  kcp_,
  sessionClose_,
  trafficBusy_,
  currentCmdStatus_,
  tcpDataWaitForSendDeque_,   \* chunk indexes waiting for, or in, async_write
  inSessionMap,               \* the worker's sessionMap_ holds the session
  mounted,                    \* linked into a slot of the worker's time wheel
  rd,                         \* the async_read_some on the client's socket
  wr,                         \* the async_write on the client's socket
  chunks,                     \* chunks taken from the client's stream so far
  clientGot,                  \* chunks written to the client, in order
  toRemote                    \* datagrams given to the worker's UDP socket

vars == <<kcp_, sessionClose_, trafficBusy_, currentCmdStatus_,
          tcpDataWaitForSendDeque_, inSessionMap, mounted, rd, wr, chunks,
          clientGot, toRemote>>

\* An asynchronous operation: not started; with the kernel; completed, its
\* handler queued with success or with an error code.  "overlap" is a second
\* operation started on the socket while one is outstanding: both reads fill
\* the same buffer, both writes interleave their bytes.
OpState == {"none", "pending", "ok", "err", "overlap"}

Init ==
  /\ kcp_ = ikcp_create
  /\ sessionClose_ = FALSE
  /\ trafficBusy_ = FALSE
  /\ currentCmdStatus_ = "newSession"
  /\ tcpDataWaitForSendDeque_ = << >>
  /\ inSessionMap = FALSE
  /\ mounted = FALSE
  /\ rd = "none"
  /\ wr = "none"
  /\ chunks = 0
  /\ clientGot = << >>
  /\ toRemote = {}
-----------------------------------------------------------------------------
\* Starting an operation op: on a closed socket it fails at once.
StartOp(op) ==
  IF op # "none" THEN "overlap"
  ELSE IF sessionClose_ THEN "err" ELSE "pending"

\* Defect: the socket is left open.
Cancel_Nothing(op) == op

\* Closing the socket cancels what the kernel still holds; a completion that
\* is already queued keeps its result.
Cancel(op) == IF op = "pending" THEN "err" ELSE op

\* Defect: removeTask forgotten.
closeSession_StaysMounted(r, w) ==
  /\ sessionClose_' = TRUE
  /\ IF sessionClose_ THEN rd' = r /\ wr' = w
                      ELSE rd' = Cancel(r) /\ wr' = Cancel(w)
  /\ UNCHANGED mounted

\* closeSession: once; doCloseSession is empty, the map keeps the session.
\* r and w are the operations the calling handler leaves.
closeSession(r, w) ==
  /\ sessionClose_' = TRUE
  /\ IF sessionClose_
       THEN rd' = r /\ wr' = w /\ UNCHANGED mounted
       ELSE rd' = Cancel(r) /\ wr' = Cancel(w) /\ mounted' = FALSE

\* ikcp_flush(k) with kcpCallBack: datagrams go to the worker's UDP queue.
FlushKcp(k) ==
  /\ kcp_' = ikcp_flush(k)
  /\ toRemote' = toRemote \cup FlushOutput(k)

\* registerSession, start and sendIpAndportToServer, one posted handler.
start ==
  /\ currentCmdStatus_ = "newSession"
  /\ inSessionMap' = TRUE
  /\ mounted' = TRUE
  /\ FlushKcp(ikcp_send(kcp_, NewSession, 1))
  /\ currentCmdStatus_' = "normal"
  /\ rd' = StartOp(rd)
  /\ UNCHANGED <<sessionClose_, trafficBusy_, tcpDataWaitForSendDeque_, wr,
                 chunks, clientGot>>

\* Defect: a failed read passes on whatever is in the buffer.
ReadFails_Counts == rd' = "err" /\ chunks' = chunks + 1

\* End of stream, or an error.
ReadFails == rd' = "err" /\ UNCHANGED chunks

\* The client's socket finishes the outstanding read: a chunk is in
\* wifiClientSocketBuffer_, or the stream has ended.  A successful read of a
\* non-empty buffer never yields zero bytes, so the early return for
\* byteHadRead==0 has no step.
readCompletes ==
  /\ rd = "pending"
  /\ \/ /\ chunks < MaxChunks
        /\ rd' = "ok"
        /\ chunks' = chunks + 1
     \/ /\ SocketsFail
        /\ ReadFails
  /\ UNCHANGED <<kcp_, sessionClose_, trafficBusy_, currentCmdStatus_,
                 tcpDataWaitForSendDeque_, inSessionMap, mounted, wr,
                 clientGot, toRemote>>

\* Defects: the mark itself is let through; trafficBusy_ is not set.
checkTrafficStatus_AboveOnly(k) ==
  IF ikcp_waitsnd(k) > HighWater
    THEN trafficBusy_' = TRUE /\ rd' = "none"
    ELSE rd' = StartOp("none") /\ UNCHANGED trafficBusy_
checkTrafficStatus_Forgets(k) ==
  /\ rd' = IF ikcp_waitsnd(k) >= HighWater THEN "none" ELSE StartOp("none")
  /\ UNCHANGED trafficBusy_

\* checkTrafficStatus after k was flushed: stop reading above the mark.
checkTrafficStatus(k) ==
  IF ikcp_waitsnd(k) >= HighWater
    THEN trafficBusy_' = TRUE /\ rd' = "none"
    ELSE rd' = StartOp("none") /\ UNCHANGED trafficBusy_

\* Handler of async_read_some in receiveTcpFromWifiCilentMessage.
receiveTcpFromWifiCilentMessage ==
  \/ /\ rd = "err"
     /\ closeSession("none", wr)
     /\ UNCHANGED <<kcp_, trafficBusy_, currentCmdStatus_,
                    tcpDataWaitForSendDeque_, inSessionMap, chunks,
                    clientGot, toRemote>>
  \/ /\ rd = "ok"
     /\ \E n \in 1 .. MaxFrags :
          LET k == ikcp_send(kcp_, Normal(chunks), n)
          IN  FlushKcp(k) /\ checkTrafficStatus(k)
     /\ UNCHANGED <<sessionClose_, currentCmdStatus_,
                    tcpDataWaitForSendDeque_, inSessionMap, mounted, wr,
                    chunks, clientGot>>

\* The client's socket finishes the outstanding write.
writeCompletes ==
  /\ wr = "pending"
  /\ \/ /\ wr' = "ok"
        /\ clientGot' = Append(clientGot, Head(tcpDataWaitForSendDeque_))
     \/ /\ SocketsFail
        /\ wr' = "err"
        /\ UNCHANGED clientGot
  /\ UNCHANGED <<kcp_, sessionClose_, trafficBusy_, currentCmdStatus_,
                 tcpDataWaitForSendDeque_, inSessionMap, mounted, rd, chunks,
                 toRemote>>

\* Defect: the front is not popped.
AfterWrite_KeepsFront ==
  IF sessionClose_ THEN << >> ELSE tcpDataWaitForSendDeque_

\* The deque after a write: the front is popped, all is cleared when closed.
AfterWrite == IF sessionClose_ THEN << >> ELSE Tail(tcpDataWaitForSendDeque_)

\* Defect: the rest of the deque waits for a write nobody starts.
NextWrite_Never(rest) == "none"

\* The write that drains what is left.
NextWrite(rest) == IF rest = << >> THEN "none" ELSE StartOp("none")

\* Handler of async_write: pop, clear when closed, then look at the result.
sendTcpToWifiClientMessage ==
  /\ wr \in {"ok", "err"}
  /\ tcpDataWaitForSendDeque_' = AfterWrite
  /\ \/ /\ wr = "err"
        /\ closeSession(rd, "none")
     \/ /\ wr = "ok"
        /\ wr' = NextWrite(AfterWrite)
        /\ UNCHANGED <<sessionClose_, mounted, rd>>
  /\ UNCHANGED <<kcp_, trafficBusy_, currentCmdStatus_, inSessionMap, chunks,
                 clientGot, toRemote>>

\* tryToReadFromKcp and trySendTcpToWifiClientMessage: every complete normal
\* message joins the deque; a write starts when the deque was empty.
tryToReadFromKcp(k) ==
  LET data == DataAt(k.rcvQueue, EndsOf(k.rcvQueue, "normal"))
  IN  /\ tcpDataWaitForSendDeque_' = tcpDataWaitForSendDeque_ \o data
      /\ wr' = IF tcpDataWaitForSendDeque_ = << >> /\ data # << >>
                 THEN StartOp(wr) ELSE wr
      /\ kcp_' = ikcp_recvAll(k)

\* Defect: trafficBusy_ is not looked at.
CongestionEnds_AnyTime(k) == ikcp_waitsnd(k) < LowWater

\* The test inputToKcp makes after ikcp_input has left k: resume reading.
CongestionEnds(k) == trafficBusy_ /\ ikcp_waitsnd(k) < LowWater

\* inputToKcp(d), called by worker::receiveUdpMessageFromRemoteServer for a
\* datagram whose session id is in sessionMap_.  Acks may end a congestion.
inputToKcp(d) ==
  /\ inSessionMap
  /\ \/ /\ sessionClose_
        /\ UNCHANGED <<kcp_, tcpDataWaitForSendDeque_, wr, trafficBusy_, rd>>
     \/ /\ ~ sessionClose_
        /\ tryToReadFromKcp(ikcp_input(kcp_, d))
        /\ IF CongestionEnds(ikcp_input(kcp_, d))
             THEN trafficBusy_' = FALSE /\ rd' = StartOp(rd)
             ELSE UNCHANGED <<trafficBusy_, rd>>
  /\ UNCHANGED <<sessionClose_, currentCmdStatus_, inSessionMap, mounted,
                 chunks, clientGot, toRemote>>

\* Defect: the tick flushes nothing.
driveSessionTimeClock_Idle == mounted /\ UNCHANGED vars

\* driveSessionTimeClock, called by the time wheel for a mounted session,
\* which always mounts it again.
driveSessionTimeClock ==
  /\ mounted
  /\ FlushKcp(kcp_)
  /\ UNCHANGED <<sessionClose_, trafficBusy_, currentCmdStatus_,
                 tcpDataWaitForSendDeque_, inSessionMap, mounted, rd, wr,
                 chunks, clientGot>>

\* The steps of the session, its timer and its TCP socket.
Local ==
  \/ start
  \/ readCompletes
  \/ receiveTcpFromWifiCilentMessage
  \/ writeCompletes
  \/ sendTcpToWifiClientMessage
  \/ driveSessionTimeClock

Next == Local \/ \E d \in PeerDatagram : inputToKcp(d)

\* The session against any peer and any network.
Spec == Init /\ [][Next]_vars
-----------------------------------------------------------------------------
TypeOK ==
  /\ IsBlock(kcp_)
  /\ sessionClose_ \in BOOLEAN
  /\ trafficBusy_ \in BOOLEAN
  /\ currentCmdStatus_ \in {"newSession", "normal"}
  /\ tcpDataWaitForSendDeque_ \in Seq(Nat)
  /\ inSessionMap \in BOOLEAN
  /\ mounted \in BOOLEAN
  /\ rd \in OpState
  /\ wr \in OpState
  /\ chunks \in 0 .. MaxChunks

\* receiveTcpFromWifiCilentMessage is called from three places and
\* sendTcpToWifiClientMessage from two; never while an operation of the same
\* kind is outstanding, so the one read buffer and the byte order of the
\* stream are safe.
NoOverlap == rd # "overlap" /\ wr # "overlap"

\* No wake-up is lost: while the session is open, either a read is under way
\* or trafficBusy_ is set and the backlog is still at or above the low-water
\* mark, so that an ack that brings it below is yet to come (and inputToKcp
\* will restart the read).
ReadingOrBackedUp ==
  inSessionMap /\ ~ sessionClose_ =>
    \/ ~ trafficBusy_ /\ rd # "none"
    \/ trafficBusy_ /\ rd = "none" /\ ikcp_waitsnd(kcp_) >= LowWater

\* The back-pressure bounds what one session queues in KCP: the mark, less
\* one, plus the segments of the single read that was under way.
BacklogBounded == ikcp_waitsnd(kcp_) <= HighWater - 1 + MaxFrags

\* An outstanding or just finished write owns the head of the deque, in an
\* open session nothing waits in the deque without a write to drain it, and
\* so the handler's pop_front never meets an empty deque.
WriteOwnsHead ==
  /\ wr # "none" => tcpDataWaitForSendDeque_ # << >>
  /\ ~ sessionClose_ /\ wr = "none" => tcpDataWaitForSendDeque_ = << >>

\* Once closed, a session never moves another byte on its TCP socket and
\* never comes back, although handlers queued before the close still run:
\* they may start operations, which fail at once.
ClosedIsFinal ==
  [][sessionClose_ => sessionClose_' /\ UNCHANGED <<chunks, clientGot>>]_vars

\* closeSession calls removeTask exactly when the session is linked into the
\* time wheel: an unlinked task has a null ahead_, which removeTask follows.
MountedUntilClosed == mounted <=> inSessionMap /\ ~ sessionClose_
=============================================================================
