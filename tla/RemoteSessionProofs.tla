------------------------ MODULE RemoteSessionProofs ------------------------
(***************************************************************************)
(* The handshake and the flow control of the remote session, for every     *)
(* mark, every size of message, every number of chunks and every peer: it  *)
(* does not touch the target before the target has accepted, from then on  *)
(* it never stops reading for ever, it bounds the backlog, and a close is  *)
(* final.                                                                  *)
(***************************************************************************)
EXTENDS RemoteSession, KcpProofs

\* Before the handshake a session has read, written and queued nothing, and
\* has had no reason to close; after it, no second handshake is under way.
Handshake ==
  /\ enableToSendToTargetServer_ <=> currentCmdStatus_ = "normal"
  /\ enableToSendToTargetServer_ => conn = "none" /\ inSessionMap
  /\ ~ enableToSendToTargetServer_ =>
       /\ ~ sessionClose_ /\ ~ trafficBusy_
       /\ rd = "none" /\ wr = "none"
       /\ ikcp_waitsnd(kcp_) = 0
       /\ chunks = 0 /\ targetGot = << >>
  /\ ~ inSessionMap => conn = "none"

\* A read that may bring data is only under way below the mark.
ReadBelowMark ==
  rd \in {"pending", "ok"} => ikcp_waitsnd(kcp_) <= HighWater - 1

\* A closed socket holds no operation of ours.
ClosedHoldsNothing ==
  sessionClose_ => rd # "pending" /\ wr # "pending"

\* No read and no write is started while one of its kind is outstanding.
OneReadOneWrite == rd # "overlap" /\ wr # "overlap"

\* The inductive invariant, as in HomeSessionProofs; Handshake takes the place
\* of what is known there before start.  WriteOwnsHead says that an empty deque
\* of a connected, open session has no write, so the write its first chunk
\* starts is the only one, and that a handler of an open session finds the
\* chunk it pops.
FlowInv ==
  /\ TypeOK
  /\ Handshake
  /\ OneReadOneWrite
  /\ ReadingOrBackedUp
  /\ WriteOwnsHead
  /\ EmptyPopOnlyAfterClose
  /\ ReadBelowMark
  /\ BacklogBounded
  /\ MountedUntilClosed
  /\ ClosedHoldsNothing

\* The marks: reading resumes below the mark that stops it.
LEMMA Marks ==
  /\ HighWater \in Nat /\ HighWater > 1 /\ MaxFrags \in Nat \ {0}
  /\ MaxChunks \in Nat /\ PeerDatagram \subseteq KcpDatagram
  /\ LowWater \in Nat /\ 0 < LowWater /\ LowWater < HighWater
BY RemoteSessionAssumption DEF RemoteSessionAssumption, LowWater

\* Every operation that is started or cancelled has a state.
LEMMA OpTypes ==
  /\ \A op \in OpState : StartOp(op) \in OpState /\ Cancel(op) \in OpState
  /\ StartOp("none") = IF sessionClose_ THEN "err" ELSE "pending"
BY DEF StartOp, Cancel, OpState

LEMMA FlowInit == Init => FlowInv
<1> SUFFICES ASSUME Init PROVE FlowInv
  OBVIOUS
<1>1. IsBlock(kcp_) /\ ikcp_waitsnd(kcp_) = 0
  BY CreateBlock DEF Init
<1>2. TypeOK
  <2>1. chunks \in 0 .. MaxChunks /\ tcpDataWaitForSendDeque_ \in Seq(Nat)
    BY Marks DEF Init
  <2> QED
    BY <1>1, <2>1 DEF Init, TypeOK, OpState
<1>3. BacklogBounded /\ ReadBelowMark
  BY <1>1, Marks DEF Init, BacklogBounded, ReadBelowMark
<1> QED
  BY <1>1, <1>2, <1>3
     DEF Init, FlowInv, Handshake, ReadingOrBackedUp, MountedUntilClosed,
         ClosedHoldsNothing,
         OneReadOneWrite, WriteOwnsHead, EmptyPopOnlyAfterClose

\* The attempt to connect ends.
LEMMA FlowConnect == FlowInv /\ connectCompletes => FlowInv'
<1> SUFFICES ASSUME FlowInv, connectCompletes PROVE FlowInv'
  OBVIOUS
<1>1. /\ conn = "pending" /\ conn' \in {"ok", "err"}
      /\ UNCHANGED <<kcp_, sessionClose_, trafficBusy_, currentCmdStatus_,
                     enableToSendToTargetServer_, inSessionMap, mounted, rd,
                     wr, emptyPop, chunks, targetGot,
                     tcpDataWaitForSendDeque_>>
  BY DEF connectCompletes
<1> QED
  BY <1>1
     DEF FlowInv, TypeOK, Handshake, ReadingOrBackedUp, ReadBelowMark,
         BacklogBounded, MountedUntilClosed, ClosedHoldsNothing,
         OneReadOneWrite, WriteOwnsHead, EmptyPopOnlyAfterClose, OpState,
         ikcp_waitsnd

\* The handler of the connect starts the first read, with an empty backlog.
LEMMA FlowHandshake == FlowInv /\ handShakeWithtargetServer => FlowInv'
<1> SUFFICES ASSUME FlowInv, handShakeWithtargetServer PROVE FlowInv'
  OBVIOUS
<1>1. /\ conn \in {"ok", "err"} /\ conn' = "none"
      /\ ~ enableToSendToTargetServer_ /\ inSessionMap
      /\ UNCHANGED <<kcp_, sessionClose_, trafficBusy_, inSessionMap, mounted,
                     emptyPop, chunks, targetGot, tcpDataWaitForSendDeque_>>
  BY DEF FlowInv, Handshake, handShakeWithtargetServer
<1>2. /\ ~ sessionClose_ /\ ~ trafficBusy_ /\ rd = "none" /\ wr = "none"
      /\ ikcp_waitsnd(kcp_) = 0
  BY <1>1 DEF FlowInv, Handshake
<1>3. CASE conn = "err"
  <2>1. UNCHANGED <<enableToSendToTargetServer_, currentCmdStatus_, rd, wr>>
    BY <1>3 DEF handShakeWithtargetServer
  <2> QED
    BY <1>1, <1>2, <2>1
       DEF FlowInv, TypeOK, Handshake, ReadingOrBackedUp, ReadBelowMark,
           BacklogBounded, MountedUntilClosed, ClosedHoldsNothing,
           OneReadOneWrite, WriteOwnsHead, EmptyPopOnlyAfterClose, OpState,
           ikcp_waitsnd
<1>4. CASE conn = "ok"
  <2>1. /\ enableToSendToTargetServer_' = TRUE
        /\ currentCmdStatus_' = "normal"
        /\ rd' = "pending"
        /\ wr' = IF tcpDataWaitForSendDeque_ = << >> THEN "none"
                                                    ELSE "pending"
    BY <1>2, <1>4 DEF handShakeWithtargetServer, StartOp
  <2>2. ikcp_waitsnd(kcp_') = 0
    BY <1>1, <1>2
  <2>3. BacklogBounded' /\ ReadBelowMark'
    BY <2>2, Marks DEF BacklogBounded, ReadBelowMark
  <2> QED
    BY <1>1, <1>2, <2>1, <2>2, <2>3
       DEF FlowInv, TypeOK, Handshake, ReadingOrBackedUp,
           MountedUntilClosed, ClosedHoldsNothing,
           OneReadOneWrite, WriteOwnsHead, EmptyPopOnlyAfterClose, OpState
<1> QED
  BY <1>1, <1>3, <1>4

\* The socket completes an operation: nothing but its state changes.
LEMMA FlowRead == FlowInv /\ readCompletes => FlowInv'
<1> SUFFICES ASSUME FlowInv, readCompletes PROVE FlowInv'
  OBVIOUS
<1>1. /\ rd = "pending" /\ rd' \in {"ok", "err"}
      /\ chunks' \in 0 .. MaxChunks
      /\ UNCHANGED <<kcp_, sessionClose_, trafficBusy_, currentCmdStatus_,
                     enableToSendToTargetServer_, conn, inSessionMap,
                     tcpDataWaitForSendDeque_, mounted, wr, emptyPop>>
  BY Marks DEF FlowInv, TypeOK, readCompletes, ReadFails
<1> QED
  BY <1>1
     DEF FlowInv, TypeOK, Handshake, ReadingOrBackedUp, ReadBelowMark,
         BacklogBounded, MountedUntilClosed, ClosedHoldsNothing,
         OneReadOneWrite, WriteOwnsHead, EmptyPopOnlyAfterClose, OpState,
         ikcp_waitsnd

LEMMA FlowWrite == FlowInv /\ writeCompletes => FlowInv'
<1> SUFFICES ASSUME FlowInv, writeCompletes PROVE FlowInv'
  OBVIOUS
<1>1. /\ wr = "pending" /\ wr' \in {"ok", "err"}
      /\ UNCHANGED <<kcp_, sessionClose_, trafficBusy_, currentCmdStatus_,
                     enableToSendToTargetServer_, conn, inSessionMap,
                     tcpDataWaitForSendDeque_, mounted, rd, chunks,
                     emptyPop>>
  BY DEF writeCompletes
<1> QED
  BY <1>1
     DEF FlowInv, TypeOK, Handshake, ReadingOrBackedUp, ReadBelowMark,
         BacklogBounded, MountedUntilClosed, ClosedHoldsNothing,
         OneReadOneWrite, WriteOwnsHead, EmptyPopOnlyAfterClose, OpState,
         ikcp_waitsnd

\* closeSession, from the handler of a read (which leaves rd idle) or of a
\* write (which leaves wr idle).
LEMMA FlowClose ==
  ASSUME FlowInv, NEW r \in {"none", rd}, NEW w \in {"none", wr},
         enableToSendToTargetServer_, closeSession(r, w),
         UNCHANGED <<kcp_, trafficBusy_, currentCmdStatus_,
                     enableToSendToTargetServer_, conn,
                       inSessionMap,
                     chunks>>,
         UNCHANGED emptyPop, tcpDataWaitForSendDeque_' \in Seq(Nat)
  PROVE  FlowInv'
<1>1. sessionClose_' = TRUE /\ mounted' = FALSE
  BY DEF closeSession, FlowInv, MountedUntilClosed
<1>2. /\ r \in OpState /\ w \in OpState /\ r # "overlap" /\ w # "overlap"
      /\ r = "ok" => rd = "ok"
  BY DEF FlowInv, TypeOK, OpState, OneReadOneWrite
<1>3. /\ rd' \in OpState /\ rd' # "overlap" /\ rd' # "pending"
      /\ wr' \in OpState /\ wr' # "overlap" /\ wr' # "pending"
      /\ rd' = "ok" => rd = "ok"
  <2>1. CASE sessionClose_
    <3>1. r # "pending" /\ w # "pending" /\ rd' = r /\ wr' = w
      BY <2>1 DEF FlowInv, ClosedHoldsNothing, closeSession
    <3> QED
      BY <1>2, <3>1
  <2>2. CASE ~ sessionClose_
    <3>1. rd' = Cancel(r) /\ wr' = Cancel(w)
      BY <2>2 DEF closeSession
    <3> QED
      BY <1>2, <3>1 DEF Cancel, OpState
  <2> QED
    BY <2>1, <2>2
<1> QED
  BY <1>1, <1>3
     DEF FlowInv, TypeOK, Handshake, ReadingOrBackedUp, ReadBelowMark,
         BacklogBounded, MountedUntilClosed, ClosedHoldsNothing,
         OneReadOneWrite, WriteOwnsHead, EmptyPopOnlyAfterClose, ikcp_waitsnd

\* The handler of a read: close, or queue one message and look at the mark.
LEMMA FlowReceive == FlowInv /\ receiveTcpFromTargetServerMessage => FlowInv'
<1> SUFFICES ASSUME FlowInv, receiveTcpFromTargetServerMessage PROVE FlowInv'
  OBVIOUS
<1>0. enableToSendToTargetServer_
  BY DEF FlowInv, Handshake, receiveTcpFromTargetServerMessage
<1>1. CASE rd = "err"
  <2>1. /\ closeSession("none", wr)
        /\ UNCHANGED <<kcp_, trafficBusy_, currentCmdStatus_,
                       enableToSendToTargetServer_, conn,
                       inSessionMap,
                       chunks, emptyPop>>
        /\ tcpDataWaitForSendDeque_' \in Seq(Nat)
    BY <1>1 DEF FlowInv, TypeOK, receiveTcpFromTargetServerMessage
  <2> QED
    BY <1>0, <2>1, FlowClose
<1>2. CASE rd = "ok"
  <2>1. PICK n \in 1 .. MaxFrags :
          LET k == ikcp_send(kcp_, Normal(chunks), n)
          IN  FlushKcp(k) /\ checkTrafficStatus(k)
    BY <1>2 DEF receiveTcpFromTargetServerMessage
  <2>2. UNCHANGED <<sessionClose_, currentCmdStatus_,
                       inSessionMap, mounted,
                    wr, chunks, enableToSendToTargetServer_, conn, emptyPop,
                    tcpDataWaitForSendDeque_>>
    BY <1>2 DEF receiveTcpFromTargetServerMessage
  <2> DEFINE k == ikcp_send(kcp_, Normal(chunks), n)
  <2>3. /\ IsBlock(kcp_) /\ ikcp_waitsnd(kcp_) \in Nat
        /\ ikcp_waitsnd(kcp_) <= HighWater - 1
    BY <1>2, WaitsndType DEF FlowInv, TypeOK, ReadBelowMark
  <2>4. Normal(chunks) \in Message /\ n \in Nat /\ n <= MaxFrags
    BY Marks DEF FlowInv, TypeOK, Normal, Message
  <2>5. IsBlock(k) /\ ikcp_waitsnd(k) = ikcp_waitsnd(kcp_) + n
    BY <2>3, <2>4, SendBlock
  <2>6. kcp_' = ikcp_flush(k) /\ checkTrafficStatus(k)
    BY <2>1 DEF FlushKcp
  <2> HIDE DEF k
  <2>7. IsBlock(kcp_') /\ ikcp_waitsnd(kcp_') = ikcp_waitsnd(k)
    BY <2>5, <2>6, FlushBlock DEF ikcp_waitsnd
  <2>8. ikcp_waitsnd(kcp_') \in Nat
        /\ ikcp_waitsnd(kcp_') <= HighWater - 1 + MaxFrags
    BY <2>3, <2>4, <2>5, <2>7, Marks
  <2>9. CASE ikcp_waitsnd(k) >= HighWater
    <3>1. rd' = "none" /\ trafficBusy_' = TRUE
      BY <2>6, <2>9 DEF checkTrafficStatus
    <3>2. ikcp_waitsnd(kcp_') >= LowWater
      BY <2>7, <2>8, <2>9, Marks
    <3> QED
      BY <1>0, <2>2, <2>7, <2>8, <3>1, <3>2
         DEF FlowInv, TypeOK, Handshake, ReadingOrBackedUp, ReadBelowMark,
             BacklogBounded, MountedUntilClosed, ClosedHoldsNothing,
             OneReadOneWrite, WriteOwnsHead, EmptyPopOnlyAfterClose, OpState
  <2>10. CASE ~ (ikcp_waitsnd(k) >= HighWater)
    <3>1. /\ rd' = IF sessionClose_ THEN "err" ELSE "pending"
          /\ UNCHANGED trafficBusy_
      BY <2>6, <2>10, OpTypes DEF checkTrafficStatus
    <3>2. ikcp_waitsnd(kcp_') <= HighWater - 1
      BY <2>7, <2>8, <2>10, Marks
    <3> QED
      BY <1>0, <1>2, <2>2, <2>7, <2>8, <3>1, <3>2
         DEF FlowInv, TypeOK, Handshake, ReadingOrBackedUp, ReadBelowMark,
             BacklogBounded, MountedUntilClosed, ClosedHoldsNothing,
             OneReadOneWrite, WriteOwnsHead, EmptyPopOnlyAfterClose, OpState
  <2> QED
    BY <2>9, <2>10
<1> QED
  BY <1>1, <1>2 DEF receiveTcpFromTargetServerMessage

\* The handler of a write: it may close, or start the next write.
LEMMA FlowSend == FlowInv /\ sendTcpToTargetServerMessage => FlowInv'
<1> SUFFICES ASSUME FlowInv, sendTcpToTargetServerMessage PROVE FlowInv'
  OBVIOUS
<1>0. enableToSendToTargetServer_ /\ wr \in {"ok", "err"}
  BY DEF FlowInv, Handshake, sendTcpToTargetServerMessage
<1>1. /\ UNCHANGED <<kcp_, trafficBusy_, currentCmdStatus_,
                     enableToSendToTargetServer_, conn, inSessionMap, chunks>>
      /\ Uncleared \in Seq(Nat)
      /\ Uncleared = << >> <=> sessionClose_
  BY <1>0 DEF FlowInv, TypeOK, WriteOwnsHead, Uncleared,
              sendTcpToTargetServerMessage
<1>2. CASE wr = "err"
  <2>1. /\ closeSession(rd, "none") /\ UNCHANGED emptyPop
        /\ tcpDataWaitForSendDeque_' = Uncleared
    BY <1>2 DEF sendTcpToTargetServerMessage
  <2> QED
    BY <1>0, <1>1, <2>1, FlowClose
<1>3. CASE wr = "ok"
  <2>1. /\ UNCHANGED <<sessionClose_, mounted, rd>>
        /\ tcpDataWaitForSendDeque_' \in Seq(Nat)
        /\ wr' \in OpState /\ wr' # "overlap"
        /\ sessionClose_ => wr' # "pending"
        /\ ~ sessionClose_ =>
             (wr' = "none" <=> tcpDataWaitForSendDeque_' = << >>)
        /\ emptyPop' \in BOOLEAN /\ (emptyPop' => sessionClose_')
    <3>1. CASE Uncleared # << >>
      <4>1. /\ UNCHANGED <<sessionClose_, mounted, rd, emptyPop>>
            /\ tcpDataWaitForSendDeque_' = Tail(Uncleared)
            /\ wr' = NextWrite(Tail(Uncleared))
        BY <1>3, <3>1 DEF sendTcpToTargetServerMessage
      <4>2. Tail(Uncleared) \in Seq(Nat)
        BY <1>1, <3>1
      <4>3. /\ wr' = IF tcpDataWaitForSendDeque_' = << >> THEN "none"
                     ELSE IF sessionClose_ THEN "err" ELSE "pending"
        BY <4>1, OpTypes DEF NextWrite
      <4> QED
        BY <1>1, <3>1, <4>1, <4>2, <4>3
           DEF FlowInv, TypeOK, EmptyPopOnlyAfterClose, OpState
    <3>2. CASE Uncleared = << >>
      <4>1. /\ emptyPop' = TRUE /\ tcpDataWaitForSendDeque_' = << >>
            /\ wr' = "none" /\ UNCHANGED <<sessionClose_, mounted, rd>>
        BY <1>3, <3>2 DEF sendTcpToTargetServerMessage
      <4> QED
        BY <1>1, <3>2, <4>1 DEF OpState
    <3> QED
      BY <3>1, <3>2
  <2>2. UNCHANGED <<kcp_, sessionClose_, trafficBusy_, currentCmdStatus_,
                    enableToSendToTargetServer_, conn,
                    inSessionMap, mounted, rd, chunks>>
    BY <1>1, <2>1
  <2> QED
    BY <1>0, <2>1, <2>2
       DEF FlowInv, TypeOK, Handshake, ReadingOrBackedUp, ReadBelowMark,
           BacklogBounded, MountedUntilClosed, ClosedHoldsNothing,
           OneReadOneWrite, WriteOwnsHead, EmptyPopOnlyAfterClose,
           ikcp_waitsnd
<1> QED
  BY <1>0, <1>2, <1>3

\* The timer flushes; the backlog stays as it is.
LEMMA FlowTimer == FlowInv /\ driveSessionTimeClock => FlowInv'
<1> SUFFICES ASSUME FlowInv, driveSessionTimeClock PROVE FlowInv'
  OBVIOUS
<1>1. IsBlock(kcp_') /\ kcp_'.snd = kcp_.snd
  BY FlushBlock DEF FlowInv, TypeOK, driveSessionTimeClock, FlushKcp
<1>2. ikcp_waitsnd(kcp_') = ikcp_waitsnd(kcp_)
  BY <1>1 DEF ikcp_waitsnd
<1>3. UNCHANGED <<sessionClose_, trafficBusy_, currentCmdStatus_,
                  enableToSendToTargetServer_, conn, inSessionMap, mounted, rd,
                  wr, chunks, emptyPop, targetGot, tcpDataWaitForSendDeque_>>
  BY DEF driveSessionTimeClock
<1> QED
  BY <1>1, <1>2, <1>3
     DEF FlowInv, TypeOK, Handshake, ReadingOrBackedUp, ReadBelowMark,
         BacklogBounded, MountedUntilClosed, ClosedHoldsNothing,
         OneReadOneWrite, WriteOwnsHead, EmptyPopOnlyAfterClose


\* What tryToReadFromKcp does to the operations: a second newSession is
\* ignored once the target is connected, and nothing is written before.
LEMMA FlowRecv ==
  ASSUME FlowInv, ~ sessionClose_, NEW k, IsBlock(k), tryToReadFromKcp(k)
  PROVE  /\ kcp_' = ikcp_recvAll(k)
         /\ tcpDataWaitForSendDeque_' \in Seq(Nat)
         /\ wr' \in OpState /\ wr' # "overlap" /\ conn' \in OpState
         /\ wr' # "none" => tcpDataWaitForSendDeque_' # << >>
         /\ enableToSendToTargetServer_ =>
              /\ conn' = "none"
              /\ wr' = "none" => tcpDataWaitForSendDeque_' = << >>
         /\ ~ enableToSendToTargetServer_ => wr' = "none"
<1> DEFINE q == k.rcvQueue
           ends == {i \in MessageEnds(q) : IsData(q[i].msg)}
           data == DataAt(q, ends)
<1>1. /\ kcp_' = ikcp_recvAll(k)
      /\ conn' \in {conn, StartOp(conn)}
      /\ enableToSendToTargetServer_ => conn' = conn
      /\ tcpDataWaitForSendDeque_' = tcpDataWaitForSendDeque_ \o data
      /\ wr' = IF BeginsWrite(data) THEN StartOp(wr) ELSE wr
  BY DEF tryToReadFromKcp, FlowInv, Handshake
<1>2. q \in Seq(Segment) /\ ends \in SUBSET (1 .. Len(q))
  BY DEF IsBlock, MessageEnds
<1> HIDE DEF q, ends
<1>3. data \in Seq(Nat)
  BY <1>2, DataAtType
<1> HIDE DEF data
<1>4. /\ tcpDataWaitForSendDeque_ \in Seq(Nat)
      /\ wr \in OpState /\ wr # "overlap"
      /\ wr # "none" => tcpDataWaitForSendDeque_ # << >>
      /\ enableToSendToTargetServer_ /\ wr = "none" =>
           tcpDataWaitForSendDeque_ = << >>
      /\ ~ enableToSendToTargetServer_ => wr = "none"
      /\ enableToSendToTargetServer_ => conn = "none"
      /\ conn \in OpState
  BY DEF FlowInv, TypeOK, OneReadOneWrite, WriteOwnsHead, Handshake
<1>5. /\ tcpDataWaitForSendDeque_ \o data \in Seq(Nat)
      /\ tcpDataWaitForSendDeque_ \o data = << >>
           <=> tcpDataWaitForSendDeque_ = << >> /\ data = << >>
  BY <1>3, <1>4, ConcatProperties, ConcatEqualIffEmpty
<1>6. conn' \in OpState
  BY <1>1, <1>4, OpTypes
<1>7. CASE BeginsWrite(data)
  <2>1. wr = "none" /\ enableToSendToTargetServer_ /\ data # << >>
    BY <1>4, <1>7 DEF BeginsWrite
  <2>2. wr' = "pending"
    BY <1>1, <1>7, <2>1 DEF StartOp
  <2> QED
    BY <1>1, <1>4, <1>5, <1>6, <2>1, <2>2 DEF OpState
<1>8. CASE ~ BeginsWrite(data)
  BY <1>1, <1>4, <1>5, <1>6, <1>8 DEF BeginsWrite
<1> QED
  BY <1>7, <1>8

\* A datagram creates the session or finds it; it may only shorten the
\* backlog; when it falls below the low-water mark in a congested session,
\* there is no read and one is started.
LEMMA FlowListen ==
  ASSUME FlowInv, NEW d \in PeerDatagram, listen(d)
  PROVE  FlowInv'
<1>1. /\ inSessionMap' = TRUE /\ mounted' = ~ sessionClose_
      /\ UNCHANGED <<sessionClose_, currentCmdStatus_,
                     enableToSendToTargetServer_, emptyPop, chunks, targetGot>>
  BY DEF listen, FlowInv, TypeOK, Handshake, MountedUntilClosed
<1>2. CASE sessionClose_
  <2>1. UNCHANGED <<kcp_, conn, tcpDataWaitForSendDeque_, wr, trafficBusy_,
                    rd>>
    BY <1>2 DEF listen
  <2> QED
    BY <1>1, <1>2, <2>1
       DEF FlowInv, TypeOK, Handshake, ReadingOrBackedUp, ReadBelowMark,
           BacklogBounded, MountedUntilClosed, ClosedHoldsNothing,
           OneReadOneWrite, WriteOwnsHead, EmptyPopOnlyAfterClose,
           ikcp_waitsnd
<1>3. CASE ~ sessionClose_
  <2> DEFINE k == ikcp_input(kcp_, d)
  <2>1. /\ IsBlock(k) /\ ikcp_waitsnd(k) \in Nat
        /\ ikcp_waitsnd(kcp_) \in Nat
        /\ ikcp_waitsnd(k) <= ikcp_waitsnd(kcp_)
    BY Marks, InputBlock, WaitsndType DEF FlowInv, TypeOK
  <2>2. /\ tryToReadFromKcp(k)
        /\ CongestionEnds(k) => trafficBusy_' = FALSE /\ rd' = StartOp(rd)
        /\ ~ CongestionEnds(k) => UNCHANGED <<trafficBusy_, rd>>
    BY <1>3 DEF listen
  <2> HIDE DEF k
  <2>3. /\ kcp_' = ikcp_recvAll(k)
        /\ tcpDataWaitForSendDeque_' \in Seq(Nat)
        /\ wr' \in OpState /\ wr' # "overlap" /\ conn' \in OpState
        /\ wr' # "none" => tcpDataWaitForSendDeque_' # << >>
        /\ enableToSendToTargetServer_ =>
             /\ conn' = "none"
             /\ wr' = "none" => tcpDataWaitForSendDeque_' = << >>
        /\ ~ enableToSendToTargetServer_ => wr' = "none"
    BY <1>3, <2>1, <2>2, FlowRecv
  <2>4. IsBlock(kcp_') /\ ikcp_waitsnd(kcp_') = ikcp_waitsnd(k)
    BY <2>1, <2>3, RecvBlock DEF ikcp_waitsnd
  <2>5. CASE CongestionEnds(k)
    <3>1. trafficBusy_ /\ ikcp_waitsnd(k) < LowWater
      BY <2>5 DEF CongestionEnds
    <3>2. enableToSendToTargetServer_ /\ rd = "none"
      BY <1>3, <3>1 DEF FlowInv, Handshake, ReadingOrBackedUp
    <3>3. rd' = "pending" /\ trafficBusy_' = FALSE
      BY <1>3, <2>2, <2>5, <3>2 DEF StartOp
    <3>4. ikcp_waitsnd(kcp_') <= HighWater - 1
      BY <2>1, <2>4, <3>1, Marks
    <3>5. ikcp_waitsnd(kcp_') <= HighWater - 1 + MaxFrags
      BY <2>1, <2>4, <3>4, Marks
    <3> QED
      BY <1>1, <1>3, <2>3, <2>4, <3>2, <3>3, <3>4, <3>5
         DEF FlowInv, TypeOK, Handshake, ReadingOrBackedUp, ReadBelowMark,
             BacklogBounded, MountedUntilClosed, ClosedHoldsNothing,
             OneReadOneWrite, WriteOwnsHead, EmptyPopOnlyAfterClose, OpState
  <2>6. CASE ~ CongestionEnds(k)
    <3>1. UNCHANGED <<trafficBusy_, rd>>
      BY <2>2, <2>6
    <3>2. trafficBusy_ => ikcp_waitsnd(kcp_') >= LowWater
      BY <2>1, <2>4, <2>6, Marks DEF CongestionEnds
    <3>3. /\ ReadBelowMark'
          /\ ikcp_waitsnd(kcp_') <= HighWater - 1 + MaxFrags
      BY <2>1, <2>4, <3>1, Marks DEF FlowInv, ReadBelowMark, BacklogBounded
    <3>4. ~ enableToSendToTargetServer_ => ikcp_waitsnd(kcp_') = 0
      BY <2>1, <2>4 DEF FlowInv, Handshake
    <3>5. TypeOK' /\ BacklogBounded' /\ MountedUntilClosed'
          /\ ClosedHoldsNothing' /\ OneReadOneWrite' /\ WriteOwnsHead'
          /\ EmptyPopOnlyAfterClose'
      BY <1>1, <1>3, <2>3, <2>4, <3>1, <3>3
         DEF FlowInv, TypeOK, BacklogBounded, MountedUntilClosed,
             ClosedHoldsNothing,
             OneReadOneWrite, WriteOwnsHead, EmptyPopOnlyAfterClose
    <3>6. Handshake' /\ ReadingOrBackedUp'
      BY <1>1, <1>3, <2>3, <3>1, <3>2, <3>4
         DEF FlowInv, Handshake, ReadingOrBackedUp
    <3> QED
      BY <3>3, <3>5, <3>6 DEF FlowInv
  <2> QED
    BY <2>5, <2>6
<1> QED
  BY <1>2, <1>3

\* FlowInv is inductive.
LEMMA FlowStep == FlowInv /\ [Next]_vars => FlowInv'
<1>1. ASSUME FlowInv, UNCHANGED vars PROVE FlowInv'
  BY <1>1
     DEF vars, FlowInv, TypeOK, Handshake, ReadingOrBackedUp, ReadBelowMark,
         BacklogBounded, MountedUntilClosed, ClosedHoldsNothing,
         OneReadOneWrite, WriteOwnsHead, EmptyPopOnlyAfterClose, ikcp_waitsnd
<1>2. ASSUME FlowInv, NEW d \in PeerDatagram, listen(d) PROVE FlowInv'
  BY <1>2, FlowListen
<1>3. FlowInv /\ Local => FlowInv'
  BY FlowConnect, FlowHandshake, FlowRead, FlowReceive, FlowWrite, FlowSend,
     FlowTimer
     DEF Local
<1> QED
  BY <1>1, <1>2, <1>3 DEF Next

\* Once a handshake is under way, newSession has been passed: it is segment 1,
\* so it neither waits for earlier segments nor ends a message that is still to
\* be read.
HandshakeOnce ==
  /\ conn # "overlap"
  /\ conn # "none" => kcp_.rcvNxt > 1
  /\ MessageEnds(kcp_.rcvQueue) = {}
  /\ \A s \in kcp_.rcvBuf : s.msg.cmd = "newSession" => s.sn = 1

\* A complete message that waits for the reader came with this datagram; when
\* it is newSession, nothing came before it.
LEMMA OnceRecv ==
  ASSUME FlowInv, HandshakeOnce, NEW d \in PeerDatagram
  PROVE  LET k == ikcp_input(kcp_, d)
         IN  /\ kcp_.rcvNxt <= k.rcvNxt
             /\ \A s \in k.rcvBuf : s.msg.cmd = "newSession" => s.sn = 1
             /\ EndsOf(k.rcvQueue, "newSession") # {} =>
                  kcp_.rcvNxt <= 1 /\ k.rcvNxt > 1
<1> DEFINE k == ikcp_input(kcp_, d)
           buf == Buffered(kcp_, d)
           nxt == FirstMissing(buf, kcp_.rcvNxt)
           new == [i \in 1 .. (nxt - kcp_.rcvNxt) |->
                     SegAt(buf, kcp_.rcvNxt + i - 1)]
<1>1. IsBlock(kcp_) /\ d \in KcpDatagram
  BY Marks DEF FlowInv, TypeOK
<1>2. CASE d.type = "ack"
  <2>1. k.rcvNxt = kcp_.rcvNxt /\ k.rcvBuf = kcp_.rcvBuf
        /\ k.rcvQueue = kcp_.rcvQueue /\ kcp_.rcvNxt \in Nat
    BY <1>1, <1>2 DEF ikcp_input, InputAck, IsBlock
  <2>2. EndsOf(k.rcvQueue, "newSession") = {}
    BY <2>1 DEF EndsOf, HandshakeOnce
  <2> QED
    BY <2>1, <2>2 DEF HandshakeOnce
<1>3. CASE d.type # "ack"
  <2>1. d.type = "push" /\ k = InputPush(kcp_, d)
    BY <1>1, <1>3 DEF KcpDatagram, ikcp_input
  <2>2. /\ kcp_.rcvNxt \in Nat /\ IsFiniteSet(buf)
        /\ kcp_.rcvQueue \in Seq(Segment)
        /\ \A s \in buf : s \in Segment
        /\ \A s \in buf : s.msg.cmd = "newSession" => s.sn = 1
    <3> DEFINE seg == [sn |-> d.sn, frg |-> d.frg, msg |-> d.msg]
    <3>1. /\ kcp_.rcvBuf \in SUBSET Segment /\ IsFiniteSet(kcp_.rcvBuf)
          /\ kcp_.rcvNxt \in Nat /\ kcp_.rcvQueue \in Seq(Segment)
      BY <1>1 DEF IsBlock
    <3>3. buf = kcp_.rcvBuf \/ buf = kcp_.rcvBuf \cup {seg}
      BY DEF Buffered
    <3>4. seg \in Segment
      BY <1>1, <2>1 DEF KcpDatagram, Segment
    <3>5. seg.msg.cmd = "newSession" => seg.sn = 1
      BY <2>1, NewSessionFirst DEF NewSessionFirst
    <3> HIDE DEF buf, seg
    <3>2. IsFiniteSet(kcp_.rcvBuf \cup {seg})
      BY <3>1, FS_AddElement
    <3> QED
      BY <3>1, <3>2, <3>3, <3>4, <3>5 DEF HandshakeOnce
  <2> HIDE DEF buf
  <2>3. /\ nxt \in Nat /\ kcp_.rcvNxt <= nxt
        /\ \A m \in kcp_.rcvNxt .. (nxt - 1) : HasSeg(buf, m)
    BY <2>2, FirstMissingType
  <2>4. /\ k.rcvNxt = nxt /\ k.rcvBuf = {s \in buf : s.sn >= nxt}
        /\ k.rcvQueue = kcp_.rcvQueue \o new
    BY <1>1, <2>1 DEF InputPush, IsBlock, buf
  <2> HIDE DEF k, nxt
  <2>5. \A i \in 1 .. (nxt - kcp_.rcvNxt) :
          SegAt(buf, kcp_.rcvNxt + i - 1) \in buf
          /\ SegAt(buf, kcp_.rcvNxt + i - 1).sn = kcp_.rcvNxt + i - 1
    <3> SUFFICES ASSUME NEW i \in 1 .. (nxt - kcp_.rcvNxt)
                 PROVE  SegAt(buf, kcp_.rcvNxt + i - 1) \in buf
                        /\ SegAt(buf, kcp_.rcvNxt + i - 1).sn
                             = kcp_.rcvNxt + i - 1
      OBVIOUS
    <3>1. HasSeg(buf, kcp_.rcvNxt + i - 1)
      BY <2>2, <2>3
    <3> QED
      BY <3>1 DEF HasSeg, SegAt
  <2>6. new \in Seq(Segment) /\ Len(new) = nxt - kcp_.rcvNxt
    BY <2>2, <2>3, <2>5
  <2>7. ASSUME NEW e \in EndsOf(k.rcvQueue, "newSession")
        PROVE  kcp_.rcvNxt <= 1 /\ nxt > 1
    <3> DEFINE q == kcp_.rcvQueue
               j == e - Len(q)
    <3> HIDE DEF new
    <3>0. Len(q \o new) = Len(q) + Len(new)
      BY <2>2, <2>6, ConcatProperties
    <3>1. /\ e \in 1 .. Len(q) + Len(new) /\ Len(q) \in Nat
          /\ (q \o new)[e].frg = 0 /\ (q \o new)[e].msg.cmd = "newSession"
      BY <2>2, <2>4, <3>0 DEF EndsOf, MessageEnds
    <3>2. (q \o new)[e] = IF e <= Len(q) THEN q[e] ELSE new[j]
      BY <2>2, <2>6, <3>1, ConcatProperties
    <3>3. ~ (e <= Len(q))
      <4> SUFFICES ASSUME e <= Len(q) PROVE FALSE
        OBVIOUS
      <4>1. e \in MessageEnds(q)
        BY <3>1, <3>2 DEF MessageEnds
      <4> QED
        BY <4>1 DEF HandshakeOnce
    <3>4. j \in 1 .. (nxt - kcp_.rcvNxt) /\ (q \o new)[e] = new[j]
      BY <2>2, <2>3, <2>6, <3>1, <3>2, <3>3
    <3>5. new[j] = SegAt(buf, kcp_.rcvNxt + j - 1)
      BY <3>4 DEF new
    <3> HIDE DEF q, j
    <3>6. kcp_.rcvNxt + j - 1 = 1
      BY <2>2, <2>5, <3>1, <3>4, <3>5
    <3> QED
      BY <2>2, <2>3, <3>4, <3>6
  <2> QED
    BY <2>2, <2>3, <2>4, <2>7 DEF k
<1> QED
  BY <1>2, <1>3

\* After ikcp_recv no complete message is left.
LEMMA OnceRead ==
  ASSUME NEW k, IsBlock(k)
  PROVE  /\ MessageEnds(ikcp_recvAll(k).rcvQueue) = {}
         /\ ikcp_recvAll(k).rcvNxt = k.rcvNxt
         /\ ikcp_recvAll(k).rcvBuf = k.rcvBuf
<1> DEFINE q == k.rcvQueue
           l == LastEnd(q)
           rest == SubSeq(q, l + 1, Len(q))
<1>1. q \in Seq(Segment) /\ Len(q) \in Nat /\ l \in 0 .. Len(q)
      /\ \A e \in MessageEnds(q) : e <= l
  BY EndsType DEF IsBlock
<1>2. ikcp_recvAll(k) = [k EXCEPT !.rcvQueue = rest]
  BY DEF ikcp_recvAll
<1>3. ASSUME NEW e \in MessageEnds(rest) PROVE FALSE
  <2>1. e \in 1 .. (Len(q) - l) /\ rest[e] = q[l + e] /\ rest[e].frg = 0
    BY <1>1 DEF MessageEnds
  <2>2. l + e \in MessageEnds(q)
    <3> HIDE DEF rest, l, q
    <3>1. l + e \in 1 .. Len(q) /\ q[l + e].frg = 0
      BY <1>1, <2>1
    <3> QED
      BY <3>1 DEF MessageEnds
  <2> QED
    <3> HIDE DEF rest, l, q
    <3> QED
      BY <1>1, <2>1, <2>2
<1> HIDE DEF rest, l, q
<1> QED
  BY <1>2, <1>3 DEF IsBlock

LEMMA OnceStep == FlowInv /\ HandshakeOnce /\ [Next]_vars => HandshakeOnce'
<1> SUFFICES ASSUME FlowInv, HandshakeOnce, [Next]_vars PROVE HandshakeOnce'
  OBVIOUS
<1>1. CASE UNCHANGED kcp_ /\ conn' \in {conn, "none", "ok", "err"}
           /\ (conn = "none" => conn' = "none")
  BY <1>1 DEF HandshakeOnce
<1>2. CASE receiveTcpFromTargetServerMessage /\ rd = "ok"
  <2>1. UNCHANGED conn /\ kcp_'.rcvNxt = kcp_.rcvNxt
        /\ kcp_'.rcvQueue = kcp_.rcvQueue /\ kcp_'.rcvBuf = kcp_.rcvBuf
    BY <1>2 DEF receiveTcpFromTargetServerMessage, FlushKcp, ikcp_send,
                ikcp_flush, FlowInv, TypeOK, IsBlock
  <2> QED
    BY <2>1 DEF HandshakeOnce
<1>3. CASE driveSessionTimeClock
  <2>1. UNCHANGED conn /\ kcp_'.rcvNxt = kcp_.rcvNxt
        /\ kcp_'.rcvQueue = kcp_.rcvQueue /\ kcp_'.rcvBuf = kcp_.rcvBuf
    BY <1>3 DEF driveSessionTimeClock, FlushKcp, ikcp_flush, FlowInv, TypeOK,
                IsBlock
  <2> QED
    BY <2>1 DEF HandshakeOnce
<1>4. ASSUME NEW d \in PeerDatagram, listen(d), ~ sessionClose_
      PROVE  HandshakeOnce'
  <2> DEFINE k == ikcp_input(kcp_, d)
             news == EndsOf(k.rcvQueue, "newSession")
  <2>1. /\ kcp_' = ikcp_recvAll(k)
        /\ conn' = IF news # {} /\ currentCmdStatus_ = "newSession"
                     THEN StartOp(conn) ELSE conn
    BY <1>4 DEF listen, tryToReadFromKcp
  <2>2. IsBlock(k) /\ IsBlock(kcp_)
    BY Marks, InputBlock DEF FlowInv, TypeOK
  <2>3. /\ kcp_.rcvNxt <= k.rcvNxt
        /\ \A s \in k.rcvBuf : s.msg.cmd = "newSession" => s.sn = 1
        /\ news # {} => kcp_.rcvNxt <= 1 /\ k.rcvNxt > 1
    BY OnceRecv
  <2> HIDE DEF k, news
  <2>4. /\ MessageEnds(kcp_'.rcvQueue) = {}
        /\ kcp_'.rcvNxt = k.rcvNxt /\ kcp_'.rcvBuf = k.rcvBuf
    BY <2>1, <2>2, OnceRead
  <2>5. kcp_.rcvNxt \in Nat /\ k.rcvNxt \in Nat
    BY <2>2 DEF IsBlock
  <2>6. conn' # "overlap" /\ (conn' # "none" => k.rcvNxt > 1)
    <3>1. CASE news = {}
      BY <2>1, <2>3, <2>5, <3>1 DEF HandshakeOnce
    <3>2. CASE news # {}
      <4>1. conn = "none" /\ k.rcvNxt > 1
        BY <2>3, <2>5, <3>2 DEF HandshakeOnce
      <4> QED
        BY <2>1, <4>1 DEF StartOp
    <3> QED
      BY <3>1, <3>2
  <2> QED
    BY <2>3, <2>4, <2>6 DEF HandshakeOnce
<1> QED
  BY <1>1, <1>2, <1>3, <1>4
     DEF Next, Local, connectCompletes, handShakeWithtargetServer,
         readCompletes, receiveTcpFromTargetServerMessage, writeCompletes,
         sendTcpToTargetServerMessage, listen, vars

LEMMA OnceInit == Init => HandshakeOnce
BY DEF Init, HandshakeOnce, ikcp_create, MessageEnds

\* Type correctness of a remote session, and of the sending side of its KCP
\* block.
THEOREM RemoteTypeOK == Spec => []TypeOK
<1>1. FlowInv => TypeOK
  BY DEF FlowInv
<1> QED
  BY <1>1, FlowInit, FlowStep, PTL DEF Spec

\* No wake-up of the reader is lost: a connected session reads, or an
\* ack that will make inputToKcp resume the read is still outstanding.
THEOREM RemoteKeepsReading == Spec => []ReadingOrBackedUp
<1>1. FlowInv => ReadingOrBackedUp
  BY DEF FlowInv
<1> QED
  BY <1>1, FlowInit, FlowStep, PTL DEF Spec

\* What one session queues in KCP is bounded by the high-water mark.
THEOREM RemoteBacklog == Spec => []BacklogBounded
<1>1. FlowInv => BacklogBounded
  BY DEF FlowInv
<1> QED
  BY <1>1, FlowInit, FlowStep, PTL DEF Spec

\* The one read buffer and the byte order of the stream are safe, and a target
\* is connected to once: no read, write or handshake is started while one of
\* its kind is outstanding, for every home session that sends newSession first.
THEOREM RemoteNoOverlap == Spec => []NoOverlap
<1>1. FlowInv /\ HandshakeOnce => NoOverlap
  BY DEF FlowInv, OneReadOneWrite, HandshakeOnce, NoOverlap
<1> QED
  BY <1>1, FlowInit, FlowStep, OnceInit, OnceStep, PTL DEF Spec

\* In an open session a write owns the head of the deque, and after the
\* handshake nothing waits in the deque without a write to drain it.
THEOREM RemoteWriteOwnsHead == Spec => []WriteOwnsHead
<1>1. FlowInv => WriteOwnsHead
  BY DEF FlowInv
<1> QED
  BY <1>1, FlowInit, FlowStep, PTL DEF Spec

\* The pop_front of an empty deque needs a close between the success of a
\* write and its handler.
THEOREM RemoteEmptyPop == Spec => []EmptyPopOnlyAfterClose
<1>1. FlowInv => EmptyPopOnlyAfterClose
  BY DEF FlowInv
<1> QED
  BY <1>1, FlowInit, FlowStep, PTL DEF Spec

\* A session is linked into the time wheel exactly from its creation to its
\* close, so closeSession's removeTask always finds it there.
THEOREM RemoteMounted == Spec => []MountedUntilClosed
<1>1. FlowInv => MountedUntilClosed
  BY DEF FlowInv
<1> QED
  BY <1>1, FlowInit, FlowStep, PTL DEF Spec

\* A close is final: no byte moves on the target's socket after it, whatever
\* handlers were queued before it.
THEOREM RemoteCloseFinal == Spec => ClosedIsFinal
<1>1. FlowInv /\ [Next]_vars =>
        [sessionClose_ => /\ sessionClose_'
                          /\ UNCHANGED <<chunks, targetGot>>]_vars
  <2> SUFFICES ASSUME FlowInv, Next, sessionClose_
               PROVE  sessionClose_' /\ UNCHANGED <<chunks, targetGot>>
    OBVIOUS
  <2>1. rd # "pending" /\ wr # "pending"
    BY DEF FlowInv, ClosedHoldsNothing
  <2>2. CASE receiveTcpFromTargetServerMessage
    BY <2>2 DEF receiveTcpFromTargetServerMessage, closeSession
  <2>3. CASE sendTcpToTargetServerMessage
    BY <2>3 DEF sendTcpToTargetServerMessage, closeSession
  <2>4. CASE connectCompletes \/ handShakeWithtargetServer
    BY <2>4 DEF connectCompletes, handShakeWithtargetServer
  <2>5. CASE driveSessionTimeClock
    BY <2>5 DEF driveSessionTimeClock
  <2>6. ASSUME NEW d \in PeerDatagram, listen(d)
        PROVE  sessionClose_' /\ UNCHANGED <<chunks, targetGot>>
    BY <2>6 DEF listen
  <2> QED
    BY <2>1, <2>2, <2>3, <2>4, <2>5, <2>6
       DEF Next, Local, readCompletes, writeCompletes
<1> QED
  BY <1>1, FlowInit, FlowStep, PTL DEF Spec, ClosedIsFinal

\* Nothing is read from the target's socket or written to it before the
\* target has accepted the connection.
THEOREM RemoteWaitsForHandshake == Spec => []NothingBeforeHandshake
<1>1. FlowInv => NothingBeforeHandshake
  BY DEF FlowInv, Handshake, NothingBeforeHandshake
<1> QED
  BY <1>1, FlowInit, FlowStep, PTL DEF Spec
=============================================================================
