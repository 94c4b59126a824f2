------------------------- MODULE HomeSessionProofs -------------------------
(***************************************************************************)
(* The home session, for every mark, every size of message, every number   *)
(* of chunks and every peer: it never has two operations of a kind under   *)
(* way, it never stops reading for ever, it bounds the backlog, it writes  *)
(* whatever waits in its deque, and a close is final.                      *)
(***************************************************************************)
EXTENDS HomeSession, KcpProofs

\* Before start, a session has nothing; start is the only step that puts it
\* into the map.
Started ==
  /\ inSessionMap <=> currentCmdStatus_ = "normal"
  /\ ~ inSessionMap =>
       /\ ~ sessionClose_ /\ ~ trafficBusy_
       /\ rd = "none" /\ wr = "none"
       /\ ikcp_waitsnd(kcp_) = 0

\* A read that may bring data is only under way below the mark.
ReadBelowMark ==
  rd \in {"pending", "ok"} => ikcp_waitsnd(kcp_) <= HighWater - 1

\* A closed socket holds no operation of ours.
ClosedHoldsNothing ==
  sessionClose_ => rd # "pending" /\ wr # "pending"

\* The inductive invariant: ReadingOrBackedUp says that a congested session
\* has no read, so the read inputToKcp starts is the only one; ReadBelowMark
\* bounds what the next message is added to; WriteOwnsHead says that an empty
\* deque has no write, so the write its first chunk starts is the only one.
FlowInv ==
  /\ TypeOK
  /\ Started
  /\ NoOverlap
  /\ ReadingOrBackedUp
  /\ WriteOwnsHead
  /\ ReadBelowMark
  /\ BacklogBounded
  /\ MountedUntilClosed
  /\ ClosedHoldsNothing

\* The marks: reading resumes below the mark that stops it.
LEMMA Marks ==
  /\ HighWater \in Nat /\ HighWater > 1 /\ MaxFrags \in Nat \ {0}
  /\ MaxChunks \in Nat /\ PeerDatagram \subseteq KcpDatagram
  /\ LowWater \in Nat /\ 0 < LowWater /\ LowWater < HighWater
BY HomeSessionAssumption DEF HomeSessionAssumption, LowWater

\* Every operation that is started or cancelled has a state.
LEMMA OpTypes ==
  /\ \A op \in OpState : StartOp(op) \in OpState /\ Cancel(op) \in OpState
  /\ StartOp("none") = IF sessionClose_ THEN "err" ELSE "pending"
BY DEF StartOp, Cancel, OpState

LEMMA FlowInit == Init => FlowInv
<1> SUFFICES ASSUME Init PROVE FlowInv
  OBVIOUS
<1>1. IsBlock(kcp_) /\ ikcp_waitsnd(kcp_) = 0
  BY CreateBlock DEF Init
<1>2. TypeOK
  <2>1. chunks \in 0 .. MaxChunks /\ tcpDataWaitForSendDeque_ \in Seq(Nat)
    BY Marks DEF Init
  <2> QED
    BY <1>1, <2>1 DEF Init, TypeOK, OpState
<1>3. BacklogBounded /\ ReadBelowMark
  BY <1>1, Marks DEF Init, BacklogBounded, ReadBelowMark
<1> QED
  BY <1>1, <1>2, <1>3
     DEF Init, FlowInv, Started, ReadingOrBackedUp, MountedUntilClosed,
         ClosedHoldsNothing, NoOverlap, WriteOwnsHead

\* start queues one segment in an empty block and starts the first read.
LEMMA FlowStart == FlowInv /\ start => FlowInv'
<1> SUFFICES ASSUME FlowInv, start PROVE FlowInv'
  OBVIOUS
<1> DEFINE k == ikcp_send(kcp_, NewSession, 1)
<1>1. IsBlock(kcp_) /\ ikcp_waitsnd(kcp_) = 0
  BY DEF FlowInv, TypeOK, Started, start
<1>2. NewSession \in Message
  BY DEF NewSession, Message
<1>3. IsBlock(k) /\ ikcp_waitsnd(k) = 1
  BY <1>1, <1>2, SendBlock
<1>4. kcp_' = ikcp_flush(k)
  BY DEF start, FlushKcp
<1> HIDE DEF k
<1>5. IsBlock(kcp_') /\ ikcp_waitsnd(kcp_') = 1
  BY <1>3, <1>4, FlushBlock DEF ikcp_waitsnd
<1>6. /\ ~ sessionClose_ /\ ~ trafficBusy_ /\ rd = "none" /\ wr = "none"
      /\ rd' = "pending" /\ currentCmdStatus_' = "normal"
      /\ inSessionMap' = TRUE /\ mounted' = TRUE
      /\ UNCHANGED <<sessionClose_, trafficBusy_, wr, chunks,
                     tcpDataWaitForSendDeque_>>
  BY DEF FlowInv, Started, start, StartOp
<1> QED
  BY <1>5, <1>6, Marks
     DEF FlowInv, TypeOK, Started, ReadingOrBackedUp, ReadBelowMark,
         BacklogBounded, MountedUntilClosed, ClosedHoldsNothing,
         NoOverlap, WriteOwnsHead, OpState

\* The socket completes an operation: nothing but its state changes.
LEMMA FlowRead == FlowInv /\ readCompletes => FlowInv'
<1> SUFFICES ASSUME FlowInv, readCompletes PROVE FlowInv'
  OBVIOUS
<1>1. /\ rd = "pending" /\ rd' \in {"ok", "err"}
      /\ chunks' \in 0 .. MaxChunks
      /\ UNCHANGED <<kcp_, sessionClose_, trafficBusy_, currentCmdStatus_,
                     tcpDataWaitForSendDeque_, inSessionMap, mounted, wr>>
  BY Marks DEF FlowInv, TypeOK, readCompletes, ReadFails
<1> QED
  BY <1>1
     DEF FlowInv, TypeOK, Started, ReadingOrBackedUp, ReadBelowMark,
         BacklogBounded, MountedUntilClosed, ClosedHoldsNothing,
         NoOverlap, WriteOwnsHead, OpState,
         ikcp_waitsnd

LEMMA FlowWrite == FlowInv /\ writeCompletes => FlowInv'
<1> SUFFICES ASSUME FlowInv, writeCompletes PROVE FlowInv'
  OBVIOUS
<1>1. /\ wr = "pending" /\ wr' \in {"ok", "err"}
      /\ UNCHANGED <<kcp_, sessionClose_, trafficBusy_, currentCmdStatus_,
                     tcpDataWaitForSendDeque_, inSessionMap, mounted, rd,
                     chunks>>
  BY DEF writeCompletes
<1> QED
  BY <1>1
     DEF FlowInv, TypeOK, Started, ReadingOrBackedUp, ReadBelowMark,
         BacklogBounded, MountedUntilClosed, ClosedHoldsNothing,
         NoOverlap, WriteOwnsHead, OpState,
         ikcp_waitsnd

\* closeSession, from the handler of a read (which leaves rd idle) or of a
\* write (which leaves wr idle).
LEMMA FlowClose ==
  ASSUME FlowInv, NEW r \in {"none", rd}, NEW w \in {"none", wr},
         inSessionMap, closeSession(r, w),
         UNCHANGED <<kcp_, trafficBusy_, currentCmdStatus_, inSessionMap,
                     chunks>>,
         tcpDataWaitForSendDeque_' \in Seq(Nat),
         w = "none" \/ UNCHANGED tcpDataWaitForSendDeque_
  PROVE  FlowInv'
<1>1. sessionClose_' = TRUE /\ mounted' = FALSE
  BY DEF closeSession, FlowInv, MountedUntilClosed
<1>2. /\ r \in OpState /\ w \in OpState /\ r # "overlap" /\ w # "overlap"
      /\ r = "ok" => rd = "ok"
      /\ w # "none" => /\ tcpDataWaitForSendDeque_ # << >>
                       /\ UNCHANGED tcpDataWaitForSendDeque_
  BY DEF FlowInv, TypeOK, OpState, NoOverlap, WriteOwnsHead
<1>3. /\ rd' \in OpState /\ rd' # "overlap" /\ rd' # "pending"
      /\ wr' \in OpState /\ wr' # "overlap" /\ wr' # "pending"
      /\ rd' = "ok" => rd = "ok"
      /\ wr' # "none" => w # "none"
  <2>1. CASE sessionClose_
    <3>1. r # "pending" /\ w # "pending" /\ rd' = r /\ wr' = w
      BY <2>1 DEF FlowInv, ClosedHoldsNothing, closeSession
    <3> QED
      BY <1>2, <3>1
  <2>2. CASE ~ sessionClose_
    <3>1. rd' = Cancel(r) /\ wr' = Cancel(w)
      BY <2>2 DEF closeSession
    <3> QED
      BY <1>2, <3>1 DEF Cancel, OpState
  <2> QED
    BY <2>1, <2>2
<1>4. wr' # "none" => tcpDataWaitForSendDeque_' # << >>
  BY <1>2, <1>3
<1> QED
  BY <1>1, <1>3, <1>4
     DEF FlowInv, TypeOK, Started, ReadingOrBackedUp, ReadBelowMark,
         BacklogBounded, MountedUntilClosed, ClosedHoldsNothing,
         NoOverlap, WriteOwnsHead, ikcp_waitsnd

\* The handler of a read: close, or queue one message and look at the mark.
LEMMA FlowReceive == FlowInv /\ receiveTcpFromWifiCilentMessage => FlowInv'
<1> SUFFICES ASSUME FlowInv, receiveTcpFromWifiCilentMessage PROVE FlowInv'
  OBVIOUS
<1>0. inSessionMap
  BY DEF FlowInv, Started, receiveTcpFromWifiCilentMessage
<1>1. CASE rd = "err"
  <2>1. /\ closeSession("none", wr)
        /\ UNCHANGED <<kcp_, trafficBusy_, currentCmdStatus_, inSessionMap,
                       chunks, tcpDataWaitForSendDeque_>>
        /\ tcpDataWaitForSendDeque_' \in Seq(Nat)
    BY <1>1 DEF receiveTcpFromWifiCilentMessage, FlowInv, TypeOK
  <2> QED
    BY <1>0, <2>1, FlowClose
<1>2. CASE rd = "ok"
  <2>1. PICK n \in 1 .. MaxFrags :
          LET k == ikcp_send(kcp_, Normal(chunks), n)
          IN  FlushKcp(k) /\ checkTrafficStatus(k)
    BY <1>2 DEF receiveTcpFromWifiCilentMessage
  <2>2. UNCHANGED <<sessionClose_, currentCmdStatus_, inSessionMap, mounted,
                    wr, chunks, tcpDataWaitForSendDeque_>>
    BY <1>2 DEF receiveTcpFromWifiCilentMessage
  <2> DEFINE k == ikcp_send(kcp_, Normal(chunks), n)
  <2>3. /\ IsBlock(kcp_) /\ ikcp_waitsnd(kcp_) \in Nat
        /\ ikcp_waitsnd(kcp_) <= HighWater - 1
    BY <1>2, WaitsndType DEF FlowInv, TypeOK, ReadBelowMark
  <2>4. Normal(chunks) \in Message /\ n \in Nat /\ n <= MaxFrags
    BY Marks DEF FlowInv, TypeOK, Normal, Message
  <2>5. IsBlock(k) /\ ikcp_waitsnd(k) = ikcp_waitsnd(kcp_) + n
    BY <2>3, <2>4, SendBlock
  <2>6. kcp_' = ikcp_flush(k) /\ checkTrafficStatus(k)
    BY <2>1 DEF FlushKcp
  <2> HIDE DEF k
  <2>7. IsBlock(kcp_') /\ ikcp_waitsnd(kcp_') = ikcp_waitsnd(k)
    BY <2>5, <2>6, FlushBlock DEF ikcp_waitsnd
  <2>8. ikcp_waitsnd(kcp_') \in Nat
        /\ ikcp_waitsnd(kcp_') <= HighWater - 1 + MaxFrags
    BY <2>3, <2>4, <2>5, <2>7, Marks
  <2>9. CASE ikcp_waitsnd(k) >= HighWater
    <3>1. rd' = "none" /\ trafficBusy_' = TRUE
      BY <2>6, <2>9 DEF checkTrafficStatus
    <3>2. ikcp_waitsnd(kcp_') >= LowWater
      BY <2>7, <2>8, <2>9, Marks
    <3> QED
      BY <1>0, <2>2, <2>7, <2>8, <3>1, <3>2
         DEF FlowInv, TypeOK, Started, ReadingOrBackedUp, ReadBelowMark,
             BacklogBounded, MountedUntilClosed, ClosedHoldsNothing,
             NoOverlap, WriteOwnsHead, OpState
  <2>10. CASE ~ (ikcp_waitsnd(k) >= HighWater)
    <3>1. /\ rd' = IF sessionClose_ THEN "err" ELSE "pending"
          /\ UNCHANGED trafficBusy_
      BY <2>6, <2>10, OpTypes DEF checkTrafficStatus
    <3>2. ikcp_waitsnd(kcp_') <= HighWater - 1
      BY <2>7, <2>8, <2>10, Marks
    <3> QED
      BY <1>0, <1>2, <2>2, <2>7, <2>8, <3>1, <3>2
         DEF FlowInv, TypeOK, Started, ReadingOrBackedUp, ReadBelowMark,
             BacklogBounded, MountedUntilClosed, ClosedHoldsNothing,
             NoOverlap, WriteOwnsHead, OpState
  <2> QED
    BY <2>9, <2>10
<1> QED
  BY <1>1, <1>2 DEF receiveTcpFromWifiCilentMessage

\* The handler of a write: it may close, or start the next write.
LEMMA FlowSend == FlowInv /\ sendTcpToWifiClientMessage => FlowInv'
<1> SUFFICES ASSUME FlowInv, sendTcpToWifiClientMessage PROVE FlowInv'
  OBVIOUS
<1>0. inSessionMap /\ wr \in {"ok", "err"}
  BY DEF FlowInv, Started, sendTcpToWifiClientMessage
<1>1. UNCHANGED <<kcp_, trafficBusy_, currentCmdStatus_, inSessionMap, chunks>>
  BY DEF sendTcpToWifiClientMessage
<1>a. AfterWrite \in Seq(Nat) /\ tcpDataWaitForSendDeque_' = AfterWrite
  BY <1>0 DEF FlowInv, TypeOK, WriteOwnsHead, AfterWrite,
              sendTcpToWifiClientMessage
<1>2. CASE wr = "err"
  <2>1. closeSession(rd, "none")
    BY <1>2 DEF sendTcpToWifiClientMessage
  <2> QED
    BY <1>0, <1>1, <1>a, <2>1, FlowClose
<1>3. CASE wr = "ok"
  <2>1. /\ wr' = IF AfterWrite = << >> THEN "none" ELSE StartOp("none")
        /\ UNCHANGED <<sessionClose_, mounted, rd>>
    BY <1>3 DEF sendTcpToWifiClientMessage, NextWrite
  <2>2. /\ wr' \in OpState /\ wr' # "overlap"
        /\ sessionClose_ => wr' # "pending"
        /\ wr' = "none" <=> tcpDataWaitForSendDeque_' = << >>
    BY <1>a, <2>1, OpTypes DEF OpState
  <2>3. UNCHANGED <<kcp_, sessionClose_, trafficBusy_, currentCmdStatus_,
                    inSessionMap, mounted, rd, chunks>>
    BY <1>1, <2>1
  <2> QED
    BY <1>0, <1>a, <2>2, <2>3
       DEF FlowInv, TypeOK, Started, ReadingOrBackedUp, ReadBelowMark,
           BacklogBounded, MountedUntilClosed, ClosedHoldsNothing,
           NoOverlap, WriteOwnsHead,
           ikcp_waitsnd
<1> QED
  BY <1>0, <1>2, <1>3

\* The timer flushes; the backlog stays as it is.
LEMMA FlowTimer == FlowInv /\ driveSessionTimeClock => FlowInv'
<1> SUFFICES ASSUME FlowInv, driveSessionTimeClock PROVE FlowInv'
  OBVIOUS
<1>1. IsBlock(kcp_') /\ kcp_'.snd = kcp_.snd
  BY FlushBlock DEF FlowInv, TypeOK, driveSessionTimeClock, FlushKcp
<1>2. ikcp_waitsnd(kcp_') = ikcp_waitsnd(kcp_)
  BY <1>1 DEF ikcp_waitsnd
<1>3. UNCHANGED <<sessionClose_, trafficBusy_, currentCmdStatus_,
                  inSessionMap, mounted, rd, wr, chunks,
                  tcpDataWaitForSendDeque_>>
  BY DEF driveSessionTimeClock
<1> QED
  BY <1>1, <1>2, <1>3
     DEF FlowInv, TypeOK, Started, ReadingOrBackedUp, ReadBelowMark,
         BacklogBounded, MountedUntilClosed, ClosedHoldsNothing,
         NoOverlap, WriteOwnsHead

\* A datagram may only shorten the backlog; when it falls below the low-water
\* mark in a congested session, there is no read and one is started.
LEMMA FlowInput ==
  ASSUME FlowInv, NEW d \in PeerDatagram, inputToKcp(d)
  PROVE  FlowInv'
<1>1. /\ inSessionMap
      /\ UNCHANGED <<sessionClose_, currentCmdStatus_, inSessionMap, mounted,
                     chunks>>
  BY DEF inputToKcp
<1>2. CASE UNCHANGED <<kcp_, tcpDataWaitForSendDeque_, wr, trafficBusy_, rd>>
  BY <1>1, <1>2
     DEF FlowInv, TypeOK, Started, ReadingOrBackedUp, ReadBelowMark,
         BacklogBounded, MountedUntilClosed, ClosedHoldsNothing,
         NoOverlap, WriteOwnsHead, ikcp_waitsnd
<1>3. ASSUME ~ sessionClose_, tryToReadFromKcp(ikcp_input(kcp_, d)),
             IF CongestionEnds(ikcp_input(kcp_, d))
               THEN trafficBusy_' = FALSE /\ rd' = StartOp(rd)
               ELSE UNCHANGED <<trafficBusy_, rd>>
      PROVE  FlowInv'
  <2> DEFINE k == ikcp_input(kcp_, d)
  <2>1. /\ IsBlock(k) /\ ikcp_waitsnd(k) \in Nat
        /\ ikcp_waitsnd(kcp_) \in Nat
        /\ ikcp_waitsnd(k) <= ikcp_waitsnd(kcp_)
    BY Marks, InputBlock, WaitsndType DEF FlowInv, TypeOK
  <2>2. kcp_' = ikcp_recvAll(k)
    BY <1>3 DEF tryToReadFromKcp
  <2>3. CongestionEnds(k) => trafficBusy_' = FALSE /\ rd' = StartOp(rd)
    BY <1>3
  <2>4. ~ CongestionEnds(k) => UNCHANGED <<trafficBusy_, rd>>
    BY <1>3
  <2> HIDE DEF k
  <2>5. IsBlock(kcp_') /\ ikcp_waitsnd(kcp_') = ikcp_waitsnd(k)
    BY <2>1, <2>2, RecvBlock DEF ikcp_waitsnd
  <2>6. /\ tcpDataWaitForSendDeque_' \in Seq(Nat)
        /\ wr' \in OpState /\ NoOverlap' = (rd' # "overlap")
        /\ WriteOwnsHead'
    <3> DEFINE q == k.rcvQueue
               data == DataAt(q, EndsOf(q, "normal"))
    <3>1. q \in Seq(Segment)
      BY <2>1 DEF IsBlock
    <3>2. EndsOf(q, "normal") \in SUBSET (1 .. Len(q))
      BY DEF EndsOf, MessageEnds
    <3> HIDE DEF q
    <3>3. data \in Seq(Nat)
      BY <3>1, <3>2, DataAtType
    <3>4. /\ tcpDataWaitForSendDeque_' = tcpDataWaitForSendDeque_ \o data
          /\ wr' = IF tcpDataWaitForSendDeque_ = << >> /\ data # << >>
                     THEN StartOp(wr) ELSE wr
      BY <1>3 DEF tryToReadFromKcp, q, k
    <3> HIDE DEF data
    <3>5. /\ tcpDataWaitForSendDeque_ \in Seq(Nat) /\ wr \in OpState
          /\ wr # "overlap"
          /\ wr = "none" <=> tcpDataWaitForSendDeque_ = << >>
      BY <1>3 DEF FlowInv, TypeOK, NoOverlap, WriteOwnsHead
    <3>6. /\ tcpDataWaitForSendDeque_ \o data \in Seq(Nat)
          /\ tcpDataWaitForSendDeque_ \o data = << >>
               <=> tcpDataWaitForSendDeque_ = << >> /\ data = << >>
      BY <3>3, <3>5, ConcatProperties, ConcatEmptySeq
    <3>7. wr' \in OpState /\ wr' # "overlap"
          /\ (wr' = "none" <=> tcpDataWaitForSendDeque_' = << >>)
      BY <1>3, <3>4, <3>5, <3>6 DEF StartOp, OpState
    <3> QED
      BY <3>4, <3>6, <3>7 DEF NoOverlap, WriteOwnsHead
  <2>7. CASE CongestionEnds(k)
    <3>1. trafficBusy_ /\ ikcp_waitsnd(k) < LowWater
      BY <2>7 DEF CongestionEnds
    <3>2. rd = "none"
      BY <1>1, <1>3, <3>1 DEF FlowInv, ReadingOrBackedUp
    <3>3. rd' = "pending" /\ trafficBusy_' = FALSE
      BY <1>3, <2>3, <2>7, <3>2 DEF StartOp
    <3>4. ikcp_waitsnd(kcp_') <= HighWater - 1
      BY <2>1, <2>5, <3>1, Marks
    <3>5. ikcp_waitsnd(kcp_') <= HighWater - 1 + MaxFrags
      BY <2>1, <2>5, <3>4, Marks
    <3> QED
      BY <1>1, <1>3, <2>5, <2>6, <3>3, <3>4, <3>5
         DEF FlowInv, TypeOK, Started, ReadingOrBackedUp, ReadBelowMark,
             BacklogBounded, MountedUntilClosed, ClosedHoldsNothing,
             NoOverlap, WriteOwnsHead, OpState
  <2>8. CASE ~ CongestionEnds(k)
    <3>1. UNCHANGED <<trafficBusy_, rd>>
      BY <2>4, <2>8
    <3>2. trafficBusy_ => ikcp_waitsnd(kcp_') >= LowWater
      BY <2>1, <2>5, <2>8, Marks DEF CongestionEnds
    <3>3. /\ ReadBelowMark'
          /\ ikcp_waitsnd(kcp_') <= HighWater - 1 + MaxFrags
      BY <2>1, <2>5, <3>1, Marks DEF FlowInv, ReadBelowMark, BacklogBounded
    <3> QED
      BY <1>1, <1>3, <2>5, <2>6, <3>1, <3>2, <3>3
         DEF FlowInv, TypeOK, Started, ReadingOrBackedUp,
             BacklogBounded, MountedUntilClosed, ClosedHoldsNothing,
             NoOverlap, WriteOwnsHead
  <2> QED
    BY <2>7, <2>8
<1> QED
  BY <1>2, <1>3 DEF inputToKcp

\* FlowInv is inductive.
LEMMA FlowStep == FlowInv /\ [Next]_vars => FlowInv'
<1>1. ASSUME FlowInv, UNCHANGED vars PROVE FlowInv'
  BY <1>1
     DEF vars, FlowInv, TypeOK, Started, ReadingOrBackedUp, ReadBelowMark,
         BacklogBounded, MountedUntilClosed, ClosedHoldsNothing,
         NoOverlap, WriteOwnsHead, ikcp_waitsnd
<1>2. ASSUME FlowInv, NEW d \in PeerDatagram, inputToKcp(d) PROVE FlowInv'
  BY <1>2, FlowInput
<1>3. FlowInv /\ Local => FlowInv'
  BY FlowStart, FlowRead, FlowReceive, FlowWrite, FlowSend, FlowTimer
     DEF Local
<1> QED
  BY <1>1, <1>2, <1>3 DEF Next

\* Type correctness of a home session, and of the sending side of its KCP
\* block.
THEOREM HomeTypeOK == Spec => []TypeOK
<1>1. FlowInv => TypeOK
  BY DEF FlowInv
<1> QED
  BY <1>1, FlowInit, FlowStep, PTL DEF Spec

\* No wake-up of the reader is lost: an open session reads, or an ack that
\* will make inputToKcp resume the read is still outstanding.
THEOREM HomeKeepsReading == Spec => []ReadingOrBackedUp
<1>1. FlowInv => ReadingOrBackedUp
  BY DEF FlowInv
<1> QED
  BY <1>1, FlowInit, FlowStep, PTL DEF Spec

\* What one session queues in KCP is bounded by the high-water mark.
THEOREM HomeBacklog == Spec => []BacklogBounded
<1>1. FlowInv => BacklogBounded
  BY DEF FlowInv
<1> QED
  BY <1>1, FlowInit, FlowStep, PTL DEF Spec

\* The one read buffer and the byte order of the stream are safe: no read and
\* no write is started while one of its kind is outstanding.
THEOREM HomeNoOverlap == Spec => []NoOverlap
<1>1. FlowInv => NoOverlap
  BY DEF FlowInv
<1> QED
  BY <1>1, FlowInit, FlowStep, PTL DEF Spec

\* A write owns the head of the deque, so pop_front never meets an empty one,
\* and in an open session nothing waits without a write to drain it.
THEOREM HomeWriteOwnsHead == Spec => []WriteOwnsHead
<1>1. FlowInv => WriteOwnsHead
  BY DEF FlowInv
<1> QED
  BY <1>1, FlowInit, FlowStep, PTL DEF Spec

\* A session is linked into the time wheel exactly from start to close, so
\* closeSession's removeTask always finds it there.
THEOREM HomeMounted == Spec => []MountedUntilClosed
<1>1. FlowInv => MountedUntilClosed
  BY DEF FlowInv
<1> QED
  BY <1>1, FlowInit, FlowStep, PTL DEF Spec

\* A close is final: no byte moves on the client's socket after it, whatever
\* handlers were queued before it.
THEOREM HomeCloseFinal == Spec => ClosedIsFinal
<1>1. FlowInv /\ [Next]_vars =>
        [sessionClose_ => /\ sessionClose_'
                          /\ UNCHANGED <<chunks, clientGot>>]_vars
  <2> SUFFICES ASSUME FlowInv, Next, sessionClose_
               PROVE  sessionClose_' /\ UNCHANGED <<chunks, clientGot>>
    OBVIOUS
  <2>1. rd # "pending" /\ wr # "pending" /\ inSessionMap
    BY DEF FlowInv, ClosedHoldsNothing, Started
  <2>2. currentCmdStatus_ # "newSession"
    BY <2>1 DEF FlowInv, Started
  <2>3. CASE receiveTcpFromWifiCilentMessage
    BY <2>3 DEF receiveTcpFromWifiCilentMessage, closeSession
  <2>4. CASE sendTcpToWifiClientMessage
    BY <2>4 DEF sendTcpToWifiClientMessage, closeSession
  <2>5. CASE driveSessionTimeClock
    BY <2>5 DEF driveSessionTimeClock
  <2>6. ASSUME NEW d \in PeerDatagram, inputToKcp(d)
        PROVE  sessionClose_' /\ UNCHANGED <<chunks, clientGot>>
    BY <2>6 DEF inputToKcp
  <2> QED
    BY <2>1, <2>2, <2>3, <2>4, <2>5, <2>6
       DEF Next, Local, start, readCompletes, writeCompletes
<1> QED
  BY <1>1, FlowInit, FlowStep, PTL DEF Spec, ClosedIsFinal
=============================================================================
