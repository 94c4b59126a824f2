-------------------------- MODULE UdpEgressProofs --------------------------
(***************************************************************************)
(* Proofs about UdpEgress, for every limit and set of datagrams.  Type     *)
(* correctness and OneSend are inductive together once it is added that a  *)
(* stalled queue is never empty again.                                     *)
(***************************************************************************)
EXTENDS UdpEgress, TLAPS

\* The test on size()>2048 is made before the push, so the queue may get one
\* longer than the 2048 of the comment next to it (worker.cpp:75-76 of the home
\* program), but no more.
OneOverLimit == Len(queue) <= Limit + 1

EgressInv ==
  /\ TypeOK /\ OneSend /\ OneOverLimit
  /\ stalled => queue # <<>>

\* The worker starts with an empty queue and nothing sent.
LEMMA EgressInit == Init => EgressInv
<1> SUFFICES ASSUME Init
             PROVE  EgressInv
  OBVIOUS
<1>1. TypeOK /\ OneOverLimit
  <2>1. Len(<<>>) = 0 /\ 0 <= Limit + 1
    BY UdpEgressAssumption DEF UdpEgressAssumption
  <2>2. udpSocketWaitForSendDeque_ = <<>> /\ op = "none" /\ stalled \in BOOLEAN
    BY Zenon DEF Init
  <2> QED
    BY <2>1, <2>2 DEF TypeOK, OneOverLimit, queue
<1> QED
  BY <1>1, Zenon DEF Init, EgressInv, OneSend, queue

\* A step of the worker keeps the invariant.
LEMMA EgressStep == EgressInv /\ [Next]_vars => EgressInv'
<1> SUFFICES ASSUME EgressInv, [Next]_vars
             PROVE  EgressInv'
  OBVIOUS
<1> USE UdpEgressAssumption
    DEF UdpEgressAssumption, EgressInv, TypeOK, OneSend, OneOverLimit, queue
<1>1. ASSUME NEW d \in Datagram, Enqueues(d)
      PROVE  EgressInv'
  <2>1. Len(udpSocketWaitForSendDeque_') = Len(udpSocketWaitForSendDeque_) + 1
    BY <1>1 DEF Enqueues
  <2>2. udpSocketWaitForSendDeque_' # <<>>
    BY <1>1 DEF Enqueues
  <2> QED
    BY <1>1, <2>1, <2>2 DEF Enqueues, IsFull, sendUdpMessageToRemoteServer
<1>2. ASSUME NEW d \in Datagram, Drops(d)
      PROVE  EgressInv'
  BY <1>2 DEF Drops, vars
<1>3. CASE sendCompletes
  BY <1>3 DEF sendCompletes
<1>4. CASE handleSent
  <2>1. udpSocketWaitForSendDeque_ # <<>> /\ ~ stalled
    BY <1>4 DEF handleSent
  <2> QED BY <1>4, <2>1 DEF handleSent, sendUdpMessageToRemoteServer
<1>5. CASE handleError
  <2>1. udpSocketWaitForSendDeque_ # <<>>
    BY <1>5 DEF handleError
  <2>2. CASE Tail(queue) = <<>>
    <3>1. stalled' = FALSE
      BY <1>5, <2>2 DEF handleError
    <3> QED BY <1>5, <2>1, <2>2, <3>1 DEF handleError
  <2>3. CASE Tail(queue) # <<>>
    <3>1. stalled' = TRUE
      BY <1>5, <2>3 DEF handleError
    <3> QED BY <1>5, <2>1, <2>3, <3>1 DEF handleError
  <2> QED BY <2>2, <2>3
<1>6. CASE UNCHANGED vars
  BY <1>6 DEF vars
<1> QED
  BY <1>1, <1>2, <1>3, <1>4, <1>5, <1>6
  DEF Next, tryTosendUdpMessageToRemoteServer

\* The invariant holds in every behaviour.
THEOREM EgressInvariant == Spec => []EgressInv
BY EgressInit, EgressStep, PTL DEF Spec

\* The queue's memory is bounded, by one datagram more than the comment says.
THEOREM EgressBounded == Spec => [](TypeOK /\ OneOverLimit)
BY EgressInvariant, PTL DEF EgressInv

\* The two places that start sends never start two at once, and one is under
\* way whenever a datagram waits, unless a send failed while others waited.
THEOREM EgressOneSend == Spec => []OneSend
BY EgressInvariant, PTL DEF EgressInv

\* While a send is outstanding no offer moves the front of the queue.
LEMMA EgressFrontStep ==
  EgressInv /\ [Next]_vars =>
    [op = "pending" => Head(queue') = Head(queue)]_vars
<1> SUFFICES ASSUME EgressInv, Next, op = "pending"
             PROVE  Head(queue') = Head(queue)
  BY DEF vars, queue
<1>1. /\ udpSocketWaitForSendDeque_ \in Seq(Datagram)
      /\ udpSocketWaitForSendDeque_ # <<>>
  BY DEF EgressInv, TypeOK, OneSend, queue
<1> QED
  BY <1>1
  DEF Next, tryTosendUdpMessageToRemoteServer, Drops, Enqueues, sendCompletes,
      handleSent, handleError, vars, queue

\* async_send's buffer is the front's until it finishes.
THEOREM EgressBufferHeld == Spec => BufferHeld
BY EgressInvariant, EgressFrontStep, PTL DEF Spec, BufferHeld
=============================================================================
