----------------------------- MODULE UdpEgress -----------------------------
(***************************************************************************)
(* The send side of a worker, the same in both programs: all the sessions  *)
(* of the worker offer their datagrams to one queue in front of one UDP    *)
(* socket, the datagram at its front being the one that async_send is at.  *)
(***************************************************************************)
EXTENDS Integers, Sequences

CONSTANTS
  Datagram,     \* what the sessions send; offered again and again
  Limit,        \* the queue's limit (2048)
  SendFails     \* may async_send fail? (an ICMP error, a full buffer)

ASSUME UdpEgressAssumption == Limit \in Nat /\ SendFails \in BOOLEAN

VARIABLES
  udpSocketWaitForSendDeque_,
  op,         \* async_send: "none", outstanding ("pending"), finished and its
              \* handler queued ("ok", "err"), two at once ("overlap")
  stalled     \* history: a send failed while other datagrams waited

vars == <<udpSocketWaitForSendDeque_, op, stalled>>
queue == udpSocketWaitForSendDeque_

Init ==
  /\ udpSocketWaitForSendDeque_ = <<>>
  /\ op = "none"
  /\ stalled = FALSE
-----------------------------------------------------------------------------
\* sendUdpMessageToRemoteServer, called while the last send is as o says.
sendUdpMessageToRemoteServer(o) == IF o = "none" THEN "pending" ELSE "overlap"

\* The back-pressure test ...
IsFull == Len(queue) > Limit

\* Defect: the oldest datagram makes room.
Drops_Oldest(d) ==
  /\ IsFull
  /\ udpSocketWaitForSendDeque_' = Append(Tail(queue), d)
  /\ UNCHANGED <<op, stalled>>

\* ... by which d is dropped.
Drops(d) == IsFull /\ UNCHANGED vars

\* Defect: a send is started for every datagram.
Enqueues_AlwaysSends(d) ==
  /\ ~ IsFull
  /\ udpSocketWaitForSendDeque_' = Append(queue, d)
  /\ op' = sendUdpMessageToRemoteServer(op)
  /\ UNCHANGED stalled

Enqueues(d) ==
  /\ ~ IsFull
  /\ udpSocketWaitForSendDeque_' = Append(queue, d)
  /\ op' = IF queue = <<>> THEN sendUdpMessageToRemoteServer(op) ELSE op
  /\ UNCHANGED stalled

tryTosendUdpMessageToRemoteServer(d) == Drops(d) \/ Enqueues(d)

\* The kernel takes the datagram, or refuses it.
sendCompletes ==
  /\ op = "pending"
  /\ op' \in {"ok"} \cup (IF SendFails THEN {"err"} ELSE {})
  /\ UNCHANGED <<udpSocketWaitForSendDeque_, stalled>>

\* Defect: the next datagram is sent only if two more wait.
handleSent_NeedsTwo ==
  /\ op = "ok"
  /\ udpSocketWaitForSendDeque_' = Tail(queue)
  /\ op' = IF Len(Tail(queue)) < 2
             THEN "none" ELSE sendUdpMessageToRemoteServer("none")
  /\ UNCHANGED stalled

\* The handler after a success: on to the next datagram, if there is one.
handleSent ==
  /\ op = "ok"
  /\ udpSocketWaitForSendDeque_' = Tail(queue)
  /\ op' = IF Tail(queue) = <<>>
             THEN "none" ELSE sendUdpMessageToRemoteServer("none")
  /\ UNCHANGED stalled

\* The handler after an error: it returns.
handleError ==
  /\ op = "err"
  /\ udpSocketWaitForSendDeque_' = Tail(queue)
  /\ op' = "none"
  /\ stalled' = (Tail(queue) # <<>>)

Next ==
  \/ \E d \in Datagram : tryTosendUdpMessageToRemoteServer(d)
  \/ sendCompletes \/ handleSent \/ handleError

Spec == Init /\ [][Next]_vars

\* Sends finish and their handlers run.  Nothing is owed to a session: each
\* time it offers a datagram the queue may be full.
FairSpec == Spec /\ WF_vars(sendCompletes \/ handleSent \/ handleError)
-----------------------------------------------------------------------------
TypeOK ==
  /\ udpSocketWaitForSendDeque_ \in Seq(Datagram)
  /\ op \in {"none", "pending", "ok", "err", "overlap"}
  /\ stalled \in BOOLEAN

\* "One socket must not be written twice at the same time" (worker.cpp:74 of
\* the home program): sends are started from two places, by whether the queue
\* is empty, and never overlap.  A waiting datagram is being sent, unless an
\* error came while others waited; then no offer, however late, ever starts a
\* send again.
OneSend ==
  /\ op # "overlap"
  /\ op # "none" <=> (queue # <<>> /\ ~ stalled)

\* async_send reads the front's buffer until it finishes: what the sessions
\* offer meanwhile, to a full queue too, leaves the front where it is.
BufferHeld == [][op = "pending" => Head(queue') = Head(queue)]_vars

\* Whatever is offered meanwhile, and whenever, a datagram that the queue took
\* is given to the socket, unless an error stalls the queue first: the handler
\* and the offers never both leave the next send to the other.  What becomes
\* of a datagram that the queue drops is not said: a session whose offers meet
\* a full queue each time sends nothing.
Waits(d) == \E i \in 1 .. Len(queue) : queue[i] = d
Given(d) == op # "none" /\ queue # <<>> /\ Head(queue) = d
AcceptedIsSent == \A d \in Datagram : Waits(d) ~> (Given(d) \/ stalled)
=============================================================================
