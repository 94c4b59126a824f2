-------------------------------- MODULE Kcp --------------------------------
(***************************************************************************)
(* The part of the KCP library (ikcp.h, linked by both programs, not in    *)
(* the repository) that the sessions rely on, modelled from how            *)
(* server/session.cpp and remoteVps/session.cpp call it: a control block   *)
(* per session that cuts messages into numbered segments, keeps a segment  *)
(* until its ack comes back, and hands complete messages to the reader in  *)
(* the order they were sent.                                               *)
(*                                                                         *)
(* Abstractions: one segment or one ack per datagram; no send, receive or  *)
(* congestion window; a flush emits every unacknowledged segment (an early *)
(* retransmission is a duplicate, and a segment that is not due yet is a   *)
(* lost one, both of which the network produces anyway).                   *)
(***************************************************************************)
EXTENDS Selection

\* statusAndData: the 4-byte command followed by the payload of the union.
\* newSession carries the target's address, a normal message carries the
\* index of the chunk of the TCP stream it forwards.
NewSession == [cmd |-> "newSession", data |-> 0]
Normal(i)  == [cmd |-> "normal", data |-> i]
Message    == [cmd : {"newSession", "normal"}, data : Nat]
-----------------------------------------------------------------------------
\* ikcp_create: log holds every segment ever queued (index = sequence
\* number), snd the numbers not acknowledged yet, rcvBuf the segments that
\* arrived ahead of rcvNxt, rcvQueue those in order and not read yet,
\* acklist the acks that wait for the next flush.
ikcp_create ==
  [log |-> << >>, snd |-> {}, rcvNxt |-> 1, rcvBuf |-> {},
   rcvQueue |-> << >>, acklist |-> {}]

\* What arrives: a segment pushed by the other side, or its ack of one of ours.
Segment  == [sn : Nat, frg : Nat, msg : Message]
KcpDatagram ==
  [type : {"push"}, sn : Nat, frg : Nat, msg : Message]
  \cup [type : {"ack"}, sn : Nat]

\* A control block.
IsBlock(k) ==
  /\ k \in [log : Seq([frg : Nat, msg : Message]),
            snd : SUBSET (1 .. Len(k.log)), rcvNxt : Nat,
            rcvBuf : SUBSET Segment, rcvQueue : Seq(Segment),
            acklist : SUBSET Nat]
  /\ IsFiniteSet(k.rcvBuf)

\* Segments queued or in flight: what the flow control of the sessions reads.
ikcp_waitsnd(k) == Cardinality(k.snd)

\* Queues msg as n segments, numbered from the first free number; frg counts
\* down to 0, the last segment of the message.
ikcp_send(k, msg, n) ==
  [k EXCEPT !.log = @ \o [i \in 1 .. n |-> [frg |-> n - i, msg |-> msg]],
            !.snd = @ \cup (Len(k.log) + 1) .. (Len(k.log) + n)]

Push(k, sn) ==
  [type |-> "push", sn |-> sn, frg |-> k.log[sn].frg, msg |-> k.log[sn].msg]
Ack(sn) == [type |-> "ack", sn |-> sn]

\* What ikcp_flush hands to the output callback, and the block it leaves.
FlushOutput(k) ==
  {Push(k, sn) : sn \in k.snd} \cup {Ack(sn) : sn \in k.acklist}
ikcp_flush(k) == [k EXCEPT !.acklist = {}]

HasSeg(buf, sn) == \E s \in buf : s.sn = sn
SegAt(buf, sn)  == CHOOSE s \in buf : s.sn = sn

\* The first number from nxt on that buf has no segment for.
FirstMissing(buf, nxt) ==
  CHOOSE n \in nxt .. (nxt + Cardinality(buf)) :
    /\ ~ HasSeg(buf, n)
    /\ \A m \in nxt .. (n - 1) : HasSeg(buf, m)

InputAck(k, d) == [k EXCEPT !.snd = @ \ {d.sn}]

\* The segments that wait for earlier ones, once d has come: a duplicate is
\* not kept.
Buffered(k, d) ==
  IF d.sn >= k.rcvNxt /\ ~ HasSeg(k.rcvBuf, d.sn)
    THEN k.rcvBuf \cup {[sn |-> d.sn, frg |-> d.frg, msg |-> d.msg]}
    ELSE k.rcvBuf

\* A pushed segment is acknowledged even when it is a duplicate; a new one
\* moves, with those that waited behind it, to the queue of the reader.
InputPush(k, d) ==
  LET buf == Buffered(k, d)
      nxt == FirstMissing(buf, k.rcvNxt)
  IN  [k EXCEPT
         !.acklist  = @ \cup {d.sn},
         !.rcvBuf   = {s \in buf : s.sn >= nxt},
         !.rcvQueue = @ \o [i \in 1 .. (nxt - k.rcvNxt) |->
                              SegAt(buf, k.rcvNxt + i - 1)],
         !.rcvNxt   = nxt]

ikcp_input(k, d) == IF d.type = "ack" THEN InputAck(k, d) ELSE InputPush(k, d)

\* Positions in the queue where a message is complete, and of those the ones
\* where it has the command cmd.
MessageEnds(q) == {i \in 1 .. Len(q) : q[i].frg = 0}
EndsOf(q, cmd) == {i \in MessageEnds(q) : q[i].msg.cmd = cmd}

\* What the messages that end at the positions P carry, in order: a loop of
\* ikcp_peeksize and ikcp_recv takes all complete messages; the block after
\* it keeps an incomplete one in the queue.
DataAt(q, P) ==
  LET taken == SelectAt(q, P)
  IN  [j \in 1 .. Len(taken) |-> taken[j].msg.data]
LastEnd(q) ==
  IF MessageEnds(q) = {} THEN 0
  ELSE CHOOSE i \in MessageEnds(q) : \A e \in MessageEnds(q) : e <= i
ikcp_recvAll(k) ==
  [k EXCEPT !.rcvQueue = SubSeq(@, LastEnd(@) + 1, Len(@))]
=============================================================================
