---------------------------- MODULE TunnelProofs ----------------------------
(***************************************************************************)
(* Either direction of the tunnel implements Relay, for every network that *)
(* loses, duplicates and reorders, every close and every failure, and any  *)
(* number of chunks and segments.  The two directions are the same         *)
(* argument: what a session does is a SenderStep for the direction it      *)
(* feeds and a WriterStep or an InputStep for the one it drains, and each  *)
(* of these keeps Flow, the invariant of one direction.                    *)
(*                                                                         *)
(* Then what composing the sessions adds: they have every invariant that   *)
(* was proved of a session with any peer, and the sets of datagrams that   *)
(* Next quantifies over hold every datagram that is ever sent.             *)
(***************************************************************************)
EXTENDS Tunnel, KcpProofs

Entry == [frg : Nat, msg : Message]

\* The numbers at which a chunk is complete in a log.
Ends(log) ==
  {a \in 1 .. Len(log) : log[a].frg = 0 /\ log[a].msg.cmd = "normal"}

\* The j-th of them carries chunk j.
Numbered(log) == \A a \in Ends(log) : log[a].msg.data = Rank(Ends(log), a)

\* What is taken from the sender's stream is in the log, or the handler of the
\* read is about to put it there.  (An overlapping read would be the end.)
Taken(n, rd, chunks) ==
  /\ n \in Nat /\ chunks \in Nat /\ n <= chunks
  /\ rd = "ok" => n + 1 = chunks
  /\ rd \notin {"ok", "overlap"} => n = chunks

\* A datagram is a copy of an entry of the log, or an ack.
Carries(out, log) ==
  \A d \in out :
    /\ d \in KcpDatagram
    /\ d.type = "push" => /\ d.sn \in 1 .. Len(log)
                          /\ d.frg = log[d.sn].frg /\ d.msg = log[d.sn].msg

\* The receiver's block k holds copies of entries: in its queue those that
\* follow what it gave to its session, up to rcvNxt.
Consumed(k) == k.rcvNxt - 1 - Len(k.rcvQueue)
Reads(log, k) ==
  /\ k.rcvNxt \in 1 .. Len(log) + 1
  /\ Len(k.rcvQueue) <= k.rcvNxt - 1
  /\ \A s \in k.rcvBuf : /\ s.sn \in 1 .. Len(log)
                         /\ s.frg = log[s.sn].frg /\ s.msg = log[s.sn].msg
  /\ \A i \in 1 .. Len(k.rcvQueue) :
       /\ k.rcvQueue[i].frg = log[Consumed(k) + i].frg
       /\ k.rcvQueue[i].msg = log[Consumed(k) + i].msg

\* How many chunks k has given to its session.
Arrived(log, k) == Rank(Ends(log), Consumed(k))

\* q holds the chunks from first + 1 to last.
Queue(q, first, last) ==
  /\ q \in Seq(Nat) /\ first \in Nat /\ last \in Nat
  /\ first + Len(q) = last
  /\ \A i \in 1 .. Len(q) : q[i] = first + i

\* While the session is open, and no write has failed, the deque continues
\* what was written; the head stays in it until the handler of its write.
Writer(n, deque, wr, closed, got) ==
  /\ got \in Seq(Nat)
  /\ closed => wr # "pending"
  /\ ~ closed =>
       /\ wr = "pending" => deque # << >>
       /\ wr \in {"none", "pending"} => Queue(deque, Len(got), n)
       /\ wr = "ok" => Queue(deque, Len(got) - 1, n) /\ deque # << >>

\* One direction: the sender's block s, the datagrams out of its side, its
\* read and its chunks; the receiver's block k, deque, write and stream.
Flow(s, out, rd, chunks, k, deque, wr, closed, got) ==
  /\ IsBlock(s) /\ IsBlock(k)
  /\ Numbered(s.log)
  /\ Taken(Cardinality(Ends(s.log)), rd, chunks)
  /\ Carries(out, s.log)
  /\ Reads(s.log, k)
  /\ Writer(Arrived(s.log, k), deque, wr, closed, got)

\* The inductive invariant.
TunnelInv ==
  /\ Flow(hKcp, toRemote, hRd, hChunks,
          rKcp, rDeque, rWr, rClose, targetGot)
  /\ Flow(rKcp, toHome, rRd, rChunks,
          hKcp, hDeque, hWr, hClose, clientGot)
-----------------------------------------------------------------------------
\* What a session can do to the direction it feeds: send nothing new,
IdleRead(rd, rd2) ==
  rd2 = rd \/ rd2 = "overlap" \/ (rd \notin {"ok", "overlap"} /\ rd2 # "ok")
SendsNothing(k, out, rd, chunks, k2, out2, rd2, chunks2) ==
  /\ k2.log = k.log
  /\ out2 \subseteq out \cup FlushOutput(k)
  /\ IdleRead(rd, rd2) /\ chunks2 = chunks

\* take a chunk from its stream,
TakesChunk(k, out, rd, chunks, k2, out2, rd2, chunks2) ==
  /\ k2 = k /\ out2 = out
  /\ rd = "pending" /\ rd2 = "ok" /\ chunks2 = chunks + 1

\* send the chunk it took, or announce itself.
Sends(k, out, rd, chunks, k2, out2, rd2, chunks2) ==
  \E n \in Nat \ {0}, msg \in Message :
    /\ k2.log = ikcp_send(k, msg, n).log
    /\ out2 = out \cup FlushOutput(ikcp_send(k, msg, n))
    /\ \/ msg = Normal(chunks) /\ rd = "ok" /\ rd2 # "ok"
       \/ msg = NewSession /\ IdleRead(rd, rd2)
    /\ chunks2 = chunks

SenderStep(k, out, rd, chunks, k2, out2, rd2, chunks2) ==
  \/ SendsNothing(k, out, rd, chunks, k2, out2, rd2, chunks2)
  \/ TakesChunk(k, out, rd, chunks, k2, out2, rd2, chunks2)
  \/ Sends(k, out, rd, chunks, k2, out2, rd2, chunks2)

\* What it can do to the direction it drains, without a datagram: nothing, be
\* closed, fail, write a chunk, pop it, begin to write.
WriterStep(deque, wr, closed, got, deque2, wr2, closed2, got2) ==
  \/ deque2 = deque /\ wr2 = wr /\ closed2 = closed /\ got2 = got
  \/ closed2 /\ (wr2 # "pending" \/ (closed /\ wr2 = wr)) /\ got2 = got
  \/ ~ closed2 /\ wr2 \in {"err", "overlap"} /\ got2 = got
  \/ /\ wr = "pending" /\ wr2 = "ok" /\ got2 = Append(got, Head(deque))
     /\ deque2 = deque /\ closed2 = closed
  \/ /\ ~ closed /\ wr = "ok" /\ deque2 = Tail(deque)
     /\ wr2 = IF deque2 = << >> THEN "none" ELSE "pending"
     /\ ~ closed2 /\ got2 = got
  \/ /\ ~ closed /\ wr = "none" /\ deque # << >> /\ wr2 = "pending"
     /\ deque2 = deque /\ ~ closed2 /\ got2 = got
SameReceiver(k, k2) ==
  k2.rcvNxt = k.rcvNxt /\ k2.rcvBuf = k.rcvBuf /\ k2.rcvQueue = k.rcvQueue

\* With a datagram: k2 is left by ikcp_input, and what it has is queued.
InputStep(k, d, deque, wr, k2, deque2, wr2) ==
  LET i == ikcp_input(k, d)
      data == DataAt(i.rcvQueue, EndsOf(i.rcvQueue, "normal"))
  IN  /\ k2 = ikcp_recvAll(i)
      /\ deque2 = deque \o data
      /\ \/ wr2 \in {wr, "overlap"}
         \/ wr = "none" /\ data # << >> /\ wr2 = "pending"
-----------------------------------------------------------------------------
\* Ranks in a finite set: none is above its size.
LEMMA RankBounds ==
  ASSUME NEW P \in SUBSET Int, IsFiniteSet(P), NEW p \in Int
  PROVE  /\ Rank(P, p) \in Nat /\ Rank(P, p) <= Cardinality(P)
         /\ (\A e \in P : e <= p) => Rank(P, p) = Cardinality(P)
<1> DEFINE B == {e \in P : e <= p}
<1>1. B \in SUBSET P
  OBVIOUS
<1>2. /\ IsFiniteSet(B) /\ Cardinality(B) \in Nat
      /\ Cardinality(B) <= Cardinality(P)
  BY <1>1, FS_Subset, FS_CardinalityType
<1>3. (\A e \in P : e <= p) => B = P
  OBVIOUS
<1> QED
  BY <1>2, <1>3 DEF Rank

\* Beyond p, ranks are those at p and those among the m positions after p.
LEMMA RankShift ==
  ASSUME NEW E \in SUBSET Int, IsFiniteSet(E), NEW p \in Int, NEW m \in Nat,
         NEW i \in 0 .. m
  PROVE  Rank(E, p + i) = Rank(E, p) + Rank({j \in 1 .. m : p + j \in E}, i)
<1> DEFINE P == {j \in 1 .. m : p + j \in E}
           A == {e \in E : e <= p}
           B == {e \in E : e <= p + i}
           C == {j \in P : j <= i}
           D == B \ A
           f == [j \in C |-> p + j]
<1>1. IsFiniteSet(A) /\ IsFiniteSet(D) /\ Cardinality(A) \in Nat
      /\ Cardinality(D) \in Nat
  <2>1. A \in SUBSET E /\ D \in SUBSET E
    OBVIOUS
  <2> QED
    BY <2>1, FS_Subset, FS_CardinalityType
<1>2. B = A \cup D /\ A \cap D = {}
  <2>1. \A e \in A : e \in B
    OBVIOUS
  <2> HIDE DEF A, B
  <2> QED
    BY <2>1
<1>3. Cardinality(B) = Cardinality(A) + Cardinality(D)
  <2>1. Cardinality(A \cap D) = 0
    BY <1>2, FS_EmptySet
  <2> HIDE DEF A, B, D
  <2>2. Cardinality(A \cup D)
          = Cardinality(A) + Cardinality(D) - Cardinality(A \cap D)
    BY <1>1, FS_Union, Zenon
  <2> QED
    BY <1>1, <1>2, <2>1, <2>2
<1>4. f \in Bijection(C, D)
  <2>1. \A j \in C : j \in Int /\ j <= i /\ 1 <= j /\ p + j \in E
    OBVIOUS
  <2>2. \A j \in C : p + j \in D
    BY <2>1
  <2>3. \A d \in D : d - p \in C /\ p + (d - p) = d
    OBVIOUS
  <2> HIDE DEF C, D
  <2>4. f \in [C -> D]
    BY <2>2
  <2>5. \A a, b \in C : f[a] = f[b] => a = b
    BY <2>1
  <2>6. \A d \in D : \E j \in C : f[j] = d
    BY <2>3
  <2> HIDE DEF f
  <2> QED
    BY <2>4, <2>5, <2>6 DEF Bijection, Injection, Surjection, IsInjective
<1>5. Cardinality(C) = Cardinality(D)
  <2>1. IsFiniteSet(C)
    <3>1. C \in SUBSET (1 .. m)
      OBVIOUS
    <3>2. IsFiniteSet(1 .. m)
      BY FS_Interval
    <3> HIDE DEF C
    <3> QED
      BY <3>1, <3>2, FS_Subset, Zenon
  <2>2. ExistsBijection(C, D)
    BY <1>4 DEF ExistsBijection
  <2> QED
    BY <2>1, <2>2, FS_Bijection
<1> QED
  BY <1>3, <1>5 DEF Rank

\* The ends of a log are finitely many of its positions.
LEMMA LogEnds ==
  ASSUME NEW log \in Seq(Entry)
  PROVE  /\ Ends(log) \in SUBSET (1 .. Len(log)) /\ Ends(log) \in SUBSET Int
         /\ IsFiniteSet(Ends(log)) /\ Cardinality(Ends(log)) \in Nat
         /\ \A p \in Int : /\ Rank(Ends(log), p) \in Nat
                           /\ Rank(Ends(log), p) <= Cardinality(Ends(log))
<1>1. Len(log) \in Nat
  OBVIOUS
<1>2. Ends(log) \in SUBSET (1 .. Len(log)) /\ Ends(log) \in SUBSET Int
  BY <1>1 DEF Ends
<1>3. IsFiniteSet(1 .. Len(log))
  BY <1>1, FS_Interval
<1>4. IsFiniteSet(Ends(log)) /\ Cardinality(Ends(log)) \in Nat
  BY <1>2, <1>3, FS_Subset, FS_CardinalityType
<1> QED
  BY <1>2, <1>4, RankBounds

\* log2 is log with the n segments of msg behind it.
Appends(log, log2, msg, n) ==
  /\ log \in Seq(Entry) /\ log2 \in Seq(Entry) /\ Len(log2) = Len(log) + n
  /\ \A a \in 1 .. Len(log) : log2[a] = log[a]
  /\ \A i \in 1 .. n : log2[Len(log) + i] = [frg |-> n - i, msg |-> msg]
  /\ msg.cmd = "normal" => Ends(log2) = Ends(log) \cup {Len(log) + n}
  /\ msg.cmd # "normal" => Ends(log2) = Ends(log)

Segments(msg, n) == [i \in 1 .. n |-> [frg |-> n - i, msg |-> msg]]

\* That is what ikcp_send does to a log.
LEMMA SendLog ==
  ASSUME NEW k, IsBlock(k), NEW msg \in Message, NEW n \in Nat \ {0}
  PROVE  Appends(k.log, ikcp_send(k, msg, n).log, msg, n)
<1> DEFINE log == k.log
           log2 == ikcp_send(k, msg, n).log
           L == Len(log)
<1>1. log \in Seq(Entry) /\ L \in Nat /\ log2 = log \o Segments(msg, n)
  BY DEF IsBlock, Entry, ikcp_send, Segments
<1>2. /\ Segments(msg, n) \in Seq(Entry) /\ Len(Segments(msg, n)) = n
      /\ \A i \in 1 .. n : Segments(msg, n)[i] = [frg |-> n - i, msg |-> msg]
  BY DEF Segments, Entry
<1> HIDE DEF log, log2
<1>3. /\ log2 \in Seq(Entry) /\ Len(log2) = L + n
      /\ \A a \in 1 .. L + n : log2[a] = IF a <= L THEN log[a]
                                         ELSE Segments(msg, n)[a - L]
  <2> DEFINE t == Segments(msg, n)
  <2>1. t \in Seq(Entry) /\ Len(t) = n
    BY <1>2
  <2> HIDE DEF t
  <2>2. /\ log \o t \in Seq(Entry) /\ Len(log \o t) = L + Len(t)
        /\ \A a \in 1 .. L + Len(t) : (log \o t)[a] =
             IF a <= L THEN log[a] ELSE t[a - L]
    BY <1>1, <2>1, ConcatProperties, Zenon
  <2>3. log2 = log \o t
    BY <1>1 DEF t
  <2>4. /\ log2 \in Seq(Entry) /\ Len(log2) = L + n
        /\ \A a \in 1 .. L + n : log2[a] = IF a <= L THEN log[a] ELSE t[a - L]
    BY <2>1, <2>2, <2>3, Zenon
  <2> QED
    BY <2>4, Zenon DEF t
<1> HIDE DEF L
<1>9. L = Len(log)
  BY DEF L
<1>4. \A a \in 1 .. L : log2[a] = log[a]
  BY <1>1, <1>3
<1>5. \A i \in 1 .. n : log2[L + i] = [frg |-> n - i, msg |-> msg]
  <2> SUFFICES ASSUME NEW i \in 1 .. n
               PROVE  log2[L + i] = [frg |-> n - i, msg |-> msg]
    OBVIOUS
  <2>1. L + i \in 1 .. L + n /\ ~ (L + i <= L) /\ (L + i) - L = i
    BY <1>1
  <2> QED
    BY <1>2, <1>3, <2>1
<1>6. \A a \in 1 .. L + n :
        a \in 1 .. L \/ (a - L \in 1 .. n /\ a = L + (a - L))
  BY <1>1
<1>7. ASSUME NEW a
      PROVE  a \in Ends(log2) <=>
               a \in Ends(log) \/ (msg.cmd = "normal" /\ a = L + n)
  <2>1. CASE a \in 1 .. L
    BY <1>9, <1>1, <1>3, <1>4, <2>1 DEF Ends
  <2>2. CASE a \notin 1 .. L /\ a \in 1 .. L + n
    <3>1. PICK i \in 1 .. n : a = L + i
      BY <1>6, <2>2
    <3>2. log2[a] = [frg |-> n - i, msg |-> msg]
      BY <1>5, <3>1, Zenon
    <3>3. n - i = 0 <=> a = L + n
      <4>1. L \in Int /\ n \in Int /\ i \in Int
        BY <1>1
      <4> QED
        BY <3>1, <4>1
    <3> QED
      BY <1>9, <1>3, <2>2, <3>2, <3>3 DEF Ends
  <2>3. CASE a \notin 1 .. L + n
    BY <1>9, <1>1, <1>3, <2>3 DEF Ends
  <2> QED
    BY <2>1, <2>2, <2>3
<1>8. /\ msg.cmd = "normal" => Ends(log2) = Ends(log) \cup {L + n}
      /\ msg.cmd # "normal" => Ends(log2) = Ends(log)
  BY <1>7
<1> QED
  BY <1>1, <1>3, <1>4, <1>5, <1>8, <1>9 DEF Appends, log, log2

\* A log that another one continues.
Extends(log, log2) ==
  /\ log \in Seq(Entry) /\ log2 \in Seq(Entry)
  /\ Len(log) <= Len(log2)
  /\ \A a \in 1 .. Len(log) : log2[a] = log[a]

\* Nothing that was true of the older entries changes.
LEMMA ExtendsEnds ==
  ASSUME NEW log, NEW log2, Extends(log, log2)
  PROVE  \A p \in Int :
           p <= Len(log) => Rank(Ends(log2), p) = Rank(Ends(log), p)
<1> SUFFICES ASSUME NEW p \in Int, p <= Len(log)
             PROVE  {e \in Ends(log2) : e <= p} = {e \in Ends(log) : e <= p}
  BY DEF Rank
<1> QED
  BY DEF Extends, Ends

\* A datagram that is a copy of an entry stays one,
LEMMA ExtendsCarries ==
  ASSUME NEW log, NEW log2, Extends(log, log2), NEW out, Carries(out, log)
  PROVE  Carries(out, log2)
BY DEF Extends, Carries

\* and so do the segments of the receiver, who has no more chunks.
LEMMA ExtendsReads ==
  ASSUME NEW log, NEW log2, Extends(log, log2),
         NEW k, IsBlock(k), Reads(log, k)
  PROVE  /\ Reads(log2, k) /\ Consumed(k) \in Nat /\ Consumed(k) <= Len(log)
         /\ Arrived(log2, k) = Arrived(log, k)
<1>1. /\ Len(log) \in Nat /\ Len(log2) \in Nat /\ Len(log) <= Len(log2)
      /\ \A a \in 1 .. Len(log) : log2[a] = log[a]
  BY DEF Extends
<1>2. /\ k.rcvNxt \in 1 .. Len(log) + 1 /\ Len(k.rcvQueue) \in Nat
      /\ Len(k.rcvQueue) <= k.rcvNxt - 1
  BY DEF IsBlock, Reads
<1>3. Consumed(k) \in Nat /\ Consumed(k) <= Len(log)
      /\ \A i \in 1 .. Len(k.rcvQueue) : Consumed(k) + i \in 1 .. Len(log)
  <2> DEFINE m == Len(k.rcvQueue)
             x == k.rcvNxt
             l == Len(log)
             p == x - 1 - m
  <2>1. x \in 1 .. l + 1 /\ l \in Nat /\ m \in Nat /\ m <= x - 1
    BY <1>1, <1>2
  <2> HIDE DEF m, x, l
  <2>2. p \in Nat /\ p <= l /\ \A i \in 1 .. m : p + i \in 1 .. l
    BY <2>1
  <2> QED
    BY <2>2 DEF m, x, l, Consumed
<1>4. Reads(log2, k)
  <2>1. k.rcvNxt \in 1 .. Len(log2) + 1
    BY <1>1, <1>2
  <2>2. ASSUME NEW s \in k.rcvBuf
        PROVE  /\ s.sn \in 1 .. Len(log2)
               /\ s.frg = log2[s.sn].frg /\ s.msg = log2[s.sn].msg
    BY <1>1 DEF Reads
  <2>3. ASSUME NEW i \in 1 .. Len(k.rcvQueue)
        PROVE  /\ k.rcvQueue[i].frg = log2[Consumed(k) + i].frg
               /\ k.rcvQueue[i].msg = log2[Consumed(k) + i].msg
    <3>1. log2[Consumed(k) + i] = log[Consumed(k) + i]
      BY <1>1, <1>3
    <3> QED
      BY <3>1 DEF Reads
  <2> QED
    BY <1>2, <2>1, <2>2, <2>3 DEF Reads
<1> QED
  BY <1>3, <1>4, ExtendsEnds DEF Arrived
-----------------------------------------------------------------------------
\* A flush sends copies of the log, and acks.
LEMMA FlushCarries ==
  ASSUME NEW k, IsBlock(k)
  PROVE  Carries(FlushOutput(k), k.log)
<1> SUFFICES ASSUME NEW d \in FlushOutput(k)
             PROVE  /\ d \in KcpDatagram
                    /\ d.type = "push" =>
                         /\ d.sn \in 1 .. Len(k.log)
                         /\ d.frg = k.log[d.sn].frg /\ d.msg = k.log[d.sn].msg
  BY DEF Carries
<1>1. /\ k.log \in Seq(Entry) /\ Len(k.log) \in Nat
      /\ k.snd \in SUBSET (1 .. Len(k.log)) /\ k.acklist \in SUBSET Nat
  BY DEF IsBlock, Entry
<1>2. CASE \E sn \in k.snd : d = Push(k, sn)
  <2>1. PICK sn \in k.snd : d = Push(k, sn)
    BY <1>2
  <2>2. sn \in 1 .. Len(k.log) /\ sn \in Nat
    BY <1>1
  <2>3. k.log[sn] \in Entry
    BY <1>1, <2>2, ElementOfSeq
  <2>4. k.log[sn].frg \in Nat /\ k.log[sn].msg \in Message
    BY <2>3 DEF Entry
  <2> QED
    BY <2>1, <2>2, <2>4 DEF Push, KcpDatagram
<1>3. CASE \E sn \in k.acklist : d = Ack(sn)
  BY <1>1, <1>3 DEF Ack, KcpDatagram
<1> QED
  BY <1>2, <1>3 DEF FlushOutput

\* The chunks that arrived are among those that were taken.
LEMMA FlowCounts ==
  ASSUME NEW s, NEW out, NEW rd, NEW chunks, NEW k, NEW deque, NEW wr,
         NEW closed, NEW got,
         Flow(s, out, rd, chunks, k, deque, wr, closed, got)
  PROVE  /\ s.log \in Seq(Entry) /\ Extends(s.log, s.log)
         /\ Arrived(s.log, k) \in Nat /\ Arrived(s.log, k) <= chunks
         /\ chunks \in Nat
<1>1. s.log \in Seq(Entry) /\ Len(s.log) \in Nat
  BY DEF Flow, IsBlock, Entry
<1>2. Extends(s.log, s.log)
  BY <1>1 DEF Extends
<1>3. Consumed(k) \in Int
  BY <1>2, ExtendsReads DEF Flow
<1>4. /\ Arrived(s.log, k) \in Nat
      /\ Arrived(s.log, k) <= Cardinality(Ends(s.log))
  BY <1>1, <1>3, LogEnds DEF Arrived
<1>5. /\ Cardinality(Ends(s.log)) \in Nat /\ chunks \in Nat
      /\ Cardinality(Ends(s.log)) <= chunks
  BY DEF Flow, Taken
<1> QED
  BY <1>1, <1>2, <1>4, <1>5

\* A chunk that is sent is the next of the log; an announcement is none.
LEMMA SendKeepsLog ==
  ASSUME NEW s, IsBlock(s), Numbered(s.log), NEW rd, NEW chunks, NEW rd2,
         Taken(Cardinality(Ends(s.log)), rd, chunks),
         NEW n \in Nat \ {0}, NEW msg \in Message, NEW log,
         log = ikcp_send(s, msg, n).log,
         \/ msg = Normal(chunks) /\ rd = "ok" /\ rd2 # "ok"
         \/ msg = NewSession /\ IdleRead(rd, rd2)
  PROVE  /\ Extends(s.log, log) /\ Numbered(log)
         /\ Taken(Cardinality(Ends(log)), rd2, chunks)
<1> DEFINE L == Len(s.log)
           E == Ends(s.log)
           E2 == Ends(log)
<1>1. /\ s.log \in Seq(Entry) /\ log \in Seq(Entry) /\ Len(log) = L + n
      /\ \A a \in 1 .. L : log[a] = s.log[a]
      /\ \A i \in 1 .. n : log[L + i] = [frg |-> n - i, msg |-> msg]
      /\ msg.cmd = "normal" => E2 = E \cup {L + n}
      /\ msg.cmd # "normal" => E2 = E
  <2>1. Appends(s.log, log, msg, n)
    BY SendLog
  <2> QED
    BY <2>1 DEF Appends
<1>0. L \in Nat /\ L <= L + n /\ L = Len(s.log)
  BY <1>1
<1>2. Extends(s.log, log)
  BY <1>0, <1>1 DEF Extends
<1>3. /\ E \in SUBSET (1 .. L) /\ IsFiniteSet(E) /\ Cardinality(E) \in Nat
      /\ E2 \in SUBSET Int /\ IsFiniteSet(E2)
  BY <1>1, LogEnds, Zenon
<1>4. \A a \in E : log[a] = s.log[a] /\ Rank(E2, a) = Rank(E, a)
                   /\ s.log[a].msg.data = Rank(E, a)
  <2> SUFFICES ASSUME NEW a \in E
               PROVE  log[a] = s.log[a] /\ Rank(E2, a) = Rank(E, a)
                      /\ s.log[a].msg.data = Rank(E, a)
    OBVIOUS
  <2>1. a \in 1 .. L /\ a \in Int /\ a <= L
    BY <1>0, <1>3
  <2>2. Rank(E2, a) = Rank(E, a)
    BY <1>2, <2>1, ExtendsEnds
  <2> QED
    BY <1>1, <2>1, <2>2 DEF Numbered
<1>5. /\ Cardinality(E) <= chunks /\ chunks \in Nat
      /\ rd = "ok" => Cardinality(E) + 1 = chunks
      /\ rd \notin {"ok", "overlap"} => Cardinality(E) = chunks
  BY DEF Taken
<1> HIDE DEF L, E, E2
<1>6. CASE msg = Normal(chunks) /\ rd = "ok" /\ rd2 # "ok"
  <2>1. msg.cmd = "normal" /\ msg.data = chunks
    BY <1>6 DEF Normal
  <2>2. E2 = E \cup {L + n} /\ L + n \notin E
    BY <1>0, <1>1, <1>3, <2>1
  <2>3. Cardinality(E2) = Cardinality(E) + 1
    BY <1>3, <2>2, FS_AddElement
  <2>4. Cardinality(E2) = chunks
    BY <1>5, <1>6, <2>3
  <2>5. \A e \in E2 : e <= L + n
    BY <1>0, <1>3, <2>2
  <2>6. Rank(E2, L + n) = chunks
    <3>1. L + n \in Int
      BY <1>0
    <3> QED
      BY <1>3, <2>4, <2>5, <3>1, RankBounds
  <2>7. log[L + n].msg.data = chunks
    <3>1. n \in 1 .. n
      OBVIOUS
    <3>2. log[L + n] = [frg |-> n - n, msg |-> msg]
      BY <1>1, <3>1, Zenon
    <3> QED
      BY <2>1, <3>2
  <2>8. \A a \in E2 : log[a].msg.data = Rank(E2, a)
    BY <1>4, <2>2, <2>6, <2>7
  <2>9. Taken(Cardinality(E2), rd2, chunks)
    BY <1>5, <1>6, <2>4 DEF Taken
  <2> QED
    BY <1>2, <2>8, <2>9 DEF Numbered, E2
<1>7. CASE msg = NewSession /\ IdleRead(rd, rd2)
  <2>1. E2 = E
    BY <1>1, <1>7 DEF NewSession
  <2>2. \A a \in E2 : log[a].msg.data = Rank(E2, a)
    BY <1>4, <2>1
  <2>3. Taken(Cardinality(E2), rd2, chunks)
    BY <1>3, <1>5, <1>7, <2>1 DEF Taken, IdleRead
  <2> QED
    BY <1>2, <2>2, <2>3 DEF Numbered, E2
<1> QED
  BY <1>6, <1>7

\* The flow goes on when the session that feeds it takes a step.
LEMMA SenderKeeps ==
  ASSUME NEW s, NEW out, NEW rd, NEW chunks, NEW k, NEW deque, NEW wr,
         NEW closed, NEW got, NEW s2, NEW out2, NEW rd2, NEW chunks2,
         Flow(s, out, rd, chunks, k, deque, wr, closed, got),
         SenderStep(s, out, rd, chunks, s2, out2, rd2, chunks2), IsBlock(s2)
  PROVE  Flow(s2, out2, rd2, chunks2, k, deque, wr, closed, got)
<1>1. /\ IsBlock(s) /\ IsBlock(k) /\ Numbered(s.log)
      /\ Taken(Cardinality(Ends(s.log)), rd, chunks)
      /\ Carries(out, s.log) /\ Reads(s.log, k)
      /\ Writer(Arrived(s.log, k), deque, wr, closed, got)
  BY DEF Flow
<1>2. CASE SendsNothing(s, out, rd, chunks, s2, out2, rd2, chunks2)
  <2>1. Carries(out2, s.log)
    BY <1>1, <1>2, FlushCarries DEF SendsNothing, Carries
  <2>2. Taken(Cardinality(Ends(s.log)), rd2, chunks)
    BY <1>1, <1>2 DEF SendsNothing, IdleRead, Taken
  <2> QED
    BY <1>1, <1>2, <2>1, <2>2 DEF SendsNothing, Flow
<1>3. CASE TakesChunk(s, out, rd, chunks, s2, out2, rd2, chunks2)
  <2>1. Taken(Cardinality(Ends(s.log)), rd2, chunks2)
    BY <1>1, <1>3 DEF TakesChunk, Taken
  <2> QED
    BY <1>1, <1>3, <2>1 DEF TakesChunk, Flow
<1>4. CASE Sends(s, out, rd, chunks, s2, out2, rd2, chunks2)
  <2>1. PICK n \in Nat \ {0}, msg \in Message :
          /\ s2.log = ikcp_send(s, msg, n).log
          /\ out2 = out \cup FlushOutput(ikcp_send(s, msg, n))
          /\ \/ msg = Normal(chunks) /\ rd = "ok" /\ rd2 # "ok"
             \/ msg = NewSession /\ IdleRead(rd, rd2)
          /\ chunks2 = chunks
    BY <1>4 DEF Sends
  <2>2. /\ Extends(s.log, s2.log) /\ Numbered(s2.log)
        /\ Taken(Cardinality(Ends(s2.log)), rd2, chunks)
    BY <1>1, <2>1, SendKeepsLog
  <2>3. Reads(s2.log, k) /\ Arrived(s2.log, k) = Arrived(s.log, k)
    BY <1>1, <2>2, ExtendsReads
  <2>4. Carries(out2, s2.log)
    <3>1. Carries(out, s2.log)
      BY <1>1, <2>2, ExtendsCarries
    <3>2. Carries(FlushOutput(ikcp_send(s, msg, n)), s2.log)
      <4>1. IsBlock(ikcp_send(s, msg, n))
        BY <1>1, SendBlock
      <4> QED
        BY <2>1, <4>1, FlushCarries
    <3> QED
      BY <2>1, <3>1, <3>2 DEF Carries
  <2> QED
    BY <1>1, <2>1, <2>2, <2>3, <2>4 DEF Flow
<1> QED
  BY <1>2, <1>3, <1>4 DEF SenderStep
-----------------------------------------------------------------------------
\* What reads a log depends on the receiver's part of the block.
LEMMA SameReads ==
  ASSUME NEW log, NEW k, NEW k2, SameReceiver(k, k2), Reads(log, k)
  PROVE  /\ Reads(log, k2) /\ Consumed(k2) = Consumed(k)
         /\ Arrived(log, k2) = Arrived(log, k)
BY DEF SameReceiver, Reads, Consumed, Arrived

\* A copy of an entry that arrives in any order, or again, is read in order.
LEMMA PushReads ==
  ASSUME NEW log \in Seq(Entry), NEW k, IsBlock(k), Reads(log, k),
         NEW d \in KcpDatagram, d.type = "push",
         d.sn \in 1 .. Len(log), d.frg = log[d.sn].frg, d.msg = log[d.sn].msg
  PROVE  /\ Reads(log, InputPush(k, d))
         /\ Consumed(InputPush(k, d)) = Consumed(k)
         /\ InputPush(k, d).log = k.log
<1> DEFINE buf == Buffered(k, d)
           x == k.rcvNxt
           nxt == FirstMissing(buf, x)
           q == k.rcvQueue
           p == Consumed(k)
           new == [i \in 1 .. (nxt - x) |-> SegAt(buf, x + i - 1)]
           left == {s \in buf : s.sn >= nxt}
           k2 == InputPush(k, d)
<1>1. /\ Len(log) \in Nat /\ x \in 1 .. Len(log) + 1 /\ x \in Nat
      /\ q \in Seq(Segment) /\ Len(q) \in Nat /\ Len(q) <= x - 1
      /\ IsFiniteSet(k.rcvBuf) /\ p = x - 1 - Len(q)
  BY DEF IsBlock, Reads, Consumed
<1>2. IsFiniteSet(buf) /\ \A s \in buf : /\ s.sn \in 1 .. Len(log)
                                         /\ s.frg = log[s.sn].frg
                                         /\ s.msg = log[s.sn].msg
  <2> DEFINE seg == [sn |-> d.sn, frg |-> d.frg, msg |-> d.msg]
  <2>1. buf = k.rcvBuf \/ buf = k.rcvBuf \cup {seg}
    BY DEF Buffered
  <2>2. seg.sn = d.sn /\ seg.frg = d.frg /\ seg.msg = d.msg
    OBVIOUS
  <2> HIDE DEF buf, seg
  <2>3. IsFiniteSet(k.rcvBuf \cup {seg})
    BY <1>1, FS_AddElement
  <2> QED
    BY <1>1, <2>1, <2>2, <2>3 DEF Reads
<1>3. k2 = [k EXCEPT !.acklist = @ \cup {d.sn}, !.rcvBuf = left,
                     !.rcvQueue = q \o new, !.rcvNxt = nxt]
  BY DEF InputPush
<1> HIDE DEF buf
<1>4. /\ nxt \in Nat /\ x <= nxt
      /\ \A m \in x .. (nxt - 1) : HasSeg(buf, m)
  BY <1>1, <1>2, FirstMissingType
<1>5. k2.rcvNxt = nxt /\ k2.rcvBuf = left /\ k2.rcvQueue = q \o new
      /\ k2.log = k.log
  BY <1>3 DEF IsBlock
<1> HIDE DEF nxt, x, q, p, k2
<1>6. \A m \in x .. (nxt - 1) :
        /\ m \in 1 .. Len(log)
        /\ SegAt(buf, m) \in buf /\ SegAt(buf, m).sn = m
  <2> SUFFICES ASSUME NEW m \in x .. (nxt - 1)
               PROVE  /\ m \in 1 .. Len(log)
                      /\ SegAt(buf, m) \in buf /\ SegAt(buf, m).sn = m
    OBVIOUS
  <2>1. SegAt(buf, m) \in buf /\ SegAt(buf, m).sn = m
    BY <1>4 DEF HasSeg, SegAt
  <2> QED
    BY <1>2, <2>1
<1>7. nxt \in 1 .. Len(log) + 1
  <2>1. CASE nxt = x
    BY <1>1, <2>1
  <2>2. CASE nxt # x
    <3>1. nxt - 1 \in x .. (nxt - 1)
      BY <1>1, <1>4, <2>2
    <3>2. nxt - 1 \in 1 .. Len(log)
      BY <1>6, <3>1
    <3> QED
      BY <1>1, <1>4, <3>2
  <2> QED
    BY <2>1, <2>2
<1>8. /\ Len(new) = nxt - x /\ new \in Seq(buf)
      /\ \A i \in 1 .. (nxt - x) :
           /\ new[i].frg = log[x + i - 1].frg
           /\ new[i].msg = log[x + i - 1].msg
  <2>1. \A i \in 1 .. (nxt - x) :
          x + i - 1 \in x .. (nxt - 1) /\ new[i] = SegAt(buf, x + i - 1)
    <3>1. \A i \in 1 .. (nxt - x) : x + i - 1 \in x .. (nxt - 1)
      <4>1. x \in Int /\ nxt \in Int
        BY <1>1, <1>4
      <4> HIDE DEF new
      <4> QED
        BY <4>1
    <3>2. \A i \in 1 .. (nxt - x) : new[i] = SegAt(buf, x + i - 1)
      OBVIOUS
    <3> QED
      BY <3>1, <3>2
  <2>2. nxt - x \in Nat
    BY <1>1, <1>4
  <2>3. \A i \in 1 .. (nxt - x) : new[i] \in buf
    BY <1>6, <2>1
  <2>4. Len(new) = nxt - x /\ new \in Seq(buf)
    BY <2>2, <2>3
  <2> HIDE DEF new
  <2> QED
    BY <1>2, <1>6, <2>1, <2>4
<1> HIDE DEF new
<1>9. /\ Len(q \o new) = Len(q) + (nxt - x)
      /\ \A i \in 1 .. Len(q) : (q \o new)[i] = q[i]
      /\ \A i \in 1 .. (nxt - x) : (q \o new)[Len(q) + i] = new[i]
  <2> DEFINE T == Segment \cup buf
  <2>1. q \in Seq(T) /\ new \in Seq(T)
    BY <1>1, <1>8, SeqMonotonic
  <2> HIDE DEF T
  <2>2. /\ Len(q \o new) = Len(q) + Len(new)
        /\ \A i \in 1 .. Len(q) + Len(new) :
             (q \o new)[i] = IF i <= Len(q) THEN q[i] ELSE new[i - Len(q)]
    BY <2>1, ConcatProperties
  <2>3. \A i \in 1 .. Len(q) : i \in 1 .. Len(q) + Len(new) /\ i <= Len(q)
    BY <1>1, <1>4, <1>8
  <2>4. \A i \in 1 .. (nxt - x) : /\ Len(q) + i \in 1 .. Len(q) + Len(new)
                                  /\ ~ (Len(q) + i <= Len(q))
                                  /\ Len(q) + i - Len(q) = i
    BY <1>1, <1>4, <1>8
  <2> QED
    BY <1>8, <2>2, <2>3, <2>4
<1> DEFINE q2 == q \o new
<1>10. Consumed(k2) = p
  BY <1>1, <1>4, <1>5, <1>9 DEF Consumed
<1> HIDE DEF q2
<1>11. \A i \in 1 .. Len(q2) :
         q2[i].frg = log[p + i].frg /\ q2[i].msg = log[p + i].msg
  <2> SUFFICES ASSUME NEW i \in 1 .. Len(q2)
               PROVE  q2[i].frg = log[p + i].frg /\ q2[i].msg = log[p + i].msg
    OBVIOUS
  <2>1. CASE i \in 1 .. Len(q)
    BY <1>9, <2>1 DEF Reads, q, p, q2
  <2>2. CASE i \notin 1 .. Len(q)
    <3>1. /\ i - Len(q) \in 1 .. (nxt - x)
          /\ Len(q) + (i - Len(q)) = i
          /\ x + (i - Len(q)) - 1 = p + i
      BY <1>1, <1>4, <1>9, <2>2 DEF q2
    <3>2. q2[i] = new[i - Len(q)]
      BY <1>9, <3>1 DEF q2
    <3> QED
      BY <1>8, <3>1, <3>2
  <2> QED
    BY <2>1, <2>2
<1>12. Len(q2) <= nxt - 1
  BY <1>1, <1>4, <1>9 DEF q2
<1>13. \A s \in left : s \in buf
  OBVIOUS
<1> HIDE DEF left
<1>14. Reads(log, k2)
  BY <1>2, <1>5, <1>7, <1>10, <1>11, <1>12, <1>13 DEF Reads, q2
<1> QED
  BY <1>5, <1>10, <1>14 DEF k2, p

\* So does any datagram of the network: an ack leaves the receiver alone.
LEMMA InputReads ==
  ASSUME NEW log \in Seq(Entry), NEW k, IsBlock(k), Reads(log, k),
         NEW out, Carries(out, log), NEW d \in out
  PROVE  /\ IsBlock(ikcp_input(k, d)) /\ Reads(log, ikcp_input(k, d))
         /\ Consumed(ikcp_input(k, d)) = Consumed(k)
         /\ ikcp_input(k, d).log = k.log
<1>1. /\ d \in KcpDatagram
      /\ d.type = "push" => /\ d.sn \in 1 .. Len(log)
                            /\ d.frg = log[d.sn].frg /\ d.msg = log[d.sn].msg
  BY DEF Carries
<1>2. IsBlock(ikcp_input(k, d))
  BY <1>1, InputBlock
<1>3. CASE d.type = "push"
  <2>1. ikcp_input(k, d) = InputPush(k, d)
    BY <1>3 DEF ikcp_input
  <2> QED
    BY <1>1, <1>2, <1>3, <2>1, PushReads
<1>4. CASE d.type = "ack"
  <2>1. ikcp_input(k, d) = [k EXCEPT !.snd = @ \ {d.sn}]
    BY <1>4 DEF ikcp_input, InputAck
  <2>2. SameReceiver(k, ikcp_input(k, d)) /\ ikcp_input(k, d).log = k.log
    BY <2>1 DEF IsBlock, SameReceiver
  <2> QED
    BY <1>2, <2>2, SameReads
<1> QED
  BY <1>1, <1>3, <1>4 DEF KcpDatagram

\* k2 is left of k when its session has taken data: what came next.
Yields(log, k, k2, data) ==
  /\ IsBlock(k2) /\ Reads(log, k2) /\ k2.log = k.log
  /\ data \in Seq(Nat)
  /\ Arrived(log, k2) = Arrived(log, k) + Len(data)
  /\ \A j \in 1 .. Len(data) : data[j] = Arrived(log, k) + j

\* The reader takes the chunks that follow those it had, in order.
LEMMA RecvReads ==
  ASSUME NEW log \in Seq(Entry), NEW k, IsBlock(k), Reads(log, k),
         Numbered(log), NEW data,
         data = DataAt(k.rcvQueue, EndsOf(k.rcvQueue, "normal"))
  PROVE  Yields(log, k, ikcp_recvAll(k), data)
<1> DEFINE q == k.rcvQueue
           m == Len(q)
           x == k.rcvNxt
           p == Consumed(k)
           E == Ends(log)
           P == EndsOf(q, "normal")
           l == LastEnd(q)
           rest == SubSeq(q, l + 1, m)
           k2 == ikcp_recvAll(k)
<1>1. /\ q \in Seq(Segment) /\ m \in Nat /\ x \in 1 .. Len(log) + 1
      /\ m <= x - 1 /\ Len(log) \in Nat /\ p = x - 1 - m
      /\ \A i \in 1 .. m :
           q[i].frg = log[p + i].frg /\ q[i].msg = log[p + i].msg
  BY DEF IsBlock, Reads, Consumed
<1>2. /\ l \in 0 .. m /\ \A e \in MessageEnds(q) : e <= l
      /\ MessageEnds(q) \in SUBSET (1 .. m)
  BY <1>1, EndsType
<1>3. k2.rcvNxt = x /\ k2.rcvBuf = k.rcvBuf /\ k2.rcvQueue = rest
      /\ k2.log = k.log
  BY DEF ikcp_recvAll, IsBlock
<1>4. /\ E \in SUBSET Int /\ IsFiniteSet(E)
      /\ \A a \in Int : Rank(E, a) \in Nat
  BY LogEnds
<1>5. P \in SUBSET (1 .. m) /\ P \in SUBSET Int /\ \A e \in P : e <= l
  BY <1>2 DEF EndsOf
<1>6. IsFiniteSet(P) /\ Cardinality(P) \in Nat
  BY <1>1, <1>5, SelectAtType
<1>7. data \in Seq(Nat) /\ Len(data) = Cardinality(P)
      /\ \A j \in 1 .. Cardinality(P) : data[j] = q[Kth(P, j)].msg.data
  <2>1. data = DataAt(q, P) /\ P \in SUBSET (1 .. Len(q)) /\ q \in Seq(Segment)
    BY <1>1, <1>5
  <2> HIDE DEF q, P
  <2> QED
    BY <2>1, DataAtType
<1> HIDE DEF q, m, x, p, l, rest
<1>8. /\ p \in Int /\ p \in Nat /\ l \in 0 .. m /\ l \in Int
      /\ \A i \in 1 .. m : p + i \in 1 .. Len(log)
      /\ p + l \in Nat
  BY <1>1, <1>2
<1>9. P = {i \in 1 .. m : p + i \in E}
  <2>1. \A i \in 1 .. m : i \in P <=> q[i].frg = 0 /\ q[i].msg.cmd = "normal"
    BY DEF EndsOf, MessageEnds, m
  <2>2. \A i \in 1 .. m :
          p + i \in E <=> log[p + i].frg = 0 /\ log[p + i].msg.cmd = "normal"
    BY <1>8 DEF Ends
  <2> HIDE DEF P, E
  <2>3. \A i \in 1 .. m : i \in P <=> p + i \in E
    BY <1>1, <2>1, <2>2
  <2> QED
    BY <1>5, <2>3
<1> HIDE DEF P, E
<1>10. \A i \in 0 .. m : Rank(E, p + i) = Rank(E, p) + Rank(P, i)
  <2> SUFFICES ASSUME NEW i \in 0 .. m
               PROVE  Rank(E, p + i) = Rank(E, p) + Rank(P, i)
    OBVIOUS
  <2>1. E \in SUBSET Int /\ IsFiniteSet(E) /\ p \in Int /\ m \in Nat
    BY <1>1, <1>4, <1>8
  <2>2. Rank(E, p + i)
          = Rank(E, p) + Rank({a \in 1 .. m : p + a \in E}, i)
    BY <2>1, RankShift, Zenon
  <2> QED
    BY <1>9, <2>2, Zenon
<1>11. Rank(P, l) = Cardinality(P)
  BY <1>5, <1>6, <1>8, RankBounds
<1>12. /\ Len(rest) = m - l
       /\ \A i \in 1 .. m - l : rest[i] = q[l + i]
  <2>1. l + 1 \in 1 .. Len(q) + 1 /\ m \in l + 1 - 1 .. Len(q)
    BY <1>1, <1>8 DEF m
  <2>2. /\ Len(SubSeq(q, l + 1, m)) = m - (l + 1) + 1
        /\ \A i \in 1 .. m - (l + 1) + 1 :
             SubSeq(q, l + 1, m)[i] = q[l + 1 + i - 1]
    BY <1>1, <1>8
  <2>3. m - (l + 1) + 1 = m - l /\ \A i \in 1 .. m - l : l + 1 + i - 1 = l + i
    BY <1>1, <1>8
  <2>4. /\ Len(rest) = m - l
        /\ \A i \in 1 .. m - l : rest[i] = q[l + 1 + i - 1]
    BY <2>2, <2>3, Zenon DEF rest
  <2> QED
    BY <2>3, <2>4, Zenon
<1>13. Consumed(k2) = p + l
  BY <1>1, <1>3, <1>8, <1>12 DEF Consumed
<1>14. Reads(log, k2)
  <2>1. k2.rcvNxt \in 1 .. Len(log) + 1 /\ Len(k2.rcvQueue) <= k2.rcvNxt - 1
    BY <1>1, <1>3, <1>8, <1>12
  <2>2. \A s \in k2.rcvBuf : /\ s.sn \in 1 .. Len(log)
                             /\ s.frg = log[s.sn].frg /\ s.msg = log[s.sn].msg
    BY <1>3 DEF Reads
  <2>3. ASSUME NEW i \in 1 .. Len(k2.rcvQueue)
        PROVE  /\ k2.rcvQueue[i].frg = log[Consumed(k2) + i].frg
               /\ k2.rcvQueue[i].msg = log[Consumed(k2) + i].msg
    <3>1. i \in 1 .. m - l /\ rest[i] = q[l + i]
      BY <1>3, <1>12
    <3>2. l + i \in 1 .. m /\ p + (l + i) = p + l + i
      BY <1>1, <1>8, <3>1
    <3> QED
      BY <1>1, <1>3, <1>13, <3>1, <3>2
  <2> QED
    BY <2>1, <2>2, <2>3 DEF Reads
<1>15. Arrived(log, k2) = Arrived(log, k) + Len(data)
  <2>1. Rank(E, p + l) = Rank(E, p) + Rank(P, l)
    BY <1>8, <1>10
  <2> QED
    BY <1>7, <1>11, <1>13, <2>1 DEF Arrived, E, p
<1>16. Arrived(log, k) = Rank(E, p) /\ Rank(E, p) \in Nat
  BY <1>4, <1>8 DEF Arrived, E, p
<1>17. ASSUME NEW j \in 1 .. Len(data)
       PROVE  data[j] = Arrived(log, k) + j
  <2> DEFINE i == Kth(P, j)
  <2>1. i \in P /\ Rank(P, i) = j
    BY <1>5, <1>6, <1>7, KthType
  <2>2. i \in 1 .. m /\ i \in 0 .. m /\ p + i \in E
    BY <1>1, <1>9, <2>1
  <2>3. data[j] = q[i].msg.data /\ q[i].msg = log[p + i].msg
    BY <1>1, <1>7, <2>2
  <2>4. log[p + i].msg.data = Rank(E, p + i)
    BY <2>2 DEF Numbered, E
  <2>5. Rank(E, p + i) = Rank(E, p) + j
    BY <1>10, <2>1, <2>2
  <2> QED
    BY <1>16, <2>3, <2>4, <2>5
<1>18. IsBlock(k2)
  BY RecvBlock
<1> QED
  BY <1>3, <1>7, <1>14, <1>15, <1>17, <1>18 DEF Yields, k2
-----------------------------------------------------------------------------
\* A queue of chunks that is joined at its end and popped at its front.
LEMMA QueueJoins ==
  ASSUME NEW q, NEW first, NEW last, Queue(q, first, last),
         NEW data \in Seq(Nat), \A j \in 1 .. Len(data) : data[j] = last + j
  PROVE  Queue(q \o data, first, last + Len(data))
<1> DEFINE m == Len(q)
           n == Len(data)
           r == q \o data
<1>1. q \in Seq(Nat) /\ m \in Nat /\ n \in Nat /\ first \in Nat /\ last \in Nat
      /\ first + m = last /\ \A i \in 1 .. m : q[i] = first + i
  BY DEF Queue
<1>2. /\ r \in Seq(Nat) /\ Len(r) = m + n
      /\ \A i \in 1 .. m + n : r[i] = IF i <= m THEN q[i] ELSE data[i - m]
  BY <1>1, ConcatProperties
<1> HIDE DEF r, m, n
<1>3. ASSUME NEW i \in 1 .. m + n
      PROVE  r[i] = first + i
  <2>1. CASE i <= m
    <3>1. i \in 1 .. m
      BY <1>1, <2>1
    <3>2. r[i] = q[i]
      BY <1>2, <2>1
    <3> QED
      BY <1>1, <3>1, <3>2
  <2>2. CASE ~ (i <= m)
    <3>1. i - m \in 1 .. n /\ last + (i - m) = first + i
      BY <1>1, <2>2
    <3>2. r[i] = data[i - m]
      BY <1>2, <2>2
    <3> QED
      BY <3>1, <3>2 DEF n
  <2> QED
    BY <2>1, <2>2
<1>4. last + n \in Nat /\ first + (m + n) = last + n
  BY <1>1
<1> QED
  BY <1>1, <1>2, <1>3, <1>4 DEF Queue, r, n

\* What is popped is the next chunk.
LEMMA QueuePops ==
  ASSUME NEW q, NEW first, NEW last, Queue(q, first, last), q # << >>
  PROVE  /\ Head(q) = first + 1 /\ first + 1 <= last
         /\ Queue(Tail(q), first + 1, last)
<1>1. q \in Seq(Nat) /\ Len(q) \in Nat /\ Len(q) # 0
      /\ first \in Nat /\ last \in Nat
      /\ first + Len(q) = last /\ \A i \in 1 .. Len(q) : q[i] = first + i
  BY EmptySeq DEF Queue
<1>2. Head(q) = q[1] /\ 1 \in 1 .. Len(q)
  BY <1>1
<1>3. Tail(q) \in Seq(Nat) /\ Len(Tail(q)) = Len(q) - 1
      /\ \A i \in 1 .. Len(q) - 1 : Tail(q)[i] = q[i + 1]
  BY <1>1, HeadTailProperties
<1>4. ASSUME NEW i \in 1 .. Len(q) - 1
      PROVE  Tail(q)[i] = first + 1 + i
  <2>1. i + 1 \in 1 .. Len(q) /\ first + (i + 1) = first + 1 + i
    BY <1>1
  <2> QED
    BY <1>1, <1>3, <2>1
<1>5. first + 1 \in Nat /\ first + 1 <= last
      /\ first + 1 + (Len(q) - 1) = last
  BY <1>1
<1> QED
  BY <1>1, <1>2, <1>3, <1>4, <1>5 DEF Queue

\* The session writes what its deque has, one chunk at a time, in order.
LEMMA WriterKeeps ==
  ASSUME NEW n, NEW deque, NEW wr, NEW closed, NEW got,
         NEW deque2, NEW wr2, NEW closed2, NEW got2,
         Writer(n, deque, wr, closed, got),
         WriterStep(deque, wr, closed, got, deque2, wr2, closed2, got2)
  PROVE  /\ Writer(n, deque2, wr2, closed2, got2)
         /\ \/ got2 = got
            \/ Len(got) + 1 <= n /\ got2 = Append(got, Len(got) + 1)
<1>1. got \in Seq(Nat) /\ Len(got) \in Nat
  BY DEF Writer
<1>2. CASE deque2 = deque /\ wr2 = wr /\ closed2 = closed /\ got2 = got
  BY <1>2
<1>3. CASE closed2 /\ (wr2 # "pending" \/ (closed /\ wr2 = wr)) /\ got2 = got
  BY <1>1, <1>3 DEF Writer
<1>4. CASE ~ closed2 /\ wr2 \in {"err", "overlap"} /\ got2 = got
  BY <1>1, <1>4 DEF Writer
<1>5. CASE /\ wr = "pending" /\ wr2 = "ok" /\ got2 = Append(got, Head(deque))
           /\ deque2 = deque /\ closed2 = closed
  <2>1. ~ closed /\ deque # << >> /\ Queue(deque, Len(got), n)
    BY <1>5 DEF Writer
  <2>2. Head(deque) = Len(got) + 1 /\ Len(got) + 1 <= n
    BY <2>1, QueuePops
  <2>3. got2 = Append(got, Len(got) + 1)
    BY <1>5, <2>2
  <2>4. got2 \in Seq(Nat) /\ Len(got2) = Len(got) + 1
    BY <1>1, <2>3
  <2>5. Len(got2) - 1 = Len(got)
    BY <1>1, <2>4
  <2>6. Queue(deque2, Len(got2) - 1, n) /\ deque2 # << >> /\ ~ closed2
    BY <1>5, <2>1, <2>5
  <2> QED
    BY <1>5, <2>2, <2>3, <2>4, <2>6 DEF Writer
<1>6. CASE /\ ~ closed /\ wr = "ok" /\ deque2 = Tail(deque)
           /\ wr2 = IF deque2 = << >> THEN "none" ELSE "pending"
           /\ ~ closed2 /\ got2 = got
  <2>1. Queue(deque, Len(got) - 1, n) /\ deque # << >>
    BY <1>6 DEF Writer
  <2>2. Queue(deque2, Len(got) - 1 + 1, n)
    BY <1>6, <2>1, QueuePops
  <2>3. Queue(deque2, Len(got), n)
    BY <1>1, <2>2
  <2>4. /\ wr2 \in {"none", "pending"}
        /\ wr2 = "pending" => deque2 # << >>
    BY <1>6
  <2> QED
    BY <1>1, <1>6, <2>3, <2>4 DEF Writer
<1>7. CASE /\ ~ closed /\ wr = "none" /\ deque # << >> /\ wr2 = "pending"
           /\ deque2 = deque /\ ~ closed2 /\ got2 = got
  BY <1>1, <1>7 DEF Writer
<1> QED
  BY <1>2, <1>3, <1>4, <1>5, <1>6, <1>7 DEF WriterStep

\* Nothing is delivered, or the next chunk the sender took.
DeliversNext(chunks, got, got2) ==
  \/ got2 = got
  \/ Len(got) < chunks /\ got2 = Append(got, Len(got) + 1)

\* Without a datagram the flow goes on.
LEMMA DrainKeeps ==
  ASSUME NEW s, NEW out, NEW rd, NEW chunks, NEW k, NEW deque, NEW wr,
         NEW closed, NEW got, NEW k2, NEW deque2, NEW wr2,
         NEW closed2, NEW got2,
         Flow(s, out, rd, chunks, k, deque, wr, closed, got),
         WriterStep(deque, wr, closed, got, deque2, wr2, closed2, got2),
         SameReceiver(k, k2), IsBlock(k2)
  PROVE  /\ Flow(s, out, rd, chunks, k2, deque2, wr2, closed2, got2)
         /\ DeliversNext(chunks, got, got2)
<1> DEFINE n == Arrived(s.log, k)
<1>1. /\ Writer(n, deque2, wr2, closed2, got2)
      /\ \/ got2 = got
         \/ Len(got) + 1 <= n /\ got2 = Append(got, Len(got) + 1)
  BY WriterKeeps DEF Flow
<1>2. Reads(s.log, k2) /\ Arrived(s.log, k2) = n
  BY SameReads DEF Flow
<1>3. n \in Nat /\ chunks \in Nat /\ n <= chunks
  BY FlowCounts
<1>4. Len(got) \in Nat
  BY DEF Flow, Writer
<1>5. Len(got) + 1 <= n => Len(got) < chunks
  <2> HIDE DEF n
  <2> QED
    BY <1>3, <1>4
<1> QED
  BY <1>1, <1>2, <1>5 DEF Flow, DeliversNext

\* A datagram brings only chunks that continue what arrived.
LEMMA InputKeeps ==
  ASSUME NEW s, NEW out, NEW rd, NEW chunks, NEW k, NEW deque, NEW wr,
         NEW closed, NEW got, NEW k2, NEW deque2, NEW wr2,
         Flow(s, out, rd, chunks, k, deque, wr, closed, got),
         NEW d \in out, ~ closed,
         InputStep(k, d, deque, wr, k2, deque2, wr2)
  PROVE  /\ Flow(s, out, rd, chunks, k2, deque2, wr2, closed, got)
         /\ IsBlock(k2) /\ k2.log = k.log
<1> DEFINE i == ikcp_input(k, d)
           data == DataAt(i.rcvQueue, EndsOf(i.rcvQueue, "normal"))
           n == Arrived(s.log, k)
           n2 == Arrived(s.log, k2)
<1>1. /\ IsBlock(s) /\ IsBlock(k) /\ Numbered(s.log) /\ Carries(out, s.log)
      /\ Taken(Cardinality(Ends(s.log)), rd, chunks)
      /\ Reads(s.log, k) /\ Writer(n, deque, wr, closed, got)
  BY DEF Flow
<1>2. s.log \in Seq(Entry)
  BY FlowCounts
<1>3. /\ k2 = ikcp_recvAll(i) /\ deque2 = deque \o data
      /\ \/ wr2 \in {wr, "overlap"}
         \/ wr = "none" /\ data # << >> /\ wr2 = "pending"
  BY DEF InputStep
<1>4. /\ IsBlock(i) /\ Reads(s.log, i) /\ Consumed(i) = Consumed(k)
      /\ i.log = k.log
  BY <1>1, <1>2, InputReads
<1>5. Arrived(s.log, i) = n
  BY <1>4 DEF Arrived
<1> HIDE DEF i
<1>6. /\ IsBlock(k2) /\ Reads(s.log, k2) /\ k2.log = k.log
      /\ data \in Seq(Nat) /\ n2 = n + Len(data)
      /\ \A j \in 1 .. Len(data) : data[j] = n + j
  <2> HIDE DEF n, data
  <2>1. data = DataAt(i.rcvQueue, EndsOf(i.rcvQueue, "normal"))
    BY DEF data
  <2>2. Yields(s.log, i, ikcp_recvAll(i), data)
    BY <1>1, <1>2, <1>4, <2>1, RecvReads
  <2> QED
    BY <1>3, <1>4, <1>5, <2>2 DEF Yields, n2
<1> HIDE DEF data, n, n2
<1>7. ASSUME NEW first, Queue(deque, first, n)
      PROVE  /\ Queue(deque2, first, n2)
             /\ deque # << >> \/ data # << >> => deque2 # << >>
  <2>1. Queue(deque2, first, n2)
    BY <1>3, <1>6, <1>7, QueueJoins
  <2>2. /\ Len(deque) \in Nat /\ Len(data) \in Nat
        /\ Len(deque2) = Len(deque) + Len(data)
        /\ deque = << >> <=> Len(deque) = 0
        /\ data = << >> <=> Len(data) = 0
        /\ deque2 = << >> => Len(deque2) = 0
    BY <1>3, <1>6, <1>7 DEF Queue
  <2> QED
    BY <2>1, <2>2
<1>8. Writer(n2, deque2, wr2, closed, got)
  <2>1. CASE wr2 = "overlap"
    BY <1>1, <2>1 DEF Writer
  <2>2. CASE wr2 = wr
    BY <1>1, <1>7, <2>2 DEF Writer
  <2>3. CASE wr = "none" /\ data # << >> /\ wr2 = "pending"
    BY <1>1, <1>7, <2>3 DEF Writer
  <2> QED
    BY <1>3, <2>1, <2>2, <2>3
<1> QED
  BY <1>1, <1>6, <1>8 DEF Flow, n2
-----------------------------------------------------------------------------
\* Both sessions use the same KCP, and name its operators.
LEMMA HomeKcp ==
  /\ Home!ikcp_create = ikcp_create /\ Home!NewSession = NewSession
  /\ \A i : Home!Normal(i) = Normal(i)
  /\ \A k, msg, n : Home!ikcp_send(k, msg, n) = ikcp_send(k, msg, n)
  /\ \A k : Home!ikcp_flush(k) = ikcp_flush(k)
  /\ \A k : Home!FlushOutput(k) = FlushOutput(k)
  /\ \A k, d : Home!ikcp_input(k, d) = ikcp_input(k, d)
  /\ \A k : Home!ikcp_recvAll(k) = ikcp_recvAll(k)
  /\ \A q, P : Home!DataAt(q, P) = DataAt(q, P)
  /\ \A q, cmd : Home!EndsOf(q, cmd) = EndsOf(q, cmd)
<1>1. Home!ikcp_create = ikcp_create /\ Home!NewSession = NewSession
  BY DEF Home!ikcp_create, ikcp_create, Home!NewSession, NewSession
<1>2. \A i : Home!Normal(i) = Normal(i)
  BY DEF Home!Normal, Normal
<1>3. \A k, msg, n : Home!ikcp_send(k, msg, n) = ikcp_send(k, msg, n)
  BY Zenon DEF Home!ikcp_send, ikcp_send
<1>4. /\ \A k : Home!ikcp_flush(k) = ikcp_flush(k)
      /\ \A k : Home!FlushOutput(k) = FlushOutput(k)
  BY Zenon DEF Home!ikcp_flush, ikcp_flush, Home!FlushOutput, FlushOutput,
               Home!Push, Push, Home!Ack, Ack
<1>5. \A k, d : Home!ikcp_input(k, d) = ikcp_input(k, d)
  <2> SUFFICES ASSUME NEW k, NEW d
               PROVE  Home!ikcp_input(k, d) = ikcp_input(k, d)
    OBVIOUS
  <2> DEFINE After(buf, nxt) ==
               [k EXCEPT !.acklist = @ \cup {d.sn},
                         !.rcvBuf = {s \in buf : s.sn >= nxt},
                         !.rcvQueue = @ \o [i \in 1 .. (nxt - k.rcvNxt) |->
                                              SegAt(buf, k.rcvNxt + i - 1)],
                         !.rcvNxt = nxt]
             Gap(buf) == FirstMissing(buf, k.rcvNxt)
  <2>1. Home!Buffered(k, d) = Buffered(k, d)
    BY Zenon DEF Home!Buffered, Buffered, Home!HasSeg, HasSeg
  <2>2. \A buf : Home!FirstMissing(buf, k.rcvNxt) = Gap(buf)
    BY Zenon DEF Home!FirstMissing, FirstMissing, Home!HasSeg, HasSeg,
                 Home!Cardinality, Cardinality
  <2>3. /\ InputPush(k, d) = After(Buffered(k, d), Gap(Buffered(k, d)))
        /\ Home!InputPush(k, d)
             = After(Home!Buffered(k, d),
                     Home!FirstMissing(Home!Buffered(k, d), k.rcvNxt))
    BY Zenon DEF InputPush, Home!InputPush, Home!SegAt, SegAt
  <2>4. Home!InputAck(k, d) = InputAck(k, d)
    BY Zenon DEF Home!InputAck, InputAck
  <2> HIDE DEF After, Gap
  <2>5. Home!InputPush(k, d) = InputPush(k, d)
    BY <2>1, <2>2, <2>3, Zenon
  <2> QED
    BY <2>4, <2>5 DEF Home!ikcp_input, ikcp_input
<1>6. \A k : Home!ikcp_recvAll(k) = ikcp_recvAll(k)
  BY Zenon DEF Home!ikcp_recvAll, ikcp_recvAll, Home!LastEnd, LastEnd,
               Home!MessageEnds, MessageEnds
<1>7. \A q, P : Home!DataAt(q, P) = DataAt(q, P)
  BY Zenon DEF Home!DataAt, DataAt, Home!SelectAt, SelectAt, Home!Kth,
               Kth, Home!Rank, Rank, Home!Cardinality, Cardinality
<1>8. \A q, cmd : Home!EndsOf(q, cmd) = EndsOf(q, cmd)
  BY Zenon DEF Home!EndsOf, EndsOf, Home!MessageEnds, MessageEnds
<1> QED
  BY <1>1, <1>2, <1>3, <1>4, <1>5, <1>6, <1>7, <1>8

\* The same for the remote session, whose test of a message is IsData.
LEMMA RemoteKcp ==
  /\ Remote!ikcp_create = ikcp_create
  /\ \A i : Remote!Normal(i) = Normal(i)
  /\ \A k, msg, n : Remote!ikcp_send(k, msg, n) = ikcp_send(k, msg, n)
  /\ \A k : Remote!ikcp_flush(k) = ikcp_flush(k)
  /\ \A k : Remote!FlushOutput(k) = FlushOutput(k)
  /\ \A k, d : Remote!ikcp_input(k, d) = ikcp_input(k, d)
  /\ \A k : Remote!ikcp_recvAll(k) = ikcp_recvAll(k)
  /\ \A q, P : Remote!DataAt(q, P) = DataAt(q, P)
  /\ \A q : {i \in Remote!MessageEnds(q) : Remote!IsData(q[i].msg)}
              = EndsOf(q, "normal")
<1>1. Remote!ikcp_create = ikcp_create
  BY DEF Remote!ikcp_create, ikcp_create
<1>2. \A i : Remote!Normal(i) = Normal(i)
  BY DEF Remote!Normal, Normal
<1>3. \A k, msg, n : Remote!ikcp_send(k, msg, n) = ikcp_send(k, msg, n)
  BY Zenon DEF Remote!ikcp_send, ikcp_send
<1>4. /\ \A k : Remote!ikcp_flush(k) = ikcp_flush(k)
      /\ \A k : Remote!FlushOutput(k) = FlushOutput(k)
  BY Zenon DEF Remote!ikcp_flush, ikcp_flush, Remote!FlushOutput, FlushOutput,
               Remote!Push, Push, Remote!Ack, Ack
<1>5. \A k, d : Remote!ikcp_input(k, d) = ikcp_input(k, d)
  <2> SUFFICES ASSUME NEW k, NEW d
               PROVE  Remote!ikcp_input(k, d) = ikcp_input(k, d)
    OBVIOUS
  <2> DEFINE After(buf, nxt) ==
               [k EXCEPT !.acklist = @ \cup {d.sn},
                         !.rcvBuf = {s \in buf : s.sn >= nxt},
                         !.rcvQueue = @ \o [i \in 1 .. (nxt - k.rcvNxt) |->
                                              SegAt(buf, k.rcvNxt + i - 1)],
                         !.rcvNxt = nxt]
             Gap(buf) == FirstMissing(buf, k.rcvNxt)
  <2>1. Remote!Buffered(k, d) = Buffered(k, d)
    BY Zenon DEF Remote!Buffered, Buffered, Remote!HasSeg, HasSeg
  <2>2. \A buf : Remote!FirstMissing(buf, k.rcvNxt) = Gap(buf)
    BY Zenon DEF Remote!FirstMissing, FirstMissing, Remote!HasSeg, HasSeg,
                 Remote!Cardinality, Cardinality
  <2>3. /\ InputPush(k, d) = After(Buffered(k, d), Gap(Buffered(k, d)))
        /\ Remote!InputPush(k, d)
             = After(Remote!Buffered(k, d),
                     Remote!FirstMissing(Remote!Buffered(k, d), k.rcvNxt))
    BY Zenon DEF InputPush, Remote!InputPush, Remote!SegAt, SegAt
  <2>4. Remote!InputAck(k, d) = InputAck(k, d)
    BY Zenon DEF Remote!InputAck, InputAck
  <2> HIDE DEF After, Gap
  <2>5. Remote!InputPush(k, d) = InputPush(k, d)
    BY <2>1, <2>2, <2>3, Zenon
  <2> QED
    BY <2>4, <2>5 DEF Remote!ikcp_input, ikcp_input
<1>6. \A k : Remote!ikcp_recvAll(k) = ikcp_recvAll(k)
  BY Zenon DEF Remote!ikcp_recvAll, ikcp_recvAll, Remote!LastEnd, LastEnd,
               Remote!MessageEnds, MessageEnds
<1>7. \A q, P : Remote!DataAt(q, P) = DataAt(q, P)
  BY Zenon DEF Remote!DataAt, DataAt, Remote!SelectAt, SelectAt, Remote!Kth,
               Kth, Remote!Rank, Rank, Remote!Cardinality, Cardinality
<1>8. \A q : {i \in Remote!MessageEnds(q) : Remote!IsData(q[i].msg)}
               = EndsOf(q, "normal")
  BY Zenon DEF Remote!IsData, EndsOf, Remote!MessageEnds, MessageEnds
<1> QED
  BY <1>1, <1>2, <1>3, <1>4, <1>5, <1>6, <1>7, <1>8

\* A flush, after a message or without one, leaves the receiver's part alone.
LEMMA FlushKeeps ==
  ASSUME NEW k, IsBlock(k)
  PROVE  /\ IsBlock(ikcp_flush(k)) /\ ikcp_flush(k).log = k.log
         /\ SameReceiver(k, ikcp_flush(k))
<1>1. ikcp_flush(k).log = k.log /\ SameReceiver(k, ikcp_flush(k))
  BY DEF ikcp_flush, IsBlock, SameReceiver
<1> QED
  BY <1>1, FlushBlock

\* The same when a message is queued first.
LEMMA SendFlushKeeps ==
  ASSUME NEW k, IsBlock(k), NEW msg \in Message, NEW n \in Nat, NEW k2,
         k2 = ikcp_flush(ikcp_send(k, msg, n))
  PROVE  /\ IsBlock(k2) /\ k2.log = ikcp_send(k, msg, n).log
         /\ SameReceiver(k, k2)
<1>1. IsBlock(ikcp_send(k, msg, n))
  BY SendBlock
<1>2. SameReceiver(k, ikcp_send(k, msg, n))
  BY DEF ikcp_send, IsBlock, SameReceiver
<1> QED
  BY <1>1, <1>2, FlushKeeps DEF SameReceiver

\* A step that a session takes of its own, as each direction sees it.
HomeActs ==
  /\ IsBlock(hKcp') /\ SameReceiver(hKcp, hKcp')
  /\ SenderStep(hKcp, toRemote, hRd, hChunks,
                hKcp', toRemote', hRd', hChunks')
  /\ WriterStep(hDeque, hWr, hClose, clientGot,
                hDeque', hWr', hClose', clientGot')
RemoteActs ==
  /\ IsBlock(rKcp') /\ SameReceiver(rKcp, rKcp')
  /\ SenderStep(rKcp, toHome, rRd, rChunks,
                rKcp', toHome', rRd', rChunks')
  /\ WriterStep(rDeque, rWr, rClose, targetGot,
                rDeque', rWr', rClose', targetGot')

\* Each handler of server/session.cpp is such a step.
LEMMA HomeLocal ==
  ASSUME IsBlock(hKcp), hChunks \in Nat, Home!Local
  PROVE  HomeActs
<1>1. SameReceiver(hKcp, hKcp)
  BY DEF SameReceiver
<1>2. CASE Home!start
  <2>1. /\ hKcp' = ikcp_flush(ikcp_send(hKcp, NewSession, 1))
        /\ toRemote' = toRemote
                         \cup FlushOutput(ikcp_send(hKcp, NewSession, 1))
        /\ hRd' = Home!StartOp(hRd)
        /\ hDeque' = hDeque /\ hWr' = hWr /\ hClose' = hClose
        /\ clientGot' = clientGot /\ hChunks' = hChunks
    BY <1>2, HomeKcp DEF Home!start, Home!FlushKcp
  <2>2. NewSession \in Message /\ 1 \in Nat \ {0}
    BY DEF NewSession, Message
  <2>3. IdleRead(hRd, hRd')
    BY <2>1 DEF Home!StartOp, IdleRead
  <2>4. /\ IsBlock(hKcp') /\ SameReceiver(hKcp, hKcp')
        /\ hKcp'.log = ikcp_send(hKcp, NewSession, 1).log
    BY <2>1, <2>2, SendFlushKeeps
  <2>5. Sends(hKcp, toRemote, hRd, hChunks, hKcp', toRemote', hRd', hChunks')
    BY <2>1, <2>2, <2>3, <2>4 DEF Sends
  <2> QED
    BY <2>1, <2>4, <2>5 DEF HomeActs, SenderStep, WriterStep
<1>3. CASE Home!readCompletes
  <2>1. /\ hKcp' = hKcp /\ toRemote' = toRemote
        /\ hDeque' = hDeque /\ hWr' = hWr /\ hClose' = hClose
        /\ clientGot' = clientGot /\ hRd = "pending"
        /\ \/ hRd' = "ok" /\ hChunks' = hChunks + 1
           \/ hRd' = "err" /\ hChunks' = hChunks
    BY <1>3 DEF Home!readCompletes, Home!ReadFails
  <2> QED
    BY <1>1, <2>1 DEF HomeActs, SenderStep, WriterStep, TakesChunk,
                      SendsNothing, IdleRead
<1>4. CASE Home!receiveTcpFromWifiCilentMessage /\ hRd = "err"
  <2>1. /\ hKcp' = hKcp /\ toRemote' = toRemote /\ hChunks' = hChunks
        /\ clientGot' = clientGot /\ hRd' = "none"
        /\ hClose'
        /\ (hClose /\ hWr' = hWr) \/ hWr' = Home!Cancel(hWr)
    BY <1>4 DEF Home!receiveTcpFromWifiCilentMessage, Home!closeSession,
                Home!Cancel
  <2>2. hWr' # "pending" \/ (hClose /\ hWr' = hWr)
    BY <2>1 DEF Home!Cancel
  <2> QED
    BY <1>1, <1>4, <2>1, <2>2 DEF HomeActs, SenderStep, WriterStep,
                                  SendsNothing, IdleRead
<1>5. CASE Home!receiveTcpFromWifiCilentMessage /\ hRd = "ok"
  <2>1. PICK n \in 1 .. MaxFrags :
          /\ hKcp' = ikcp_flush(ikcp_send(hKcp, Normal(hChunks), n))
          /\ toRemote' = toRemote
                \cup FlushOutput(ikcp_send(hKcp, Normal(hChunks), n))
          /\ hRd' = "none" \/ hRd' = Home!StartOp("none")
          /\ hDeque' = hDeque /\ hWr' = hWr /\ hClose' = hClose
          /\ clientGot' = clientGot /\ hChunks' = hChunks
    BY <1>5, HomeKcp DEF Home!receiveTcpFromWifiCilentMessage, Home!FlushKcp,
                         Home!checkTrafficStatus
  <2>2. Normal(hChunks) \in Message /\ n \in Nat \ {0}
    BY TunnelAssumption DEF Normal, Message
  <2>3. hRd' # "ok"
    BY <2>1 DEF Home!StartOp
  <2>4. /\ IsBlock(hKcp') /\ SameReceiver(hKcp, hKcp')
        /\ hKcp'.log = ikcp_send(hKcp, Normal(hChunks), n).log
    BY <2>1, <2>2, SendFlushKeeps
  <2>5. Sends(hKcp, toRemote, hRd, hChunks, hKcp', toRemote', hRd', hChunks')
    BY <1>5, <2>1, <2>2, <2>3, <2>4 DEF Sends
  <2> QED
    BY <2>1, <2>4, <2>5 DEF HomeActs, SenderStep, WriterStep
<1>6. CASE Home!writeCompletes
  <2>1. /\ hKcp' = hKcp /\ toRemote' = toRemote /\ hRd' = hRd
        /\ hChunks' = hChunks /\ hDeque' = hDeque /\ hClose' = hClose
        /\ hWr = "pending"
        /\ \/ hWr' = "ok" /\ clientGot' = Append(clientGot, Head(hDeque))
           \/ hWr' = "err" /\ clientGot' = clientGot
    BY <1>6 DEF Home!writeCompletes
  <2>2. WriterStep(hDeque, hWr, hClose, clientGot,
                   hDeque', hWr', hClose', clientGot')
    BY <2>1 DEF WriterStep
  <2> QED
    BY <1>1, <2>1, <2>2 DEF HomeActs, SenderStep, SendsNothing, IdleRead
<1>7. CASE Home!sendTcpToWifiClientMessage
  <2>1. /\ hKcp' = hKcp /\ toRemote' = toRemote /\ hChunks' = hChunks
        /\ clientGot' = clientGot
    BY <1>7 DEF Home!sendTcpToWifiClientMessage
  <2>2. CASE hWr = "err"
    <3>1. hClose' /\ hWr' = "none" /\ (hRd' = hRd \/ hRd' = Home!Cancel(hRd))
      BY <1>7, <2>2 DEF Home!sendTcpToWifiClientMessage, Home!closeSession,
                        Home!Cancel
    <3>2. IdleRead(hRd, hRd')
      BY <3>1 DEF Home!Cancel, IdleRead
    <3> QED
      BY <1>1, <2>1, <3>1, <3>2 DEF HomeActs, SenderStep, WriterStep,
                                    SendsNothing
  <2>3. CASE hWr = "ok"
    <3>1. /\ hDeque' = Home!AfterWrite
          /\ hWr' = Home!NextWrite(Home!AfterWrite)
          /\ hClose' = hClose /\ hRd' = hRd
      BY <1>7, <2>3 DEF Home!sendTcpToWifiClientMessage
    <3>2. WriterStep(hDeque, hWr, hClose, clientGot,
                     hDeque', hWr', hClose', clientGot')
      <4>1. CASE hClose
        BY <2>1, <3>1, <4>1 DEF Home!AfterWrite, Home!NextWrite, WriterStep
      <4>2. CASE ~ hClose
        BY <2>1, <2>3, <3>1, <4>2 DEF Home!AfterWrite, Home!NextWrite,
                                      Home!StartOp, WriterStep
      <4> QED
        BY <4>1, <4>2
    <3> QED
      BY <1>1, <2>1, <3>1, <3>2 DEF HomeActs, SenderStep, SendsNothing,
                                    IdleRead
  <2> QED
    BY <1>7, <2>2, <2>3 DEF Home!sendTcpToWifiClientMessage
<1>8. CASE Home!driveSessionTimeClock
  <2>1. /\ hKcp' = ikcp_flush(hKcp)
        /\ toRemote' = toRemote \cup FlushOutput(hKcp)
        /\ hRd' = hRd /\ hChunks' = hChunks
        /\ hDeque' = hDeque /\ hWr' = hWr /\ hClose' = hClose
        /\ clientGot' = clientGot
    BY <1>8, HomeKcp DEF Home!driveSessionTimeClock, Home!FlushKcp
  <2>2. /\ IsBlock(hKcp') /\ SameReceiver(hKcp, hKcp')
        /\ hKcp'.log = hKcp.log
    BY <2>1, FlushKeeps
  <2>3. SendsNothing(hKcp, toRemote, hRd, hChunks,
                     hKcp', toRemote', hRd', hChunks')
    BY <2>1, <2>2 DEF SendsNothing, IdleRead
  <2> QED
    BY <2>1, <2>2, <2>3 DEF HomeActs, SenderStep, WriterStep
<1> QED
  BY <1>2, <1>3, <1>4, <1>5, <1>6, <1>7, <1>8
     DEF Home!Local, Home!receiveTcpFromWifiCilentMessage

\* A datagram changes what a session sends only by the acks it owes.
LEMMA HomeInput ==
  ASSUME NEW d, Home!inputToKcp(d)
  PROVE  /\ toRemote' = toRemote /\ hChunks' = hChunks
         /\ hClose' = hClose /\ clientGot' = clientGot
         /\ \/ /\ hKcp' = hKcp /\ hRd' = hRd /\ hDeque' = hDeque /\ hWr' = hWr
            \/ /\ ~ hClose /\ IdleRead(hRd, hRd')
               /\ InputStep(hKcp, d, hDeque, hWr, hKcp', hDeque', hWr')
<1>1. /\ toRemote' = toRemote /\ hChunks' = hChunks
      /\ hClose' = hClose /\ clientGot' = clientGot
  BY DEF Home!inputToKcp
<1>2. CASE hClose
  BY <1>1, <1>2 DEF Home!inputToKcp
<1>3. CASE ~ hClose
  <2> DEFINE i == ikcp_input(hKcp, d)
             data == DataAt(i.rcvQueue, EndsOf(i.rcvQueue, "normal"))
  <2>1. /\ Home!tryToReadFromKcp(i)
        /\ hRd' = hRd \/ hRd' = Home!StartOp(hRd)
    BY <1>3, HomeKcp DEF Home!inputToKcp
  <2>2. IdleRead(hRd, hRd')
    BY <2>1 DEF Home!StartOp, IdleRead
  <2>3. /\ hDeque' = hDeque \o data /\ hKcp' = ikcp_recvAll(i)
        /\ hWr' = IF hDeque = << >> /\ data # << >>
                    THEN Home!StartOp(hWr) ELSE hWr
    BY <2>1, HomeKcp DEF Home!tryToReadFromKcp
  <2> HIDE DEF data
  <2>4. \/ hWr' \in {hWr, "overlap"}
        \/ hWr = "none" /\ data # << >> /\ hWr' = "pending"
    BY <1>3, <2>3 DEF Home!StartOp
  <2> QED
    BY <1>1, <1>3, <2>2, <2>3, <2>4 DEF InputStep, data
<1> QED
  BY <1>2, <1>3

\* Each handler of remoteVps/session.cpp is such a step.
LEMMA RemoteLocal ==
  ASSUME IsBlock(rKcp), rChunks \in Nat, Remote!Local,
         ~ rClose /\ rWr = "ok" => rDeque # << >>
  PROVE  RemoteActs
<1>1. SameReceiver(rKcp, rKcp)
  BY DEF SameReceiver
<1>2. CASE Remote!connectCompletes
  <2>1. /\ rKcp' = rKcp /\ toHome' = toHome /\ rChunks' = rChunks
        /\ rRd' = rRd /\ rDeque' = rDeque /\ rWr' = rWr /\ rClose' = rClose
        /\ targetGot' = targetGot
    BY <1>2 DEF Remote!connectCompletes
  <2> QED
    BY <1>1, <2>1 DEF RemoteActs, SenderStep, WriterStep, SendsNothing,
                      IdleRead
<1>3. CASE Remote!handShakeWithtargetServer
  <2>1. /\ rKcp' = rKcp /\ toHome' = toHome /\ rChunks' = rChunks
        /\ rDeque' = rDeque /\ rClose' = rClose /\ targetGot' = targetGot
        /\ rRd' = rRd \/ rRd' = Remote!StartOp(rRd)
        /\ \/ rWr' = rWr
           \/ rDeque # << >> /\ rWr' = Remote!StartOp(rWr)
    BY <1>3 DEF Remote!handShakeWithtargetServer
  <2>2. IdleRead(rRd, rRd')
    BY <2>1 DEF Remote!StartOp, IdleRead
  <2>3. WriterStep(rDeque, rWr, rClose, targetGot,
                   rDeque', rWr', rClose', targetGot')
    <3>1. CASE rWr' = rWr
      BY <2>1, <3>1 DEF WriterStep
    <3>2. CASE rDeque # << >> /\ rWr' = Remote!StartOp(rWr) /\ rClose
      BY <2>1, <3>2 DEF Remote!StartOp, WriterStep
    <3>3. CASE rDeque # << >> /\ rWr' = Remote!StartOp(rWr) /\ ~ rClose
      BY <2>1, <3>3 DEF Remote!StartOp, WriterStep
    <3> QED
      BY <2>1, <3>1, <3>2, <3>3
  <2> QED
    BY <1>1, <2>1, <2>2, <2>3 DEF RemoteActs, SenderStep, SendsNothing
<1>4. CASE Remote!readCompletes
  <2>1. /\ rKcp' = rKcp /\ toHome' = toHome
        /\ rDeque' = rDeque /\ rWr' = rWr /\ rClose' = rClose
        /\ targetGot' = targetGot /\ rRd = "pending"
        /\ \/ rRd' = "ok" /\ rChunks' = rChunks + 1
           \/ rRd' = "err" /\ rChunks' = rChunks
    BY <1>4 DEF Remote!readCompletes, Remote!ReadFails
  <2> QED
    BY <1>1, <2>1 DEF RemoteActs, SenderStep, WriterStep, TakesChunk,
                      SendsNothing, IdleRead
<1>5. CASE Remote!receiveTcpFromTargetServerMessage /\ rRd = "err"
  <2>1. /\ rKcp' = rKcp /\ toHome' = toHome /\ rChunks' = rChunks
        /\ targetGot' = targetGot /\ rRd' = "none"
        /\ rClose'
        /\ (rClose /\ rWr' = rWr) \/ rWr' = Remote!Cancel(rWr)
    BY <1>5 DEF Remote!receiveTcpFromTargetServerMessage,
                Remote!closeSession, Remote!Cancel
  <2>2. rWr' # "pending" \/ (rClose /\ rWr' = rWr)
    BY <2>1 DEF Remote!Cancel
  <2> QED
    BY <1>1, <1>5, <2>1, <2>2 DEF RemoteActs, SenderStep, WriterStep,
                                  SendsNothing, IdleRead
<1>6. CASE Remote!receiveTcpFromTargetServerMessage /\ rRd = "ok"
  <2>1. PICK n \in 1 .. MaxFrags :
          /\ rKcp' = ikcp_flush(ikcp_send(rKcp, Normal(rChunks), n))
          /\ toHome' = toHome
                         \cup FlushOutput(ikcp_send(rKcp, Normal(rChunks), n))
          /\ rRd' = "none" \/ rRd' = Remote!StartOp("none")
          /\ rDeque' = rDeque /\ rWr' = rWr /\ rClose' = rClose
          /\ targetGot' = targetGot /\ rChunks' = rChunks
    BY <1>6, RemoteKcp DEF Remote!receiveTcpFromTargetServerMessage,
                           Remote!FlushKcp, Remote!checkTrafficStatus
  <2>2. Normal(rChunks) \in Message /\ n \in Nat \ {0}
    BY TunnelAssumption DEF Normal, Message
  <2>3. rRd' # "ok"
    BY <2>1 DEF Remote!StartOp
  <2>4. /\ IsBlock(rKcp') /\ SameReceiver(rKcp, rKcp')
        /\ rKcp'.log = ikcp_send(rKcp, Normal(rChunks), n).log
    BY <2>1, <2>2, SendFlushKeeps
  <2>5. Sends(rKcp, toHome, rRd, rChunks, rKcp', toHome', rRd', rChunks')
    BY <1>6, <2>1, <2>2, <2>3, <2>4 DEF Sends
  <2> QED
    BY <2>1, <2>4, <2>5 DEF RemoteActs, SenderStep, WriterStep
<1>7. CASE Remote!writeCompletes
  <2>1. /\ rKcp' = rKcp /\ toHome' = toHome /\ rRd' = rRd
        /\ rChunks' = rChunks /\ rDeque' = rDeque /\ rClose' = rClose
        /\ rWr = "pending"
        /\ \/ rWr' = "ok" /\ targetGot' = Append(targetGot, Head(rDeque))
           \/ rWr' = "err" /\ targetGot' = targetGot
    BY <1>7 DEF Remote!writeCompletes
  <2>2. WriterStep(rDeque, rWr, rClose, targetGot,
                   rDeque', rWr', rClose', targetGot')
    BY <2>1 DEF WriterStep
  <2> QED
    BY <1>1, <2>1, <2>2 DEF RemoteActs, SenderStep, SendsNothing, IdleRead
<1>8. CASE Remote!sendTcpToTargetServerMessage
  <2>1. /\ rKcp' = rKcp /\ toHome' = toHome /\ rChunks' = rChunks
        /\ targetGot' = targetGot
    BY <1>8 DEF Remote!sendTcpToTargetServerMessage
  <2>2. CASE rWr = "err"
    <3>1. rClose' /\ rWr' = "none" /\ (rRd' = rRd \/ rRd' = Remote!Cancel(rRd))
      BY <1>8, <2>2 DEF Remote!sendTcpToTargetServerMessage,
                        Remote!closeSession, Remote!Cancel
    <3>2. IdleRead(rRd, rRd')
      BY <3>1 DEF Remote!Cancel, IdleRead
    <3> QED
      BY <1>1, <2>1, <3>1, <3>2 DEF RemoteActs, SenderStep, WriterStep,
                                    SendsNothing
  <2>3. CASE rWr = "ok"
    <3>1. rClose' = rClose /\ rRd' = rRd
      BY <1>8, <2>3 DEF Remote!sendTcpToTargetServerMessage
    <3>2. WriterStep(rDeque, rWr, rClose, targetGot,
                     rDeque', rWr', rClose', targetGot')
      <4>1. CASE rClose
        <5>1. Remote!Uncleared = << >>
          BY <4>1 DEF Remote!Uncleared
        <5>2. rWr' = "none"
          BY <1>8, <2>3, <5>1 DEF Remote!sendTcpToTargetServerMessage
        <5> QED
          BY <2>1, <3>1, <4>1, <5>2 DEF WriterStep
      <4>2. CASE ~ rClose
        <5>1. Remote!Uncleared = rDeque /\ rDeque # << >>
          BY <2>3, <4>2 DEF Remote!Uncleared
        <5>2. rDeque' = Tail(rDeque) /\ rWr' = Remote!NextWrite(Tail(rDeque))
          BY <1>8, <2>3, <5>1 DEF Remote!sendTcpToTargetServerMessage
        <5> QED
          BY <2>1, <2>3, <3>1, <4>2, <5>2
             DEF Remote!NextWrite, Remote!StartOp, WriterStep
      <4> QED
        BY <4>1, <4>2
    <3> QED
      BY <1>1, <2>1, <3>1, <3>2 DEF RemoteActs, SenderStep, SendsNothing,
                                    IdleRead
  <2> QED
    BY <1>8, <2>2, <2>3 DEF Remote!sendTcpToTargetServerMessage
<1>9. CASE Remote!driveSessionTimeClock
  <2>1. /\ rKcp' = ikcp_flush(rKcp)
        /\ toHome' = toHome \cup FlushOutput(rKcp)
        /\ rRd' = rRd /\ rChunks' = rChunks
        /\ rDeque' = rDeque /\ rWr' = rWr /\ rClose' = rClose
        /\ targetGot' = targetGot
    BY <1>9, RemoteKcp DEF Remote!driveSessionTimeClock, Remote!FlushKcp
  <2>2. /\ IsBlock(rKcp') /\ SameReceiver(rKcp, rKcp')
        /\ rKcp'.log = rKcp.log
    BY <2>1, FlushKeeps
  <2>3. SendsNothing(rKcp, toHome, rRd, rChunks,
                     rKcp', toHome', rRd', rChunks')
    BY <2>1, <2>2 DEF SendsNothing, IdleRead
  <2> QED
    BY <2>1, <2>2, <2>3 DEF RemoteActs, SenderStep, WriterStep
<1> QED
  BY <1>2, <1>3, <1>4, <1>5, <1>6, <1>7, <1>8, <1>9
     DEF Remote!Local, Remote!receiveTcpFromTargetServerMessage

\* The same of worker::listen and the inputToKcp that it calls.
LEMMA RemoteInput ==
  ASSUME NEW d, Remote!listen(d)
  PROVE  /\ toHome' = toHome /\ rChunks' = rChunks
         /\ rClose' = rClose /\ targetGot' = targetGot
         /\ \/ /\ rKcp' = rKcp /\ rRd' = rRd /\ rDeque' = rDeque /\ rWr' = rWr
            \/ /\ ~ rClose /\ IdleRead(rRd, rRd')
               /\ InputStep(rKcp, d, rDeque, rWr, rKcp', rDeque', rWr')
<1>1. /\ toHome' = toHome /\ rChunks' = rChunks
      /\ rClose' = rClose /\ targetGot' = targetGot
  BY DEF Remote!listen
<1>2. CASE rClose
  BY <1>1, <1>2 DEF Remote!listen
<1>3. CASE ~ rClose
  <2> DEFINE i == ikcp_input(rKcp, d)
             data == DataAt(i.rcvQueue, EndsOf(i.rcvQueue, "normal"))
  <2>1. /\ Remote!tryToReadFromKcp(i)
        /\ rRd' = rRd \/ rRd' = Remote!StartOp(rRd)
    BY <1>3, RemoteKcp DEF Remote!listen
  <2>2. IdleRead(rRd, rRd')
    BY <2>1 DEF Remote!StartOp, IdleRead
  <2>3. /\ rDeque' = rDeque \o data /\ rKcp' = ikcp_recvAll(i)
        /\ rWr' = IF Remote!BeginsWrite(data)
                    THEN Remote!StartOp(rWr) ELSE rWr
    BY <2>1, RemoteKcp DEF Remote!tryToReadFromKcp
  <2> HIDE DEF data
  <2>4. \/ rWr' \in {rWr, "overlap"}
        \/ rWr = "none" /\ data # << >> /\ rWr' = "pending"
    BY <1>3, <2>3 DEF Remote!BeginsWrite, Remote!StartOp
  <2> QED
    BY <1>1, <1>3, <2>2, <2>3, <2>4 DEF InputStep, data
<1> QED
  BY <1>2, <1>3
-----------------------------------------------------------------------------
\* What the relay lets one direction do.
RelayStep(chunks, got, chunks2, got2) ==
  \/ chunks2 = chunks + 1 /\ got2 = got
  \/ Len(got) < chunks /\ got2 = Append(got, Len(got) + 1) /\ chunks2 = chunks
  \/ chunks2 = chunks /\ got2 = got

\* Two new sessions with an empty network are a flow.
LEMMA FlowStarts ==
  Flow(ikcp_create, {}, "none", 0,
       ikcp_create, << >>, "none", FALSE, << >>)
<1> DEFINE log == ikcp_create.log
<1>1. log = << >> /\ log \in Seq(Entry) /\ Len(log) = 0
  BY DEF ikcp_create
<1>2. Ends(log) = {}
  <2> HIDE DEF log
  <2> QED
    BY <1>1 DEF Ends
<1>3. Cardinality(Ends(log)) = 0
  BY <1>2, FS_EmptySet
<1>4. Numbered(log)
  BY <1>2 DEF Numbered
<1>5. Taken(Cardinality(Ends(log)), "none", 0)
  BY <1>3 DEF Taken
<1>6. ikcp_create.rcvNxt = 1 /\ ikcp_create.rcvQueue = << >>
      /\ ikcp_create.rcvBuf = {} /\ Len(ikcp_create.rcvQueue) = 0
  BY DEF ikcp_create
<1>7. Consumed(ikcp_create) = 0
  <2>1. ikcp_create.rcvNxt = 1 /\ Len(ikcp_create.rcvQueue) = 0
    BY <1>6
  <2> QED
    BY <2>1, SMT DEF Consumed
<1>8. Reads(log, ikcp_create)
  BY <1>1, <1>6 DEF Reads
<1>9. Arrived(log, ikcp_create) = 0
  <2>1. {e \in Ends(log) : e <= 0} = {}
    BY <1>2
  <2> QED
    BY <1>7, <2>1, FS_EmptySet DEF Arrived, Rank
<1>10. Writer(0, << >>, "none", FALSE, << >>)
  BY DEF Writer, Queue
<1> QED
  BY <1>4, <1>5, <1>8, <1>9, <1>10, CreateBlock DEF Flow, Carries

\* The invariant holds at first.
LEMMA TunnelInit == Init => TunnelInv
BY FlowStarts, HomeKcp, RemoteKcp
   DEF Init, Home!Init, Remote!Init, TunnelInv

\* A datagram that the network no longer has.
LEMMA LossKeeps ==
  ASSUME NEW s, NEW out, NEW rd, NEW chunks, NEW k, NEW deque, NEW wr,
         NEW closed, NEW got, NEW out2 \in SUBSET out,
         Flow(s, out, rd, chunks, k, deque, wr, closed, got)
  PROVE  Flow(s, out2, rd, chunks, k, deque, wr, closed, got)
BY DEF Flow, Carries

\* What a step of the tunnel keeps, and what it is for each direction.
StepGoal ==
  /\ TunnelInv'
  /\ RelayStep(hChunks, targetGot, hChunks', targetGot')
  /\ RelayStep(rChunks, clientGot, rChunks', clientGot')

\* A step of the home session feeds one flow and drains the other.
LEMMA HomeKeeps ==
  ASSUME TunnelInv, HomeStep
  PROVE  StepGoal
<1>1. /\ IsBlock(hKcp) /\ hChunks \in Nat
      /\ rKcp' = rKcp /\ rDeque' = rDeque /\ rWr' = rWr /\ rClose' = rClose
      /\ targetGot' = targetGot /\ toHome' = toHome /\ rRd' = rRd
      /\ rChunks' = rChunks
  BY DEF TunnelInv, Flow, Taken, HomeStep, remoteVars
<1>2. HomeActs
  BY <1>1, HomeLocal DEF HomeStep
<1>3. Flow(hKcp', toRemote', hRd', hChunks',
           rKcp, rDeque, rWr, rClose, targetGot)
  BY <1>2, SenderKeeps DEF TunnelInv, HomeActs
<1>4. /\ Flow(rKcp, toHome, rRd, rChunks,
              hKcp', hDeque', hWr', hClose', clientGot')
      /\ DeliversNext(rChunks, clientGot, clientGot')
  BY <1>2, DrainKeeps DEF TunnelInv, HomeActs
<1>5. hChunks' = hChunks \/ hChunks' = hChunks + 1
  BY <1>2 DEF HomeActs, SenderStep, SendsNothing, TakesChunk, Sends
<1> QED
  BY <1>1, <1>3, <1>4, <1>5 DEF StepGoal, TunnelInv, RelayStep, DeliversNext

\* A step of the remote session does so the other way round.
LEMMA RemoteKeeps ==
  ASSUME TunnelInv, RemoteStep
  PROVE  StepGoal
<1>1. /\ IsBlock(rKcp) /\ rChunks \in Nat
      /\ ~ rClose /\ rWr = "ok" => rDeque # << >>
      /\ hKcp' = hKcp /\ hDeque' = hDeque /\ hWr' = hWr /\ hClose' = hClose
      /\ clientGot' = clientGot /\ toRemote' = toRemote /\ hRd' = hRd
      /\ hChunks' = hChunks
  BY DEF TunnelInv, Flow, Taken, Writer, RemoteStep, homeVars
<1>2. RemoteActs
  BY <1>1, RemoteLocal DEF RemoteStep
<1>3. Flow(rKcp', toHome', rRd', rChunks',
           hKcp, hDeque, hWr, hClose, clientGot)
  BY <1>2, SenderKeeps DEF TunnelInv, RemoteActs
<1>4. /\ Flow(hKcp, toRemote, hRd, hChunks,
              rKcp', rDeque', rWr', rClose', targetGot')
      /\ DeliversNext(hChunks, targetGot, targetGot')
  BY <1>2, DrainKeeps DEF TunnelInv, RemoteActs
<1>5. rChunks' = rChunks \/ rChunks' = rChunks + 1
  BY <1>2 DEF RemoteActs, SenderStep, SendsNothing, TakesChunk, Sends
<1> QED
  BY <1>1, <1>3, <1>4, <1>5 DEF StepGoal, TunnelInv, RelayStep, DeliversNext

\* A delivery to the home session feeds the flow from the remote one.
LEMMA ToHomeKeeps ==
  ASSUME TunnelInv, NEW d, ToHome(d)
  PROVE  StepGoal
<1>1. /\ d \in toHome /\ toHome' \in SUBSET toHome /\ Home!inputToKcp(d)
      /\ rKcp' = rKcp /\ rDeque' = rDeque /\ rWr' = rWr /\ rClose' = rClose
      /\ targetGot' = targetGot /\ rRd' = rRd /\ rChunks' = rChunks
  BY DEF ToHome, remoteVars
<1>2. /\ toRemote' = toRemote /\ hChunks' = hChunks
      /\ hClose' = hClose /\ clientGot' = clientGot
  BY <1>1, HomeInput
<1>3. CASE hKcp' = hKcp /\ hRd' = hRd /\ hDeque' = hDeque /\ hWr' = hWr
  <2>1. Flow(rKcp, toHome', rRd, rChunks, hKcp, hDeque, hWr, hClose, clientGot)
    BY <1>1, LossKeeps DEF TunnelInv
  <2> QED
    BY <1>1, <1>2, <1>3, <2>1 DEF StepGoal, TunnelInv, RelayStep
<1>4. CASE /\ ~ hClose /\ IdleRead(hRd, hRd')
           /\ InputStep(hKcp, d, hDeque, hWr, hKcp', hDeque', hWr')
  <2>1. /\ Flow(rKcp, toHome, rRd, rChunks,
                hKcp', hDeque', hWr', hClose, clientGot)
        /\ IsBlock(hKcp') /\ hKcp'.log = hKcp.log
    BY <1>1, <1>4, InputKeeps DEF TunnelInv
  <2>2. Flow(rKcp, toHome', rRd, rChunks,
             hKcp', hDeque', hWr', hClose, clientGot)
    BY <1>1, <2>1, LossKeeps
  <2>3. SenderStep(hKcp, toRemote, hRd, hChunks,
                   hKcp', toRemote', hRd', hChunks')
    BY <1>2, <1>4, <2>1 DEF SenderStep, SendsNothing
  <2>4. Flow(hKcp', toRemote', hRd', hChunks',
             rKcp, rDeque, rWr, rClose, targetGot)
    BY <2>1, <2>3, SenderKeeps DEF TunnelInv
  <2> QED
    BY <1>1, <1>2, <2>2, <2>4 DEF StepGoal, TunnelInv, RelayStep
<1> QED
  BY <1>1, <1>3, <1>4, HomeInput

\* A delivery to the remote session feeds the flow from the home one.
LEMMA ToRemoteKeeps ==
  ASSUME TunnelInv, NEW d, ToRemote(d)
  PROVE  StepGoal
<1>1. /\ d \in toRemote /\ toRemote' \in SUBSET toRemote /\ Remote!listen(d)
      /\ hKcp' = hKcp /\ hDeque' = hDeque /\ hWr' = hWr /\ hClose' = hClose
      /\ clientGot' = clientGot /\ hRd' = hRd /\ hChunks' = hChunks
  BY DEF ToRemote, homeVars
<1>2. /\ toHome' = toHome /\ rChunks' = rChunks
      /\ rClose' = rClose /\ targetGot' = targetGot
  BY <1>1, RemoteInput
<1>3. CASE rKcp' = rKcp /\ rRd' = rRd /\ rDeque' = rDeque /\ rWr' = rWr
  <2>1. Flow(hKcp, toRemote', hRd, hChunks,
             rKcp, rDeque, rWr, rClose, targetGot)
    BY <1>1, LossKeeps DEF TunnelInv
  <2> QED
    BY <1>1, <1>2, <1>3, <2>1 DEF StepGoal, TunnelInv, RelayStep
<1>4. CASE /\ ~ rClose /\ IdleRead(rRd, rRd')
           /\ InputStep(rKcp, d, rDeque, rWr, rKcp', rDeque', rWr')
  <2>1. /\ Flow(hKcp, toRemote, hRd, hChunks,
                rKcp', rDeque', rWr', rClose, targetGot)
        /\ IsBlock(rKcp') /\ rKcp'.log = rKcp.log
    BY <1>1, <1>4, InputKeeps DEF TunnelInv
  <2>2. Flow(hKcp, toRemote', hRd, hChunks,
             rKcp', rDeque', rWr', rClose, targetGot)
    BY <1>1, <2>1, LossKeeps
  <2>3. SenderStep(rKcp, toHome, rRd, rChunks,
                   rKcp', toHome', rRd', rChunks')
    BY <1>2, <1>4, <2>1 DEF SenderStep, SendsNothing
  <2>4. Flow(rKcp', toHome', rRd', rChunks',
             hKcp, hDeque, hWr, hClose, clientGot)
    BY <2>1, <2>3, SenderKeeps DEF TunnelInv
  <2> QED
    BY <1>1, <1>2, <2>2, <2>4 DEF StepGoal, TunnelInv, RelayStep
<1> QED
  BY <1>1, <1>3, <1>4, RemoteInput

\* Every step keeps both flows, and is a step of either relay or a stutter.
LEMMA TunnelStep ==
  ASSUME TunnelInv, [Next]_vars
  PROVE  StepGoal
<1>1. CASE HomeStep
  BY <1>1, HomeKeeps
<1>2. CASE RemoteStep
  BY <1>2, RemoteKeeps
<1>3. CASE \E d \in HomeDatagram : ToRemote(d)
  BY <1>3, ToRemoteKeeps
<1>4. CASE \E d \in RemoteDatagram : ToHome(d)
  BY <1>4, ToHomeKeeps
<1>5. CASE Lose \/ UNCHANGED vars
  <2>1. /\ toRemote' \in SUBSET toRemote /\ toHome' \in SUBSET toHome
        /\ UNCHANGED <<homeVars, remoteVars>>
    BY <1>5 DEF Lose, vars
  <2>2. /\ hKcp' = hKcp /\ hRd' = hRd /\ hChunks' = hChunks
        /\ hDeque' = hDeque /\ hWr' = hWr /\ hClose' = hClose
        /\ clientGot' = clientGot
        /\ rKcp' = rKcp /\ rRd' = rRd /\ rChunks' = rChunks
        /\ rDeque' = rDeque /\ rWr' = rWr /\ rClose' = rClose
        /\ targetGot' = targetGot
    BY <2>1 DEF homeVars, remoteVars
  <2>3. /\ Flow(hKcp, toRemote', hRd, hChunks,
                rKcp, rDeque, rWr, rClose, targetGot)
        /\ Flow(rKcp, toHome', rRd, rChunks,
                hKcp, hDeque, hWr, hClose, clientGot)
    BY <2>1, LossKeeps DEF TunnelInv
  <2> QED
    BY <2>2, <2>3 DEF StepGoal, TunnelInv, RelayStep
<1> QED
  BY <1>1, <1>2, <1>3, <1>4, <1>5 DEF Next

\* The deque, the block and the datagrams of either direction only hold
\* chunks that were taken, in their order (server/session.cpp and
\* remoteVps/session.cpp: tryToReadFromKcp and the two TCP handlers).
THEOREM FlowIsKept == Spec => []TunnelInv
<1>1. TunnelInv /\ [Next]_vars => TunnelInv'
  BY TunnelStep DEF StepGoal
<1> QED
  BY TunnelInit, <1>1, PTL DEF Spec

\* The target server gets the chunks of the WiFi client in order, each once
\* and none invented, whatever is lost, duplicated, reordered, closed or
\* fails: the upward half of the tunnel implements the relay.
THEOREM UpRelaysHolds == Spec => UpRelays
<1>1. Init => Up!Init
  BY DEF Init, Home!Init, Remote!Init, Up!Init
<1>2. TunnelInv /\ [Next]_vars => [Up!Next]_(Up!vars)
  <2> SUFFICES ASSUME TunnelInv, [Next]_vars
               PROVE  Up!Next \/ UNCHANGED Up!vars
    OBVIOUS
  <2>1. RelayStep(hChunks, targetGot, hChunks', targetGot')
    BY TunnelStep DEF StepGoal
  <2> QED
    BY <2>1 DEF RelayStep, Up!Next, Up!Accept, Up!Deliver, Up!vars
<1> QED
  BY FlowIsKept, <1>1, <1>2, PTL DEF Spec, UpRelays, Up!SafeSpec

\* The WiFi client gets the chunks of the target server likewise.
THEOREM DownRelaysHolds == Spec => DownRelays
<1>1. Init => Down!Init
  BY DEF Init, Home!Init, Remote!Init, Down!Init
<1>2. TunnelInv /\ [Next]_vars => [Down!Next]_(Down!vars)
  <2> SUFFICES ASSUME TunnelInv, [Next]_vars
               PROVE  Down!Next \/ UNCHANGED Down!vars
    OBVIOUS
  <2>1. RelayStep(rChunks, clientGot, rChunks', clientGot')
    BY TunnelStep DEF StepGoal
  <2> QED
    BY <2>1 DEF RelayStep, Down!Next, Down!Accept, Down!Deliver, Down!vars
<1> QED
  BY FlowIsKept, <1>1, <1>2, PTL DEF Spec, DownRelays, Down!SafeSpec
-----------------------------------------------------------------------------
\* The theorems about one session and any peer, with the other session of the
\* tunnel for the peer.
HomeProofs == INSTANCE HomeSessionProofs WITH
  MaxChunks <- HomeChunks, PeerDatagram <- RemoteDatagram,
  kcp_ <- hKcp, sessionClose_ <- hClose, trafficBusy_ <- hBusy,
  currentCmdStatus_ <- hCmd, tcpDataWaitForSendDeque_ <- hDeque,
  inSessionMap <- hInMap, mounted <- hMounted, rd <- hRd, wr <- hWr,
  chunks <- hChunks
RemoteProofs == INSTANCE RemoteSessionProofs WITH
  MaxChunks <- RemoteChunks, PeerDatagram <- HomeDatagram,
  kcp_ <- rKcp, sessionClose_ <- rClose, trafficBusy_ <- rBusy,
  currentCmdStatus_ <- rCmd, enableToSendToTargetServer_ <- rEnable,
  tcpDataWaitForSendDeque_ <- rDeque, inSessionMap <- rInMap,
  mounted <- rMounted, conn <- rConn, rd <- rRd, wr <- rWr,
  emptyPop <- rEmptyPop, chunks <- rChunks

\* The steps of a session are those its proofs are about.
LEMMA SameHome ==
  /\ Home!Init => HomeProofs!Init
  /\ Home!Local => HomeProofs!Local
  /\ \A d : Home!inputToKcp(d) => HomeProofs!inputToKcp(d)
<1>1. Home!Init => HomeProofs!Init
  BY Zenon
     DEF HomeProofs!Init, Home!Init, HomeProofs!ikcp_create, Home!ikcp_create
<1>2. Home!Local => HomeProofs!Local
  BY Zenon
     DEF HomeProofs!Local, Home!Local, HomeProofs!start, Home!start,
         HomeProofs!readCompletes, Home!readCompletes, HomeProofs!ReadFails,
         Home!ReadFails, HomeProofs!receiveTcpFromWifiCilentMessage,
         Home!receiveTcpFromWifiCilentMessage, HomeProofs!writeCompletes,
         Home!writeCompletes, HomeProofs!sendTcpToWifiClientMessage,
         Home!sendTcpToWifiClientMessage, HomeProofs!driveSessionTimeClock,
         Home!driveSessionTimeClock, HomeProofs!FlushKcp, Home!FlushKcp,
         HomeProofs!checkTrafficStatus, Home!checkTrafficStatus,
         HomeProofs!closeSession, Home!closeSession, HomeProofs!Cancel,
         Home!Cancel, HomeProofs!StartOp, Home!StartOp, HomeProofs!AfterWrite,
         Home!AfterWrite, HomeProofs!NextWrite, Home!NextWrite,
         HomeProofs!ikcp_send, Home!ikcp_send, HomeProofs!ikcp_flush,
         Home!ikcp_flush, HomeProofs!NewSession, Home!NewSession,
         HomeProofs!Normal, Home!Normal, HomeProofs!FlushOutput,
         Home!FlushOutput, HomeProofs!Push, Home!Push, HomeProofs!Ack,
         Home!Ack, HomeProofs!ikcp_waitsnd, Home!ikcp_waitsnd,
         HomeProofs!Cardinality, Home!Cardinality
<1>3. ASSUME NEW d, Home!inputToKcp(d) PROVE HomeProofs!inputToKcp(d)
  BY <1>3, Zenon
     DEF HomeProofs!inputToKcp, Home!inputToKcp, HomeProofs!tryToReadFromKcp,
         Home!tryToReadFromKcp, HomeProofs!CongestionEnds,
         Home!CongestionEnds, HomeProofs!LowWater, Home!LowWater,
         HomeProofs!StartOp, Home!StartOp, HomeProofs!DataAt, Home!DataAt,
         HomeProofs!SelectAt, Home!SelectAt, HomeProofs!Kth, Home!Kth,
         HomeProofs!Rank, Home!Rank, HomeProofs!EndsOf, Home!EndsOf,
         HomeProofs!MessageEnds, Home!MessageEnds, HomeProofs!ikcp_recvAll,
         Home!ikcp_recvAll, HomeProofs!LastEnd, Home!LastEnd,
         HomeProofs!ikcp_input, Home!ikcp_input, HomeProofs!InputAck,
         Home!InputAck, HomeProofs!InputPush, Home!InputPush,
         HomeProofs!Buffered, Home!Buffered, HomeProofs!HasSeg, Home!HasSeg,
         HomeProofs!SegAt, Home!SegAt, HomeProofs!FirstMissing,
         Home!FirstMissing, HomeProofs!ikcp_waitsnd, Home!ikcp_waitsnd,
         HomeProofs!Cardinality, Home!Cardinality
<1> QED
  BY <1>1, <1>2, <1>3

\* The same of the remote session.
LEMMA SameRemote ==
  /\ Remote!Init => RemoteProofs!Init
  /\ Remote!Local => RemoteProofs!Local
  /\ \A d : Remote!listen(d) => RemoteProofs!listen(d)
<1>1. Remote!Init => RemoteProofs!Init
  BY Zenon
     DEF RemoteProofs!Init, Remote!Init, RemoteProofs!ikcp_create,
         Remote!ikcp_create
<1>2. Remote!Local => RemoteProofs!Local
  BY Zenon
     DEF RemoteProofs!Local, Remote!Local, RemoteProofs!connectCompletes,
         Remote!connectCompletes, RemoteProofs!handShakeWithtargetServer,
         Remote!handShakeWithtargetServer, RemoteProofs!readCompletes,
         Remote!readCompletes, RemoteProofs!ReadFails, Remote!ReadFails,
         RemoteProofs!receiveTcpFromTargetServerMessage,
         Remote!receiveTcpFromTargetServerMessage,
         RemoteProofs!writeCompletes, Remote!writeCompletes,
         RemoteProofs!sendTcpToTargetServerMessage,
         Remote!sendTcpToTargetServerMessage,
         RemoteProofs!driveSessionTimeClock, Remote!driveSessionTimeClock,
         RemoteProofs!FlushKcp, Remote!FlushKcp,
         RemoteProofs!checkTrafficStatus, Remote!checkTrafficStatus,
         RemoteProofs!closeSession, Remote!closeSession, RemoteProofs!Cancel,
         Remote!Cancel, RemoteProofs!StartOp, Remote!StartOp,
         RemoteProofs!Uncleared, Remote!Uncleared, RemoteProofs!NextWrite,
         Remote!NextWrite, RemoteProofs!ikcp_send, Remote!ikcp_send,
         RemoteProofs!ikcp_flush, Remote!ikcp_flush, RemoteProofs!Normal,
         Remote!Normal, RemoteProofs!FlushOutput, Remote!FlushOutput,
         RemoteProofs!Push, Remote!Push, RemoteProofs!Ack, Remote!Ack,
         RemoteProofs!ikcp_waitsnd, Remote!ikcp_waitsnd,
         RemoteProofs!Cardinality, Remote!Cardinality
<1>3. ASSUME NEW d, Remote!listen(d) PROVE RemoteProofs!listen(d)
  BY <1>3, Zenon
     DEF RemoteProofs!listen, Remote!listen, RemoteProofs!tryToReadFromKcp,
         Remote!tryToReadFromKcp, RemoteProofs!IsData, Remote!IsData,
         RemoteProofs!BeginsWrite, Remote!BeginsWrite,
         RemoteProofs!CongestionEnds, Remote!CongestionEnds,
         RemoteProofs!LowWater, Remote!LowWater, RemoteProofs!StartOp,
         Remote!StartOp, RemoteProofs!DataAt, Remote!DataAt,
         RemoteProofs!SelectAt, Remote!SelectAt, RemoteProofs!Kth, Remote!Kth,
         RemoteProofs!Rank, Remote!Rank, RemoteProofs!EndsOf, Remote!EndsOf,
         RemoteProofs!MessageEnds, Remote!MessageEnds,
         RemoteProofs!ikcp_recvAll, Remote!ikcp_recvAll, RemoteProofs!LastEnd,
         Remote!LastEnd, RemoteProofs!ikcp_input, Remote!ikcp_input,
         RemoteProofs!InputAck, Remote!InputAck, RemoteProofs!InputPush,
         Remote!InputPush, RemoteProofs!Buffered, Remote!Buffered,
         RemoteProofs!HasSeg, Remote!HasSeg, RemoteProofs!SegAt, Remote!SegAt,
         RemoteProofs!FirstMissing, Remote!FirstMissing,
         RemoteProofs!ikcp_waitsnd, Remote!ikcp_waitsnd,
         RemoteProofs!Cardinality, Remote!Cardinality
<1> QED
  BY <1>1, <1>2, <1>3

\* What the network carries is well-formed, and newSession is segment 1: its
\* chunk has number 0.  This is what the sessions' proofs assume of a peer.
LEMMA PeersAsAssumed ==
  /\ HomeProofs!HomeSessionAssumption
  /\ RemoteProofs!RemoteSessionAssumption
  /\ RemoteProofs!NewSessionFirst
<1>1. /\ MaxFrags \in Nat \ {0} /\ HomeChunks \in Nat /\ RemoteChunks \in Nat
      /\ HighWater \in Nat /\ HighWater > 1 /\ SocketsFail \in BOOLEAN
  BY TunnelAssumption DEF TunnelAssumption
<1>2. HomeMessage \subseteq Message /\ RemoteMessage \subseteq Message
  BY <1>1 DEF HomeMessage, RemoteMessage, Message, K!NewSession, K!Normal
<1>3. ASSUME NEW msgs \in SUBSET Message, NEW first, NEW acked,
             NEW d \in Datagram(msgs, first, acked)
      PROVE  d \in KcpDatagram
  BY <1>1, <1>3 DEF Datagram, KcpDatagram
<1>4. /\ HomeDatagram \subseteq KcpDatagram
      /\ RemoteDatagram \subseteq KcpDatagram
  BY <1>2, <1>3 DEF HomeDatagram, RemoteDatagram
<1>5. ASSUME NEW d \in HomeDatagram, d.type = "push",
             d.msg.cmd = "newSession"
      PROVE  d.sn = 1
  <2>1. d.msg \in HomeMessage /\ d.sn \in (1 + d.msg.data)
                                          .. (1 + MaxFrags * d.msg.data)
    BY <1>5 DEF HomeDatagram, Datagram
  <2>2. d.msg.data = 0
    BY <1>5, <2>1 DEF HomeMessage, K!NewSession, K!Normal
  <2> QED
    BY <1>1, <2>1, <2>2
<1>6. HomeProofs!KcpDatagram = KcpDatagram
  BY DEF HomeProofs!KcpDatagram, KcpDatagram, HomeProofs!Message, Message
<1>7. RemoteProofs!KcpDatagram = KcpDatagram
  BY DEF RemoteProofs!KcpDatagram, KcpDatagram, RemoteProofs!Message, Message
<1> QED
  BY <1>1, <1>4, <1>5, <1>6, <1>7
     DEF HomeProofs!HomeSessionAssumption,
         RemoteProofs!RemoteSessionAssumption, RemoteProofs!NewSessionFirst

\* The sessions' inductive invariants, of the two sessions of the tunnel.
SessionsInv ==
  /\ HomeProofs!FlowInv
  /\ RemoteProofs!FlowInv /\ RemoteProofs!HandshakeOnce

\* They hold of two new sessions,
LEMMA SessionsInit == Init => SessionsInv
BY PeersAsAssumed, SameHome, SameRemote, HomeProofs!FlowInit,
   RemoteProofs!FlowInit, RemoteProofs!OnceInit
   DEF Init, SessionsInv

\* of a session that rests, whatever becomes of the datagrams it has sent,
LEMMA HomeUnmoved ==
  ASSUME HomeProofs!FlowInv, UNCHANGED homeVars
  PROVE  HomeProofs!FlowInv'
BY DEF homeVars, HomeProofs!FlowInv, HomeProofs!TypeOK, HomeProofs!Started,
       HomeProofs!NoOverlap, HomeProofs!ReadingOrBackedUp,
       HomeProofs!WriteOwnsHead, HomeProofs!ReadBelowMark,
       HomeProofs!BacklogBounded, HomeProofs!MountedUntilClosed,
       HomeProofs!ClosedHoldsNothing, HomeProofs!ikcp_waitsnd

LEMMA RemoteUnmoved ==
  ASSUME RemoteProofs!FlowInv, RemoteProofs!HandshakeOnce,
         UNCHANGED remoteVars
  PROVE  RemoteProofs!FlowInv' /\ RemoteProofs!HandshakeOnce'
BY DEF remoteVars, RemoteProofs!FlowInv, RemoteProofs!TypeOK,
       RemoteProofs!Handshake, RemoteProofs!OneReadOneWrite,
       RemoteProofs!ReadingOrBackedUp, RemoteProofs!WriteOwnsHead,
       RemoteProofs!EmptyPopOnlyAfterClose, RemoteProofs!ReadBelowMark,
       RemoteProofs!BacklogBounded, RemoteProofs!MountedUntilClosed,
       RemoteProofs!ClosedHoldsNothing, RemoteProofs!HandshakeOnce,
       RemoteProofs!ikcp_waitsnd

\* and after every step: what the network delivers is a datagram of the peer.
LEMMA SessionsStep == SessionsInv /\ [Next]_vars => SessionsInv'
<1> SUFFICES ASSUME SessionsInv, [Next]_vars PROVE SessionsInv'
  OBVIOUS
<1>1. /\ HomeProofs!FlowInv
      /\ RemoteProofs!FlowInv /\ RemoteProofs!HandshakeOnce
  BY DEF SessionsInv
<1>2. ASSUME HomeProofs!Next PROVE HomeProofs!FlowInv'
  BY <1>1, <1>2, PeersAsAssumed, HomeProofs!FlowStep
<1>3. ASSUME RemoteProofs!Next
      PROVE  RemoteProofs!FlowInv' /\ RemoteProofs!HandshakeOnce'
  BY <1>1, <1>3, PeersAsAssumed, RemoteProofs!FlowStep, RemoteProofs!OnceStep
<1>4. CASE HomeStep
  BY <1>1, <1>2, <1>4, SameHome, RemoteUnmoved
     DEF HomeStep, SessionsInv, HomeProofs!Next
<1>5. CASE RemoteStep
  BY <1>1, <1>3, <1>5, SameRemote, HomeUnmoved
     DEF RemoteStep, SessionsInv, RemoteProofs!Next
<1>6. ASSUME NEW d \in HomeDatagram, ToRemote(d) PROVE SessionsInv'
  BY <1>1, <1>3, <1>6, SameRemote, HomeUnmoved
     DEF ToRemote, SessionsInv, RemoteProofs!Next
<1>7. ASSUME NEW d \in RemoteDatagram, ToHome(d) PROVE SessionsInv'
  BY <1>1, <1>2, <1>7, SameHome, RemoteUnmoved
     DEF ToHome, SessionsInv, HomeProofs!Next
<1>8. CASE Lose \/ UNCHANGED vars
  BY <1>1, <1>8, HomeUnmoved, RemoteUnmoved DEF Lose, vars, SessionsInv
<1> QED
  BY <1>4, <1>5, <1>6, <1>7, <1>8 DEF Next

\* What that says of the two sessions.
SessionsSafe ==
  /\ Home!TypeOK /\ Home!NoOverlap /\ Home!ReadingOrBackedUp
  /\ Home!BacklogBounded /\ Home!WriteOwnsHead /\ Home!MountedUntilClosed
  /\ Remote!TypeOK /\ Remote!NoOverlap /\ Remote!ReadingOrBackedUp
  /\ Remote!BacklogBounded /\ Remote!WriteOwnsHead
  /\ Remote!MountedUntilClosed /\ Remote!NothingBeforeHandshake
  /\ Remote!EmptyPopOnlyAfterClose

\* It follows from the invariants of either.
LEMMA SessionsAreSafe == SessionsInv => SessionsSafe
<1>1. ASSUME HomeProofs!FlowInv
      PROVE  /\ Home!TypeOK /\ Home!NoOverlap /\ Home!ReadingOrBackedUp
             /\ Home!BacklogBounded /\ Home!WriteOwnsHead
             /\ Home!MountedUntilClosed
  <2>1. /\ HomeProofs!TypeOK /\ HomeProofs!NoOverlap
        /\ HomeProofs!ReadingOrBackedUp /\ HomeProofs!BacklogBounded
        /\ HomeProofs!WriteOwnsHead /\ HomeProofs!MountedUntilClosed
    BY <1>1 DEF HomeProofs!FlowInv
  <2> QED
    BY <2>1, Zenon
       DEF Home!TypeOK, HomeProofs!TypeOK, Home!IsBlock, HomeProofs!IsBlock,
           Home!Segment, HomeProofs!Segment, Home!Message,
           HomeProofs!Message, Home!OpState, HomeProofs!OpState,
           Home!IsFiniteSet, HomeProofs!IsFiniteSet,
           Home!NoOverlap, HomeProofs!NoOverlap,
           Home!ReadingOrBackedUp, HomeProofs!ReadingOrBackedUp,
           Home!BacklogBounded, HomeProofs!BacklogBounded,
           Home!WriteOwnsHead, HomeProofs!WriteOwnsHead,
           Home!MountedUntilClosed, HomeProofs!MountedUntilClosed,
           Home!LowWater, HomeProofs!LowWater,
           Home!ikcp_waitsnd, HomeProofs!ikcp_waitsnd,
           Home!Cardinality, HomeProofs!Cardinality
<1>2. ASSUME RemoteProofs!FlowInv, RemoteProofs!HandshakeOnce
      PROVE  /\ Remote!TypeOK /\ Remote!NoOverlap /\ Remote!ReadingOrBackedUp
             /\ Remote!BacklogBounded /\ Remote!WriteOwnsHead
             /\ Remote!MountedUntilClosed /\ Remote!NothingBeforeHandshake
             /\ Remote!EmptyPopOnlyAfterClose
  <2>1. /\ RemoteProofs!TypeOK /\ RemoteProofs!ReadingOrBackedUp
        /\ RemoteProofs!BacklogBounded /\ RemoteProofs!WriteOwnsHead
        /\ RemoteProofs!MountedUntilClosed
        /\ RemoteProofs!EmptyPopOnlyAfterClose
    BY <1>2 DEF RemoteProofs!FlowInv
  <2>2. Remote!NoOverlap
    BY <1>2 DEF RemoteProofs!FlowInv, RemoteProofs!OneReadOneWrite,
                RemoteProofs!HandshakeOnce, Remote!NoOverlap
  <2>3. Remote!NothingBeforeHandshake
    BY <1>2 DEF RemoteProofs!FlowInv, RemoteProofs!Handshake,
                Remote!NothingBeforeHandshake
  <2> QED
    BY <2>1, <2>2, <2>3, Zenon
       DEF Remote!TypeOK, RemoteProofs!TypeOK, Remote!IsBlock,
           RemoteProofs!IsBlock, Remote!Segment, RemoteProofs!Segment,
           Remote!Message, RemoteProofs!Message, Remote!OpState,
           RemoteProofs!OpState, Remote!IsFiniteSet, RemoteProofs!IsFiniteSet,
           Remote!ReadingOrBackedUp, RemoteProofs!ReadingOrBackedUp,
           Remote!BacklogBounded, RemoteProofs!BacklogBounded,
           Remote!WriteOwnsHead, RemoteProofs!WriteOwnsHead,
           Remote!MountedUntilClosed, RemoteProofs!MountedUntilClosed,
           Remote!EmptyPopOnlyAfterClose, RemoteProofs!EmptyPopOnlyAfterClose,
           Remote!LowWater, RemoteProofs!LowWater,
           Remote!ikcp_waitsnd, RemoteProofs!ikcp_waitsnd,
           Remote!Cardinality, RemoteProofs!Cardinality
<1> QED
  BY <1>1, <1>2 DEF SessionsInv, SessionsSafe

\* The sessions of the tunnel have every invariant that was proved of a session
\* alone, start to closeSession in both files: what was assumed there of the
\* peer, that newSession is its first segment, is what the home session does
\* (session::start, server/session.cpp:57-67).
THEOREM SessionsInTunnel == Spec => []SessionsSafe
BY SessionsInit, SessionsStep, SessionsAreSafe, PTL DEF Spec
-----------------------------------------------------------------------------
\* The number of chunks whose segments are in the sender's log.
InLog(rd, chunks) == IF rd = "ok" THEN chunks - 1 ELSE chunks

\* A log whose messages are msgs, the first one-segment messages before the c
\* chunks: its length, and where each entry may be.
Sized(log, first, c) == Len(log) \in (first + c) .. (first + MaxFrags * c)
Placed(log, msgs, first) ==
  \A a \in 1 .. Len(log) :
    /\ log[a].frg \in 0 .. (MaxFrags - 1) /\ log[a].msg \in msgs
    /\ a \in (first + log[a].msg.data) .. (first + MaxFrags * log[a].msg.data)

\* Acks, sent or owed, of entries of a log.
Acks(out, owed, log) ==
  /\ owed \subseteq 1 .. Len(log)
  /\ \A d \in out : d.type = "ack" => d.sn \in 1 .. Len(log)

\* Where the segments of either log are and what is acknowledged of it.
NumberInv ==
  /\ IF hCmd = "newSession" THEN hKcp.log = << >> /\ hChunks = 0
     ELSE Sized(hKcp.log, 1, InLog(hRd, hChunks))
  /\ Placed(hKcp.log, HomeMessage, 1)
  /\ Sized(rKcp.log, 0, InLog(rRd, rChunks))
  /\ Placed(rKcp.log, RemoteMessage, 0)
  /\ Acks(toHome, rKcp.acklist, hKcp.log)
  /\ Acks(toRemote, hKcp.acklist, rKcp.log)

\* A session queues a chunk, or nothing, or (the home session) newSession.
Queues(k, rd, chunks, k2, rd2, chunks2) ==
  \/ k2.log = k.log /\ InLog(rd2, chunks2) = InLog(rd, chunks)
  \/ /\ rd = "ok" /\ rd2 # "ok" /\ chunks2 = chunks
     /\ \E n \in 1 .. MaxFrags : k2.log = ikcp_send(k, Normal(chunks), n).log

\* It acknowledges only what it owed.
Owes(k, out, k2, out2) ==
  /\ k2.acklist \subseteq k.acklist
  /\ \A d \in out2 : d \in out \/ (d.type = "ack" => d.sn \in k.acklist)

\* A flush sends the acks that are owed,
LEMMA FlushOwes ==
  ASSUME NEW k, IsBlock(k), NEW out
  PROVE  Owes(k, out, ikcp_flush(k), out \cup FlushOutput(k))
BY DEF Owes, ikcp_flush, FlushOutput, Push, Ack, IsBlock

\* also when a message is queued first.
LEMMA SendOwes ==
  ASSUME NEW k, IsBlock(k), NEW out, NEW msg \in Message, NEW n \in Nat
  PROVE  Owes(k, out, ikcp_flush(ikcp_send(k, msg, n)),
              out \cup FlushOutput(ikcp_send(k, msg, n)))
<1> DEFINE s == ikcp_send(k, msg, n)
<1>1. IsBlock(s)
  BY SendBlock
<1>2. s.acklist = k.acklist
  BY DEF ikcp_send, IsBlock
<1> HIDE DEF s
<1>3. Owes(s, out, ikcp_flush(s), out \cup FlushOutput(s))
  BY <1>1, FlushOwes
<1>4. Owes(k, out, ikcp_flush(s), out \cup FlushOutput(s))
  BY <1>2, <1>3 DEF Owes
<1> QED
  BY <1>4 DEF s

\* The handlers of the home session.
LEMMA HomeQueues ==
  ASSUME IsBlock(hKcp), hChunks \in Nat, Home!Local, hRd' # "overlap",
         hCmd = "newSession" => hRd = "none"
  PROVE  /\ Owes(hKcp, toRemote, hKcp', toRemote')
         /\ \/ /\ hCmd = "newSession" /\ hCmd' = "normal"
               /\ hKcp'.log = ikcp_send(hKcp, NewSession, 1).log
               /\ hRd' # "ok" /\ hChunks' = hChunks
            \/ /\ hCmd' = hCmd
               /\ Queues(hKcp, hRd, hChunks, hKcp', hRd', hChunks')
               /\ hCmd = "newSession" =>
                    hKcp'.log = hKcp.log /\ hChunks' = hChunks
<1>1. CASE Home!start
  <2>1. /\ hCmd = "newSession" /\ hCmd' = "normal" /\ hChunks' = hChunks
        /\ hKcp' = ikcp_flush(ikcp_send(hKcp, NewSession, 1))
        /\ toRemote' = toRemote
                         \cup FlushOutput(ikcp_send(hKcp, NewSession, 1))
        /\ hRd' = Home!StartOp(hRd)
    BY <1>1, HomeKcp DEF Home!start, Home!FlushKcp
  <2>2. NewSession \in Message
    BY DEF NewSession, Message
  <2>3. hKcp'.log = ikcp_send(hKcp, NewSession, 1).log
    BY <2>1, <2>2, SendFlushKeeps
  <2>4. hRd' # "ok"
    BY <2>1 DEF Home!StartOp
  <2> QED
    BY <2>1, <2>2, <2>3, <2>4, SendOwes
<1>2. CASE Home!receiveTcpFromWifiCilentMessage /\ hRd = "ok"
  <2>1. PICK n \in 1 .. MaxFrags :
          /\ hKcp' = ikcp_flush(ikcp_send(hKcp, Normal(hChunks), n))
          /\ toRemote' = toRemote
                        \cup FlushOutput(ikcp_send(hKcp, Normal(hChunks), n))
          /\ Home!checkTrafficStatus(ikcp_send(hKcp, Normal(hChunks), n))
    BY <1>2, HomeKcp DEF Home!receiveTcpFromWifiCilentMessage, Home!FlushKcp
  <2>2. hRd' # "ok" /\ hChunks' = hChunks /\ hCmd' = hCmd
    BY <1>2, <2>1 DEF Home!receiveTcpFromWifiCilentMessage,
                      Home!checkTrafficStatus, Home!StartOp
  <2>3. Normal(hChunks) \in Message
    BY DEF Normal, Message
  <2>4. hKcp'.log = ikcp_send(hKcp, Normal(hChunks), n).log
    BY <2>1, <2>3, SendFlushKeeps
  <2>5. Owes(hKcp, toRemote, hKcp', toRemote')
    BY <2>1, <2>3, SendOwes
  <2> QED
    BY <1>2, <2>2, <2>4, <2>5 DEF Queues
<1>3. CASE Home!driveSessionTimeClock
  <2>1. /\ hKcp' = ikcp_flush(hKcp)
        /\ toRemote' = toRemote \cup FlushOutput(hKcp)
        /\ hRd' = hRd /\ hChunks' = hChunks /\ hCmd' = hCmd
    BY <1>3, HomeKcp DEF Home!driveSessionTimeClock, Home!FlushKcp
  <2> QED
    BY <2>1, FlushOwes, FlushKeeps DEF Queues
<1>4. CASE Home!readCompletes
  <2>1. /\ hKcp' = hKcp /\ toRemote' = toRemote /\ hCmd' = hCmd
        /\ hRd = "pending"
        /\ \/ hRd' = "ok" /\ hChunks' = hChunks + 1
           \/ hRd' = "err" /\ hChunks' = hChunks
    BY <1>4 DEF Home!readCompletes, Home!ReadFails
  <2> QED
    BY <2>1 DEF Queues, Owes, InLog
<1>5. CASE \/ Home!receiveTcpFromWifiCilentMessage /\ hRd # "ok"
           \/ Home!writeCompletes \/ Home!sendTcpToWifiClientMessage
  <2>1. /\ hKcp' = hKcp /\ toRemote' = toRemote /\ hCmd' = hCmd
        /\ hChunks' = hChunks
        /\ hRd' = hRd \/ (hRd # "ok" /\ hRd' # "ok")
    BY <1>5 DEF Home!receiveTcpFromWifiCilentMessage, Home!writeCompletes,
                Home!sendTcpToWifiClientMessage, Home!closeSession,
                Home!Cancel
  <2> QED
    BY <2>1 DEF Queues, Owes, InLog
<1> QED
  BY <1>1, <1>2, <1>3, <1>4, <1>5 DEF Home!Local

\* Those of the remote session.
LEMMA RemoteQueues ==
  ASSUME IsBlock(rKcp), rChunks \in Nat, Remote!Local, rRd' # "overlap"
  PROVE  /\ Owes(rKcp, toHome, rKcp', toHome')
         /\ Queues(rKcp, rRd, rChunks, rKcp', rRd', rChunks')
<1>1. CASE Remote!receiveTcpFromTargetServerMessage /\ rRd = "ok"
  <2>1. PICK n \in 1 .. MaxFrags :
          /\ rKcp' = ikcp_flush(ikcp_send(rKcp, Normal(rChunks), n))
          /\ toHome' = toHome
                         \cup FlushOutput(ikcp_send(rKcp, Normal(rChunks), n))
          /\ Remote!checkTrafficStatus(ikcp_send(rKcp, Normal(rChunks), n))
    BY <1>1, RemoteKcp
       DEF Remote!receiveTcpFromTargetServerMessage, Remote!FlushKcp
  <2>2. rRd' # "ok" /\ rChunks' = rChunks
    BY <1>1, <2>1 DEF Remote!receiveTcpFromTargetServerMessage,
                      Remote!checkTrafficStatus, Remote!StartOp
  <2>3. Normal(rChunks) \in Message
    BY DEF Normal, Message
  <2>4. rKcp'.log = ikcp_send(rKcp, Normal(rChunks), n).log
    BY <2>1, <2>3, SendFlushKeeps
  <2>5. Owes(rKcp, toHome, rKcp', toHome')
    BY <2>1, <2>3, SendOwes
  <2> QED
    BY <1>1, <2>2, <2>4, <2>5 DEF Queues
<1>2. CASE Remote!driveSessionTimeClock
  <2>1. /\ rKcp' = ikcp_flush(rKcp)
        /\ toHome' = toHome \cup FlushOutput(rKcp)
        /\ rRd' = rRd /\ rChunks' = rChunks
    BY <1>2, RemoteKcp DEF Remote!driveSessionTimeClock, Remote!FlushKcp
  <2> QED
    BY <2>1, FlushOwes, FlushKeeps DEF Queues
<1>3. CASE Remote!readCompletes
  <2>1. /\ rKcp' = rKcp /\ toHome' = toHome /\ rRd = "pending"
        /\ \/ rRd' = "ok" /\ rChunks' = rChunks + 1
           \/ rRd' = "err" /\ rChunks' = rChunks
    BY <1>3 DEF Remote!readCompletes, Remote!ReadFails
  <2> QED
    BY <2>1 DEF Queues, Owes, InLog
<1>4. CASE \/ Remote!receiveTcpFromTargetServerMessage /\ rRd # "ok"
           \/ Remote!writeCompletes \/ Remote!sendTcpToTargetServerMessage
           \/ Remote!connectCompletes \/ Remote!handShakeWithtargetServer
  <2>1. /\ rKcp' = rKcp /\ toHome' = toHome /\ rChunks' = rChunks
        /\ rRd' = rRd \/ (rRd # "ok" /\ rRd' # "ok")
    BY <1>4 DEF Remote!receiveTcpFromTargetServerMessage,
                Remote!writeCompletes, Remote!sendTcpToTargetServerMessage,
                Remote!connectCompletes, Remote!handShakeWithtargetServer,
                Remote!closeSession, Remote!Cancel, Remote!StartOp
  <2> QED
    BY <2>1 DEF Queues, Owes, InLog
<1> QED
  BY <1>1, <1>2, <1>3, <1>4 DEF Remote!Local

\* A message of n segments, for chunk c + 1, is placed behind those of c.
LEMMA PlaceChunk ==
  ASSUME NEW k, IsBlock(k), NEW c \in Nat, NEW first \in Nat,
         NEW n \in 1 .. MaxFrags, NEW msgs, NEW msg \in Message,
         msg \in msgs, msg.data = c + 1, NEW log,
         log = ikcp_send(k, msg, n).log,
         Sized(k.log, first, c), Placed(k.log, msgs, first)
  PROVE  /\ Sized(log, first, c + 1) /\ Placed(log, msgs, first)
         /\ Extends(k.log, log)
<1> DEFINE L == Len(k.log)
           p == MaxFrags * c
<1>1. MaxFrags \in Nat /\ n \in Nat \ {0} /\ n <= MaxFrags /\ p \in Nat
      /\ MaxFrags * (c + 1) = p + MaxFrags
  BY TunnelAssumption DEF TunnelAssumption
<1>2. Appends(k.log, log, msg, n)
  BY <1>1, SendLog
<1>3. /\ Extends(k.log, log) /\ L \in Nat /\ Len(log) = L + n
      /\ \A a \in 1 .. L : log[a] = k.log[a]
      /\ \A i \in 1 .. n : log[L + i] = [frg |-> n - i, msg |-> msg]
  <2>1. /\ k.log \in Seq(Entry) /\ log \in Seq(Entry) /\ Len(log) = L + n
        /\ \A a \in 1 .. L : log[a] = k.log[a]
        /\ \A i \in 1 .. n : log[L + i] = [frg |-> n - i, msg |-> msg]
    BY <1>2, Zenon DEF Appends
  <2>2. L \in Nat
    BY <2>1
  <2>3. L <= L + n
    BY <1>1, <2>2
  <2> QED
    BY <2>1, <2>2, <2>3 DEF Extends
<1>4. L \in (first + c) .. (first + p)
  BY DEF Sized
<1> HIDE DEF L, p
<1>5. Sized(log, first, c + 1)
  <2>1. L + n \in (first + (c + 1)) .. (first + (p + MaxFrags))
    BY <1>1, <1>3, <1>4
  <2> QED
    BY <1>1, <1>3, <2>1 DEF Sized
<1>6. ASSUME NEW a \in 1 .. Len(log)
      PROVE  /\ log[a].frg \in 0 .. (MaxFrags - 1) /\ log[a].msg \in msgs
             /\ a \in (first + log[a].msg.data)
                       .. (first + MaxFrags * log[a].msg.data)
  <2>1. CASE a \in 1 .. L
    BY <1>3, <2>1 DEF Placed, L
  <2>2. CASE a \notin 1 .. L
    <3>1. a - L \in 1 .. n /\ a = L + (a - L) /\ a \in Int
      BY <1>1, <1>3, <2>2
    <3>2. log[a] = [frg |-> n - (a - L), msg |-> msg]
      BY <1>3, <3>1
    <3>3. n - (a - L) \in 0 .. (MaxFrags - 1)
      BY <1>1, <1>3, <3>1
    <3>4. a \in (first + (c + 1)) .. (first + (p + MaxFrags))
      BY <1>1, <1>3, <1>4, <3>1
    <3>5. /\ log[a].frg = n - (a - L) /\ log[a].msg = msg
          /\ log[a].msg.data = c + 1
      BY <3>2
    <3>6. first + MaxFrags * (c + 1) = first + (p + MaxFrags)
      BY <1>1
    <3> QED
      BY <3>3, <3>4, <3>5, <3>6, Zenon
  <2> QED
    BY <2>1, <2>2
<1> QED
  BY <1>3, <1>5, <1>6 DEF Placed

\* So a log keeps its numbers when its session queues a chunk, or nothing.
LEMMA QueuesKeeps ==
  ASSUME NEW k, IsBlock(k), NEW rd, NEW chunks \in Nat, NEW k2, NEW rd2,
         NEW chunks2, NEW first \in Nat, NEW msgs,
         rd = "ok" => chunks # 0 /\ Normal(chunks) \in msgs,
         Sized(k.log, first, InLog(rd, chunks)), Placed(k.log, msgs, first),
         Queues(k, rd, chunks, k2, rd2, chunks2)
  PROVE  /\ Sized(k2.log, first, InLog(rd2, chunks2))
         /\ Placed(k2.log, msgs, first) /\ Extends(k.log, k2.log)
<1>1. CASE k2.log = k.log /\ InLog(rd2, chunks2) = InLog(rd, chunks)
  BY <1>1 DEF Extends, IsBlock, Entry
<1>2. CASE /\ rd = "ok" /\ rd2 # "ok" /\ chunks2 = chunks
           /\ \E n \in 1 .. MaxFrags :
                k2.log = ikcp_send(k, Normal(chunks), n).log
  <2>1. PICK n \in 1 .. MaxFrags :
          k2.log = ikcp_send(k, Normal(chunks), n).log
    BY <1>2
  <2>2. /\ chunks - 1 \in Nat /\ Normal(chunks) \in Message
        /\ Normal(chunks).data = (chunks - 1) + 1
    BY <1>2 DEF Normal, Message
  <2>3. InLog(rd, chunks) = chunks - 1 /\ InLog(rd2, chunks2) = chunks
        /\ (chunks - 1) + 1 = chunks
    BY <1>2 DEF InLog
  <2>4. /\ Sized(k2.log, first, (chunks - 1) + 1)
        /\ Placed(k2.log, msgs, first) /\ Extends(k.log, k2.log)
    BY <1>2, <2>1, <2>2, <2>3, PlaceChunk
  <2> QED
    BY <2>3, <2>4
<1> QED
  BY <1>1, <1>2 DEF Queues

\* newSession is the first segment.
LEMMA PlaceNewSession ==
  ASSUME NEW k, IsBlock(k), k.log = << >>, NEW log,
         log = ikcp_send(k, NewSession, 1).log
  PROVE  /\ Sized(log, 1, 0) /\ Placed(log, HomeMessage, 1)
         /\ Extends(k.log, log)
<1>1. MaxFrags \in Nat \ {0} /\ MaxFrags * 0 = 0
  BY TunnelAssumption DEF TunnelAssumption
<1>2. /\ NewSession \in Message /\ NewSession.data = 0
      /\ NewSession \in HomeMessage
  BY DEF NewSession, Message, HomeMessage, K!NewSession
<1>3. Appends(k.log, log, NewSession, 1)
  BY <1>2, SendLog
<1>4. /\ Extends(k.log, log) /\ Len(k.log) = 0 /\ Len(log) = 1
      /\ log[1] = [frg |-> 0, msg |-> NewSession]
  <2>1. Len(k.log) = 0 /\ 1 \in 1 .. 1 /\ 1 - 1 = 0 /\ 0 + 1 = 1
    OBVIOUS
  <2>2. log[0 + 1] = [frg |-> 1 - 1, msg |-> NewSession]
    BY <1>3, <2>1 DEF Appends
  <2> QED
    BY <1>3, <2>1, <2>2 DEF Appends, Extends
<1>5. Sized(log, 1, 0)
  <2>1. 1 \in (1 + 0) .. (1 + MaxFrags * 0)
    BY <1>1
  <2> QED
    BY <1>4, <2>1, Zenon DEF Sized
<1>6. Placed(log, HomeMessage, 1)
  BY <1>1, <1>2, <1>4 DEF Placed
<1> QED
  BY <1>4, <1>5, <1>6

\* Acks stay acks of the log when it grows, when the session that owes them
\* flushes, when datagrams are lost,
LEMMA AcksKeep ==
  ASSUME NEW out, NEW owed, NEW log, Acks(out, owed, log)
  PROVE  /\ \A log2 : Extends(log, log2) => Acks(out, owed, log2)
         /\ \A out2 \in SUBSET out : Acks(out2, owed, log)
         /\ \A k, k2, out2 :
              owed = k.acklist /\ Owes(k, out, k2, out2)
                => Acks(out2, k2.acklist, log)
<1>1. ASSUME NEW log2, Extends(log, log2) PROVE Acks(out, owed, log2)
  <2>1. Len(log) \in Nat /\ Len(log2) \in Nat /\ Len(log) <= Len(log2)
    BY <1>1 DEF Extends
  <2>2. 1 .. Len(log) \subseteq 1 .. Len(log2)
    BY <2>1
  <2> QED
    BY <2>2 DEF Acks
<1> QED
  BY <1>1 DEF Acks, Owes

\* and when a copy of an entry arrives.
LEMMA InputOwes ==
  ASSUME NEW k, IsBlock(k), NEW d \in KcpDatagram, NEW k2,
         k2 = ikcp_recvAll(ikcp_input(k, d)), NEW out, NEW log,
         Acks(out, k.acklist, log),
         d.type = "push" => d.sn \in 1 .. Len(log)
  PROVE  k2.log = k.log /\ Acks(out, k2.acklist, log)
<1>1. CASE d.type = "ack"
  <2>1. k2.log = k.log /\ k2.acklist = k.acklist
    BY <1>1 DEF ikcp_recvAll, ikcp_input, InputAck, IsBlock
  <2> QED
    BY <2>1
<1>2. CASE d.type = "push"
  <2>1. k2.log = k.log /\ k2.acklist = k.acklist \cup {d.sn}
    BY <1>2 DEF ikcp_recvAll, ikcp_input, InputPush, IsBlock
  <2> QED
    BY <1>2, <2>1 DEF Acks
<1> QED
  BY <1>1, <1>2 DEF KcpDatagram

\* At first nothing is numbered.
LEMMA NumberInit == Init => NumberInv
<1>1. MaxFrags \in Nat /\ MaxFrags * 0 = 0
  BY TunnelAssumption DEF TunnelAssumption
<1>2. /\ ikcp_create.log = << >> /\ ikcp_create.acklist = {}
      /\ Len(<< >>) = 0
  BY DEF ikcp_create
<1>3. ASSUME Init
      PROVE  /\ hKcp = ikcp_create /\ rKcp = ikcp_create /\ toHome = {}
             /\ toRemote = {} /\ hCmd = "newSession" /\ hChunks = 0
             /\ rRd = "none" /\ rChunks = 0
  BY <1>3, HomeKcp, RemoteKcp DEF Init, Home!Init, Remote!Init
<1>4. InLog("none", 0) = 0
  BY DEF InLog
<1>5. Len(<< >>) \in (0 + 0) .. (0 + MaxFrags * 0)
  BY <1>1, <1>2
<1>6. Sized(<< >>, 0, InLog("none", 0))
  BY <1>4, <1>5, Zenon DEF Sized
<1>7. \A msgs, first : Placed(<< >>, msgs, first)
  BY <1>2 DEF Placed
<1>8. Acks({}, {}, << >>)
  BY DEF Acks
<1> QED
  BY <1>2, <1>3, <1>6, <1>7, <1>8 DEF NumberInv

\* What the other two invariants say of the numbers.
LEMMA NumberFacts ==
  ASSUME TunnelInv, SessionsInv
  PROVE  /\ IsBlock(hKcp) /\ IsBlock(rKcp)
         /\ hChunks \in 0 .. HomeChunks /\ rChunks \in 0 .. RemoteChunks
         /\ hRd = "ok" => hChunks # 0 /\ Normal(hChunks) \in HomeMessage
         /\ rRd = "ok" => rChunks # 0 /\ Normal(rChunks) \in RemoteMessage
         /\ hRd # "overlap" /\ rRd # "overlap"
         /\ hCmd = "newSession" => hRd = "none"
         /\ hCmd \in {"newSession", "normal"}
<1>1. IsBlock(hKcp) /\ IsBlock(rKcp)
  BY DEF TunnelInv, Flow
<1>2. /\ hRd = "ok" => hChunks # 0
      /\ rRd = "ok" => rChunks # 0
  BY DEF TunnelInv, Flow, Taken
<1>3. /\ hChunks \in 0 .. HomeChunks /\ rChunks \in 0 .. RemoteChunks
      /\ hRd # "overlap" /\ rRd # "overlap"
      /\ hCmd \in {"newSession", "normal"}
  BY SessionsAreSafe
     DEF SessionsSafe, Home!TypeOK, Remote!TypeOK, Home!NoOverlap,
         Remote!NoOverlap
<1>4. hCmd = "newSession" => hRd = "none"
  BY DEF SessionsInv, HomeProofs!FlowInv, HomeProofs!Started
<1>5. HomeChunks \in Nat /\ RemoteChunks \in Nat
  BY TunnelAssumption DEF TunnelAssumption
<1>6. /\ hRd = "ok" => Normal(hChunks) \in HomeMessage
      /\ rRd = "ok" => Normal(rChunks) \in RemoteMessage
  BY <1>2, <1>3, <1>5 DEF HomeMessage, RemoteMessage, K!Normal, Normal
<1> QED
  BY <1>1, <1>2, <1>3, <1>4, <1>6

\* The numbers are kept by a step of the home session,
LEMMA HomeStepNumbers ==
  ASSUME TunnelInv, SessionsInv, SessionsInv', NumberInv, HomeStep
  PROVE  NumberInv'
<1>1. /\ rKcp' = rKcp /\ rRd' = rRd /\ rChunks' = rChunks
      /\ toHome' = toHome
  BY DEF HomeStep, remoteVars
<1>2. /\ Owes(hKcp, toRemote, hKcp', toRemote')
      /\ \/ /\ hCmd = "newSession" /\ hCmd' = "normal"
            /\ hKcp'.log = ikcp_send(hKcp, NewSession, 1).log
            /\ hRd' # "ok" /\ hChunks' = hChunks
         \/ /\ hCmd' = hCmd
            /\ Queues(hKcp, hRd, hChunks, hKcp', hRd', hChunks')
            /\ hCmd = "newSession" =>
                 hKcp'.log = hKcp.log /\ hChunks' = hChunks
  <2>1. hRd' # "overlap"
    BY DEF SessionsInv, HomeProofs!FlowInv, HomeProofs!NoOverlap
  <2>2. /\ IsBlock(hKcp) /\ hChunks \in Nat
        /\ hCmd = "newSession" => hRd = "none"
    BY NumberFacts
  <2>3. Home!Local
    BY DEF HomeStep
  <2> QED
    BY <2>1, <2>2, <2>3, HomeQueues, Zenon
<1>3. Acks(toRemote', hKcp'.acklist, rKcp.log)
  BY <1>2, AcksKeep DEF NumberInv
<1>4. /\ Extends(hKcp.log, hKcp'.log) /\ Placed(hKcp'.log, HomeMessage, 1)
      /\ IF hCmd' = "newSession" THEN hKcp'.log = << >> /\ hChunks' = 0
         ELSE Sized(hKcp'.log, 1, InLog(hRd', hChunks'))
  <2>1. CASE hCmd = "newSession" /\ hCmd' = "normal"
    <3>1. /\ hKcp'.log = ikcp_send(hKcp, NewSession, 1).log
          /\ hRd' # "ok" /\ hChunks' = 0 /\ hKcp.log = << >>
      BY <1>2, <2>1 DEF NumberInv
    <3>2. InLog(hRd', hChunks') = 0
      BY <3>1 DEF InLog
    <3>3. /\ Sized(hKcp'.log, 1, 0) /\ Placed(hKcp'.log, HomeMessage, 1)
          /\ Extends(hKcp.log, hKcp'.log)
      BY <3>1, NumberFacts, PlaceNewSession
    <3> QED
      BY <2>1, <3>2, <3>3
  <2>2. CASE hCmd = "newSession" /\ hCmd' = hCmd
    <3>1. hKcp'.log = hKcp.log /\ hChunks' = 0 /\ hKcp.log = << >>
      BY <1>2, <2>2 DEF NumberInv
    <3> QED
      BY <2>2, <3>1, NumberFacts DEF NumberInv, Extends, IsBlock, Entry
  <2>3. CASE hCmd # "newSession"
    <3>1. /\ hCmd' = hCmd
          /\ Queues(hKcp, hRd, hChunks, hKcp', hRd', hChunks')
          /\ Sized(hKcp.log, 1, InLog(hRd, hChunks))
          /\ Placed(hKcp.log, HomeMessage, 1)
      BY <1>2, <2>3 DEF NumberInv
    <3>2. hChunks \in Nat /\ 1 \in Nat
      BY NumberFacts
    <3>3. /\ Sized(hKcp'.log, 1, InLog(hRd', hChunks'))
          /\ Placed(hKcp'.log, HomeMessage, 1) /\ Extends(hKcp.log, hKcp'.log)
      BY <3>1, <3>2, NumberFacts, QueuesKeeps
    <3> QED
      BY <2>3, <3>1, <3>3
  <2> QED
    BY <1>2, <2>1, <2>2, <2>3
<1>5. Acks(toHome, rKcp.acklist, hKcp'.log)
  BY <1>4, AcksKeep DEF NumberInv
<1> QED
  BY <1>1, <1>3, <1>4, <1>5 DEF NumberInv

\* of the remote session,
LEMMA RemoteStepNumbers ==
  ASSUME TunnelInv, SessionsInv, SessionsInv', NumberInv, RemoteStep
  PROVE  NumberInv'
<1>1. /\ hKcp' = hKcp /\ hRd' = hRd /\ hChunks' = hChunks /\ hCmd' = hCmd
      /\ toRemote' = toRemote
  BY DEF RemoteStep, homeVars
<1>2. /\ Owes(rKcp, toHome, rKcp', toHome')
      /\ Queues(rKcp, rRd, rChunks, rKcp', rRd', rChunks')
  <2>1. rRd' # "overlap"
    BY DEF SessionsInv, RemoteProofs!FlowInv, RemoteProofs!OneReadOneWrite
  <2>2. IsBlock(rKcp) /\ rChunks \in Nat
    BY NumberFacts
  <2>3. Remote!Local
    BY DEF RemoteStep
  <2> QED
    BY <2>1, <2>2, <2>3, RemoteQueues, Zenon
<1>3. Acks(toHome', rKcp'.acklist, hKcp.log)
  BY <1>2, AcksKeep DEF NumberInv
<1>4. /\ Sized(rKcp'.log, 0, InLog(rRd', rChunks'))
      /\ Placed(rKcp'.log, RemoteMessage, 0) /\ Extends(rKcp.log, rKcp'.log)
  <2>1. rChunks \in Nat /\ 0 \in Nat
    BY NumberFacts
  <2> QED
    BY <1>2, <2>1, NumberFacts, QueuesKeeps DEF NumberInv
<1>5. Acks(toRemote, hKcp.acklist, rKcp'.log)
  BY <1>4, AcksKeep DEF NumberInv
<1> QED
  BY <1>1, <1>3, <1>4, <1>5 DEF NumberInv

\* by a delivery to either,
LEMMA ToHomeNumbers ==
  ASSUME TunnelInv, SessionsInv, SessionsInv', NumberInv, NEW d, ToHome(d)
  PROVE  NumberInv'
<1>1. /\ d \in toHome /\ toHome' \in SUBSET toHome /\ Home!inputToKcp(d)
      /\ rKcp' = rKcp /\ rRd' = rRd /\ rChunks' = rChunks
  BY DEF ToHome, remoteVars
<1>2. hCmd' = hCmd /\ toRemote' = toRemote /\ hChunks' = hChunks
  BY <1>1 DEF Home!inputToKcp
<1>3. InLog(hRd', hChunks') = InLog(hRd, hChunks)
  <2>1. hRd' # "overlap" /\ hRd # "overlap"
    BY DEF SessionsInv, HomeProofs!FlowInv, HomeProofs!NoOverlap
  <2>2. hRd' = hRd \/ hRd' = Home!StartOp(hRd)
    BY <1>1 DEF Home!inputToKcp
  <2> QED
    BY <1>2, <2>1, <2>2 DEF Home!StartOp, InLog
<1>4. /\ d \in KcpDatagram /\ IsBlock(hKcp)
      /\ d.type = "push" => d.sn \in 1 .. Len(rKcp.log)
  BY <1>1 DEF TunnelInv, Flow, Carries
<1>5. hKcp'.log = hKcp.log /\ Acks(toRemote, hKcp'.acklist, rKcp.log)
  <2>1. Acks(toRemote, hKcp.acklist, rKcp.log)
    BY DEF NumberInv
  <2>2. CASE hKcp' = hKcp
    BY <2>1, <2>2
  <2>3. CASE hKcp' = ikcp_recvAll(ikcp_input(hKcp, d))
    BY <1>4, <2>1, <2>3, InputOwes
  <2> QED
    BY <1>1, <2>2, <2>3, HomeInput DEF InputStep
<1>6. Acks(toHome', rKcp.acklist, hKcp.log)
  BY <1>1, AcksKeep DEF NumberInv
<1> QED
  BY <1>1, <1>2, <1>3, <1>5, <1>6 DEF NumberInv

LEMMA ToRemoteNumbers ==
  ASSUME TunnelInv, SessionsInv, SessionsInv', NumberInv, NEW d, ToRemote(d)
  PROVE  NumberInv'
<1>1. /\ d \in toRemote /\ toRemote' \in SUBSET toRemote
      /\ Remote!listen(d)
      /\ hKcp' = hKcp /\ hRd' = hRd /\ hChunks' = hChunks /\ hCmd' = hCmd
  BY DEF ToRemote, homeVars
<1>2. toHome' = toHome /\ rChunks' = rChunks
  BY <1>1 DEF Remote!listen
<1>3. InLog(rRd', rChunks') = InLog(rRd, rChunks)
  <2>1. rRd' # "overlap" /\ rRd # "overlap"
    BY DEF SessionsInv, RemoteProofs!FlowInv, RemoteProofs!OneReadOneWrite
  <2>2. rRd' = rRd \/ rRd' = Remote!StartOp(rRd)
    BY <1>1 DEF Remote!listen
  <2> QED
    BY <1>2, <2>1, <2>2 DEF Remote!StartOp, InLog
<1>4. /\ d \in KcpDatagram /\ IsBlock(rKcp)
      /\ d.type = "push" => d.sn \in 1 .. Len(hKcp.log)
  BY <1>1 DEF TunnelInv, Flow, Carries
<1>5. rKcp'.log = rKcp.log /\ Acks(toHome, rKcp'.acklist, hKcp.log)
  <2>1. Acks(toHome, rKcp.acklist, hKcp.log)
    BY DEF NumberInv
  <2>2. CASE rKcp' = rKcp
    BY <2>1, <2>2
  <2>3. CASE rKcp' = ikcp_recvAll(ikcp_input(rKcp, d))
    BY <1>4, <2>1, <2>3, InputOwes
  <2> QED
    BY <1>1, <2>2, <2>3, RemoteInput DEF InputStep
<1>6. Acks(toRemote', hKcp.acklist, rKcp.log)
  BY <1>1, AcksKeep DEF NumberInv
<1> QED
  BY <1>1, <1>2, <1>3, <1>5, <1>6 DEF NumberInv

\* and by every other step.
LEMMA NumberStep ==
  ASSUME TunnelInv, SessionsInv, SessionsInv', NumberInv, [Next]_vars
  PROVE  NumberInv'
<1>1. CASE HomeStep
  BY <1>1, HomeStepNumbers
<1>2. CASE RemoteStep
  BY <1>2, RemoteStepNumbers
<1>3. CASE \E d \in HomeDatagram : ToRemote(d)
  BY <1>3, ToRemoteNumbers
<1>4. CASE \E d \in RemoteDatagram : ToHome(d)
  BY <1>4, ToHomeNumbers
<1>5. CASE Lose \/ UNCHANGED vars
  <2>1. /\ toRemote' \in SUBSET toRemote /\ toHome' \in SUBSET toHome
        /\ hKcp' = hKcp /\ hRd' = hRd /\ hChunks' = hChunks /\ hCmd' = hCmd
        /\ rKcp' = rKcp /\ rRd' = rRd /\ rChunks' = rChunks
    BY <1>5 DEF Lose, vars, homeVars, remoteVars
  <2>2. /\ Acks(toHome', rKcp.acklist, hKcp.log)
        /\ Acks(toRemote', hKcp.acklist, rKcp.log)
    BY <2>1, AcksKeep DEF NumberInv
  <2> QED
    BY <2>1, <2>2 DEF NumberInv
<1> QED
  BY <1>1, <1>2, <1>3, <1>4, <1>5 DEF Next

\* n chunks are n messages.
LEMMA ChunkMessages ==
  ASSUME NEW n \in Nat
  PROVE  LET S == {K!Normal(i) : i \in 1 .. n}
         IN  IsFiniteSet(S) /\ Cardinality(S) = n
<1> DEFINE S == {K!Normal(i) : i \in 1 .. n}
           f == [i \in 1 .. n |-> K!Normal(i)]
<1>1. f \in Bijection(1 .. n, S)
  BY DEF Bijection, Injection, Surjection, IsInjective, K!Normal
<1>2. IsFiniteSet(1 .. n) /\ Cardinality(1 .. n) = n
  BY FS_Interval
<1>3. ExistsBijection(1 .. n, S)
  BY <1>1 DEF ExistsBijection
<1>4. IsFiniteSet(S) /\ Cardinality(S) = n
  BY <1>2, <1>3, FS_Bijection
<1> QED
  BY <1>4

\* i + MaxFrags * j is a number of KCP when j + i messages are.
LEMMA NumberBound ==
  ASSUME NEW i \in 0 .. 1, NEW j \in Nat, NEW m \in Nat, j + i <= m
  PROVE  i + MaxFrags * j <= MaxFrags * m
<1>1. MaxFrags \in Nat /\ MaxFrags >= 1
  BY TunnelAssumption DEF TunnelAssumption
<1>2. MaxFrags * (j + i) <= MaxFrags * m
  <2>1. m - (j + i) \in Nat
    OBVIOUS
  <2>2. MaxFrags * (m - (j + i)) \in Nat
    BY <1>1, <2>1
  <2>3. MaxFrags * (m - (j + i)) = MaxFrags * m - MaxFrags * (j + i)
    BY <1>1
  <2> QED
    BY <1>1, <2>2, <2>3
<1>3. MaxFrags * (j + i) = MaxFrags * j + MaxFrags * i
  BY <1>1
<1>4. i <= MaxFrags * i
  BY <1>1
<1> QED
  BY <1>1, <1>2, <1>3, <1>4

\* A copy of an entry, or an ack of one of the peer's entries, is in the set.
LEMMA InSet ==
  ASSUME NEW log, NEW msgs, NEW first \in 0 .. 1, Placed(log, msgs, first),
         Len(log) \in Nat, Len(log) <= MaxFrags * Cardinality(msgs),
         Cardinality(msgs) \in Nat,
         NEW log2, NEW n2 \in Nat, Len(log2) \in Nat,
         Len(log2) <= MaxFrags * n2,
         NEW out, NEW owed, Carries(out, log), Acks(out, owed, log2)
  PROVE  out \subseteq Datagram(msgs, first, n2)
<1>1. MaxFrags \in Nat
  BY TunnelAssumption DEF TunnelAssumption
<1> SUFFICES ASSUME NEW d \in out PROVE d \in Datagram(msgs, first, n2)
  OBVIOUS
<1>2. CASE d.type = "push"
  <2>1. /\ d \in [type : {"push"}, sn : Nat, frg : Nat, msg : Message]
        /\ d.sn \in 1 .. Len(log)
        /\ d.frg = log[d.sn].frg /\ d.msg = log[d.sn].msg
    BY <1>2 DEF Carries, KcpDatagram
  <2>2. /\ d.frg \in 0 .. (MaxFrags - 1) /\ d.msg \in msgs
        /\ d.sn \in (first + d.msg.data) .. (first + MaxFrags * d.msg.data)
    BY <2>1 DEF Placed
  <2>3. d.sn \in 1 .. (MaxFrags * Cardinality(msgs))
    BY <1>1, <2>1
  <2> QED
    BY <2>1, <2>2, <2>3 DEF Datagram
<1>3. CASE d.type = "ack"
  <2>1. d \in [type : {"ack"}, sn : Nat] /\ d.sn \in 1 .. Len(log2)
    BY <1>3 DEF Carries, KcpDatagram, Acks
  <2>2. d.sn \in 1 .. (MaxFrags * n2)
    BY <1>1, <2>1
  <2> QED
    BY <2>1, <2>2 DEF Datagram
<1> QED
  BY <1>2, <1>3 DEF Carries, KcpDatagram

\* What the network may carry: no delivery is left out of Next because its
\* datagram is missing from the sets that Next quantifies over.
NothingExcluded ==
  toRemote \subseteq HomeDatagram /\ toHome \subseteq RemoteDatagram

\* The invariants say so.
LEMMA NumbersInclude ==
  TunnelInv /\ SessionsInv /\ NumberInv => NothingExcluded
<1> SUFFICES ASSUME TunnelInv, SessionsInv, NumberInv PROVE NothingExcluded
  OBVIOUS
<1> DEFINE hc == IF hCmd = "newSession" THEN 0 ELSE InLog(hRd, hChunks)
           rc == InLog(rRd, rChunks)
<1>1. /\ MaxFrags \in Nat /\ HomeChunks \in Nat /\ RemoteChunks \in Nat
      /\ MaxFrags * 0 = 0
  BY TunnelAssumption DEF TunnelAssumption
<1>2. hc \in 0 .. HomeChunks /\ rc \in 0 .. RemoteChunks
  BY <1>1, NumberFacts DEF InLog
<1>3. /\ Len(hKcp.log) \in Nat /\ Len(hKcp.log) <= 1 + MaxFrags * hc
      /\ Len(rKcp.log) \in Nat /\ Len(rKcp.log) <= 0 + MaxFrags * rc
  <2>1. Len(hKcp.log) \in Nat /\ Len(rKcp.log) \in Nat
    BY NumberFacts DEF IsBlock
  <2>2. Len(hKcp.log) <= 1 + MaxFrags * hc
    <3>1. CASE hCmd = "newSession"
      <4>1. Len(hKcp.log) = 0 /\ hc = 0
        BY <3>1 DEF NumberInv
      <4> QED
        BY <1>1, <4>1
    <3>2. CASE hCmd # "newSession"
      <4>1. Sized(hKcp.log, 1, hc)
        BY <3>2 DEF NumberInv
      <4> HIDE DEF hc
      <4> QED
        BY <1>1, <1>2, <2>1, <4>1 DEF Sized
    <3> QED
      BY <3>1, <3>2
  <2>3. Len(rKcp.log) <= 0 + MaxFrags * rc
    <3>1. Sized(rKcp.log, 0, rc)
      BY DEF NumberInv
    <3> HIDE DEF rc
    <3> QED
      BY <1>1, <1>2, <2>1, <3>1 DEF Sized
  <2> QED
    BY <2>1, <2>2, <2>3
<1>4. Cardinality(RemoteMessage) = RemoteChunks
  BY <1>1, ChunkMessages DEF RemoteMessage
<1>5. Cardinality(HomeMessage) = HomeChunks + 1
  <2> DEFINE S == {K!Normal(i) : i \in 1 .. HomeChunks}
  <2>1. IsFiniteSet(S) /\ Cardinality(S) = HomeChunks
    BY <1>1, ChunkMessages
  <2>2. K!NewSession \notin S
    BY DEF K!NewSession, K!Normal
  <2>3. Cardinality(S \cup {K!NewSession}) = HomeChunks + 1
    <3> HIDE DEF S
    <3> QED
      BY <2>1, <2>2, FS_AddElement
  <2>4. HomeMessage = S \cup {K!NewSession}
    BY DEF HomeMessage
  <2> QED
    BY <2>3, <2>4
<1>6. /\ Carries(toRemote, hKcp.log) /\ Carries(toHome, rKcp.log)
      /\ Placed(hKcp.log, HomeMessage, 1) /\ Placed(rKcp.log, RemoteMessage, 0)
      /\ Acks(toRemote, hKcp.acklist, rKcp.log)
      /\ Acks(toHome, rKcp.acklist, hKcp.log)
  BY DEF TunnelInv, Flow, NumberInv
<1> HIDE DEF hc, rc
<1>7. /\ Len(hKcp.log) <= MaxFrags * (HomeChunks + 1)
      /\ Len(rKcp.log) <= MaxFrags * RemoteChunks
  <2>1. hc \in Nat /\ hc + 1 <= HomeChunks + 1 /\ HomeChunks + 1 \in Nat
    BY <1>1, <1>2
  <2>2. rc \in Nat /\ rc + 0 <= RemoteChunks
    BY <1>1, <1>2
  <2>3. 1 + MaxFrags * hc <= MaxFrags * (HomeChunks + 1)
    BY <2>1, NumberBound
  <2>4. 0 + MaxFrags * rc <= MaxFrags * RemoteChunks
    BY <1>1, <2>2, NumberBound
  <2> QED
    BY <1>1, <1>3, <2>1, <2>2, <2>3, <2>4
<1>8. toRemote \subseteq Datagram(HomeMessage, 1, RemoteChunks)
  <2>1. /\ 1 \in 0 .. 1 /\ Cardinality(HomeMessage) \in Nat
        /\ Len(hKcp.log) <= MaxFrags * Cardinality(HomeMessage)
    BY <1>1, <1>5, <1>7
  <2> QED
    BY <1>1, <1>3, <1>6, <1>7, <2>1, InSet, Zenon
<1>9. toHome \subseteq Datagram(RemoteMessage, 0, HomeChunks + 1)
  <2>1. /\ 0 \in 0 .. 1 /\ Cardinality(RemoteMessage) \in Nat
        /\ Len(rKcp.log) <= MaxFrags * Cardinality(RemoteMessage)
        /\ HomeChunks + 1 \in Nat
    BY <1>1, <1>4, <1>7
  <2> QED
    BY <1>3, <1>6, <1>7, <2>1, InSet, Zenon
<1> QED
  BY <1>8, <1>9 DEF NothingExcluded, HomeDatagram, RemoteDatagram

\* Every datagram that ikcp_flush puts on the network, in either direction, is
\* one that the network may deliver: HomeDatagram and RemoteDatagram leave out
\* nothing, for any number of chunks and segments.
THEOREM NetworkIsComplete == Spec => []NothingExcluded
<1>1. /\ TunnelInv /\ SessionsInv /\ NumberInv /\ SessionsInv' /\ [Next]_vars
           => NumberInv'
  BY NumberStep
<1>2. TunnelInv /\ [Next]_vars => TunnelInv'
  BY TunnelStep DEF StepGoal
<1> QED
  BY TunnelInit, SessionsInit, NumberInit, SessionsStep, <1>1, <1>2,
     NumbersInclude, PTL DEF Spec
=============================================================================
