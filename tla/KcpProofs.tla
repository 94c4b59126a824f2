----------------------------- MODULE KcpProofs -----------------------------
(***************************************************************************)
(* What the operators of Selection and Kcp return: lemmas for the proofs   *)
(* about the sessions, the tunnel and the memory pool.                     *)
(***************************************************************************)
EXTENDS Kcp, FiniteSetTheorems, SequenceTheorems, TLAPS

\* The rank of a member of a finite set of integers, from 1 on; a smaller
\* member has a smaller rank.
LEMMA RankType ==
  ASSUME NEW P \in SUBSET Int, IsFiniteSet(P), NEW p \in P
  PROVE  Rank(P, p) \in 1 .. Cardinality(P)
<1> DEFINE B == {e \in P : e <= p}
<1>1. B \in SUBSET P /\ p \in B
  OBVIOUS
<1> HIDE DEF B
<1>2. IsFiniteSet(B) /\ Cardinality(B) \in Nat
      /\ Cardinality(P) \in Nat /\ Cardinality(B) <= Cardinality(P)
  BY <1>1, FS_Subset, FS_CardinalityType
<1>3. Cardinality(B) # 0
  BY <1>1, <1>2, FS_EmptySet
<1> QED
  BY <1>2, <1>3 DEF B, Rank

LEMMA RankLess ==
  ASSUME NEW P \in SUBSET Int, IsFiniteSet(P), NEW p \in P, NEW r \in P, p < r
  PROVE  Rank(P, p) < Rank(P, r)
<1> DEFINE B == {e \in P : e <= p}
           C == {e \in P : e <= r}
<1>1. p \in Int /\ r \in Int /\ \A e \in P : e \in Int
  OBVIOUS
<1>2. \A e \in P : e <= p => e <= r
  BY <1>1
<1>3. B \in SUBSET C
  BY <1>2
<1>4. r \in C /\ r \notin B
  BY <1>1
<1>5. IsFiniteSet(C)
  <2>1. C \in SUBSET P
    OBVIOUS
  <2> QED
    BY <2>1, FS_Subset
<1> HIDE DEF B, C
<1>6. IsFiniteSet(B) /\ Cardinality(B) \in Nat /\ Cardinality(C) \in Nat
  BY <1>3, <1>5, FS_Subset, FS_CardinalityType
<1>7. Cardinality(B) <= Cardinality(C) /\ Cardinality(B) # Cardinality(C)
  BY <1>3, <1>4, <1>5, FS_Subset
<1>8. Cardinality(B) < Cardinality(C)
  BY <1>6, <1>7
<1> QED
  BY <1>8 DEF B, C, Rank

\* Kth finds a member, the one of that rank: ranks are an injection of the
\* set into as many numbers, so they are all of them.
LEMMA KthType ==
  ASSUME NEW P \in SUBSET Int, IsFiniteSet(P), NEW j \in 1 .. Cardinality(P)
  PROVE  Kth(P, j) \in P /\ Rank(P, Kth(P, j)) = j
<1> DEFINE n == Cardinality(P)
           rank == [p \in P |-> Rank(P, p)]
<1>1. n \in Nat /\ IsFiniteSet(1 .. n) /\ Cardinality(1 .. n) = n
  BY FS_CardinalityType, FS_Interval
<1>2. rank \in [P -> 1 .. n]
  BY RankType
<1>3. ASSUME NEW p \in P, NEW r \in P, Rank(P, p) = Rank(P, r)
      PROVE  p = r
  <2>1. p \in Int /\ r \in Int /\ Rank(P, p) \in Int
    BY <1>1, RankType
  <2>2. ~ (p < r)
    BY <1>3, <2>1, RankLess
  <2>3. ~ (r < p)
    BY <1>3, <2>1, RankLess
  <2> QED
    BY <2>1, <2>2, <2>3
<1>4. rank \in Injection(P, 1 .. n)
  BY <1>2, <1>3 DEF Injection, IsInjective
<1>5. rank \in Surjection(P, 1 .. n)
  <2>1. Cardinality(P) = Cardinality(1 .. n)
    BY <1>1
  <2> HIDE DEF rank, n
  <2> QED
    BY <1>1, <1>4, <2>1, FS_Injection
<1>6. \E p \in P : rank[p] = j
  BY <1>5 DEF Surjection
<1> QED
  BY <1>6 DEF Kth

\* Kth lists the members in increasing order, and all of them.
LEMMA KthOrder ==
  ASSUME NEW P \in SUBSET Int, IsFiniteSet(P)
  PROVE  /\ \A i, j \in 1 .. Cardinality(P) : i < j => Kth(P, i) < Kth(P, j)
         /\ \A p \in P : Kth(P, Rank(P, p)) = p
<1>0. Cardinality(P) \in Nat /\ \A p \in P : p \in Int
  BY FS_CardinalityType
<1>1. ASSUME NEW i \in 1 .. Cardinality(P), NEW j \in 1 .. Cardinality(P),
             i < j
      PROVE  Kth(P, i) < Kth(P, j)
  <2>1. /\ Kth(P, i) \in P /\ Rank(P, Kth(P, i)) = i
        /\ Kth(P, j) \in P /\ Rank(P, Kth(P, j)) = j
    BY KthType
  <2>2. i \in Int /\ j \in Int /\ ~ (j < i) /\ i # j
    BY <1>0, <1>1
  <2>3. ~ (Kth(P, j) < Kth(P, i))
    BY <2>1, <2>2, RankLess
  <2>4. Kth(P, i) \in Int /\ Kth(P, j) \in Int
    BY <1>0, <2>1
  <2>5. Kth(P, i) # Kth(P, j)
    BY <2>1, <2>2
  <2> QED
    BY <2>3, <2>4, <2>5
<1>2. ASSUME NEW p \in P
      PROVE  Kth(P, Rank(P, p)) = p
  <2>1. Rank(P, p) \in 1 .. Cardinality(P)
    BY RankType
  <2> DEFINE k == Kth(P, Rank(P, p))
  <2>2. k \in P /\ Rank(P, k) = Rank(P, p) /\ Rank(P, p) \in Int
    BY <1>0, <2>1, KthType
  <2> HIDE DEF k
  <2>3. ~ (k < p)
    BY <2>2, RankLess
  <2>4. ~ (p < k)
    BY <2>2, RankLess
  <2>5. k = p
    BY <1>0, <2>2, <2>3, <2>4
  <2> QED
    BY <2>5 DEF k
<1> QED
  BY <1>1, <1>2

\* A finite set of integers has a least and a greatest member.
LEMMA Extremes ==
  ASSUME NEW P \in SUBSET Int, IsFiniteSet(P), P # {}
  PROVE  /\ \E p \in P : \A e \in P : p <= e
         /\ \E p \in P : \A e \in P : e <= p
<1> DEFINE n == Cardinality(P)
<1>1. n \in Nat /\ n # 0
  BY FS_CardinalityType, FS_EmptySet
<1>2. 1 \in 1 .. n /\ n \in 1 .. n
  BY <1>1
<1>3. Kth(P, 1) \in P /\ Kth(P, n) \in P
  BY <1>2, KthType
<1>4. ASSUME NEW e \in P
      PROVE  Kth(P, 1) <= e /\ e <= Kth(P, n)
  <2>1. PICK j \in 1 .. n : Kth(P, j) = e
    BY KthOrder, RankType
  <2>2. 1 < j => Kth(P, 1) < e
    BY <1>2, <2>1, KthOrder
  <2>3. j < n => e < Kth(P, n)
    BY <1>2, <2>1, KthOrder
  <2>4. Kth(P, 1) \in Int /\ Kth(P, n) \in Int /\ e \in Int
    BY <1>3
  <2>5. 1 = j \/ 1 < j
    BY <1>1
  <2>6. n = j \/ j < n
    BY <1>1
  <2> HIDE DEF n
  <2> QED
    BY <2>1, <2>2, <2>3, <2>4, <2>5, <2>6
<1> QED
  BY <1>3, <1>4

\* A selection is a sequence of elements of the original, as long as there
\* are positions, and it has the element at each of them.
LEMMA SelectAtType ==
  ASSUME NEW S, NEW q \in Seq(S), NEW P \in SUBSET (1 .. Len(q))
  PROVE  /\ IsFiniteSet(P) /\ Cardinality(P) \in Nat
         /\ SelectAt(q, P) \in Seq(S) /\ Len(SelectAt(q, P)) = Cardinality(P)
         /\ \A j \in 1 .. Cardinality(P) : Kth(P, j) \in P
              /\ SelectAt(q, P)[j] = q[Kth(P, j)]
         /\ \A p \in P : \E j \in 1 .. Cardinality(P) :
              SelectAt(q, P)[j] = q[p]
<1>1. Len(q) \in Nat /\ P \in SUBSET Int
  OBVIOUS
<1>2. IsFiniteSet(P) /\ Cardinality(P) \in Nat
  <2>1. IsFiniteSet(1 .. Len(q))
    BY <1>1, FS_Interval
  <2> QED
    BY <2>1, FS_Subset, FS_CardinalityType
<1>3. \A j \in 1 .. Cardinality(P) : Kth(P, j) \in P
  BY <1>1, <1>2, KthType
<1>4. \A j \in 1 .. Cardinality(P) : q[Kth(P, j)] \in S
  <2>1. \A p \in P : q[p] \in S
    OBVIOUS
  <2> QED
    BY <1>3, <2>1
<1>5. /\ SelectAt(q, P) \in Seq(S) /\ Len(SelectAt(q, P)) = Cardinality(P)
      /\ \A j \in 1 .. Cardinality(P) : SelectAt(q, P)[j] = q[Kth(P, j)]
  BY <1>2, <1>4 DEF SelectAt
<1>6. ASSUME NEW p \in P
      PROVE  \E j \in 1 .. Cardinality(P) : SelectAt(q, P)[j] = q[p]
  <2>1. PICK j \in 1 .. Cardinality(P) : Kth(P, j) = p
    BY <1>1, <1>2, KthOrder, RankType
  <2> QED
    BY <1>5, <2>1
<1> QED
  BY <1>2, <1>3, <1>5, <1>6
-----------------------------------------------------------------------------
\* Among more numbers than there are segments one has no segment, and the
\* first such number is where the in-order segments end.
LEMMA FirstMissingType ==
  ASSUME NEW buf, IsFiniteSet(buf), NEW nxt \in Nat
  PROVE  /\ FirstMissing(buf, nxt) \in Nat /\ nxt <= FirstMissing(buf, nxt)
         /\ ~ HasSeg(buf, FirstMissing(buf, nxt))
         /\ \A m \in nxt .. (FirstMissing(buf, nxt) - 1) : HasSeg(buf, m)
<1> DEFINE c == Cardinality(buf)
           All == nxt .. (nxt + c)
           Missing == {n \in All : ~ HasSeg(buf, n)}
           at == [n \in All |-> SegAt(buf, n)]
<1>1. c \in Nat
  BY FS_CardinalityType
<1>2. IsFiniteSet(All) /\ Cardinality(All) = c + 1
  BY <1>1, FS_Interval
<1>3. \A n : HasSeg(buf, n) => SegAt(buf, n) \in buf /\ SegAt(buf, n).sn = n
  BY DEF HasSeg, SegAt
<1>4. Missing # {}
  <2> SUFFICES ASSUME Missing = {} PROVE FALSE
    OBVIOUS
  <2>1. \A n \in All : at[n] \in buf /\ at[n].sn = n
    BY <1>3
  <2>2. at \in [All -> buf]
    BY <2>1
  <2>3. Cardinality(buf) < Cardinality(All)
    BY <1>1, <1>2
  <2> HIDE DEF All, at, Missing
  <2>4. \E m, n \in All : m # n /\ at[m] = at[n]
    BY <1>2, <2>2, <2>3, FS_PigeonHole
  <2> QED
    BY <2>1, <2>4
<1>5. Missing \in SUBSET Int /\ IsFiniteSet(Missing)
  <2>1. Missing \in SUBSET All /\ All \in SUBSET Int
    BY <1>1
  <2> HIDE DEF All, Missing
  <2> QED
    BY <1>2, <2>1, FS_Subset
<1>6. PICK n \in Missing : \A m \in Missing : n <= m
  <2> HIDE DEF Missing
  <2> QED
    BY <1>4, <1>5, Extremes
<1>7. n \in All /\ n \in Int /\ ~ HasSeg(buf, n)
  BY <1>1
<1>8. ASSUME NEW m \in nxt .. (n - 1)
      PROVE  HasSeg(buf, m)
  <2>1. m \in All /\ ~ (n <= m)
    BY <1>1, <1>7
  <2> QED
    BY <1>6, <2>1
<1>9. FirstMissing(buf, nxt) \in All /\ ~ HasSeg(buf, FirstMissing(buf, nxt))
      /\ \A m \in nxt .. (FirstMissing(buf, nxt) - 1) : HasSeg(buf, m)
  BY <1>7, <1>8 DEF FirstMissing
<1> QED
  BY <1>1, <1>9

\* What the messages at some positions carry is a sequence of numbers, one
\* for each of them.
LEMMA DataAtType ==
  ASSUME NEW q \in Seq(Segment), NEW P \in SUBSET (1 .. Len(q))
  PROVE  /\ DataAt(q, P) \in Seq(Nat) /\ Len(DataAt(q, P)) = Cardinality(P)
         /\ \A j \in 1 .. Cardinality(P) :
              DataAt(q, P)[j] = q[Kth(P, j)].msg.data
         /\ DataAt(q, P) = << >> <=> P = {}
<1> DEFINE taken == SelectAt(q, P)
<1>1. /\ IsFiniteSet(P) /\ Cardinality(P) \in Nat
      /\ taken \in Seq(Segment) /\ Len(taken) = Cardinality(P)
      /\ \A j \in 1 .. Cardinality(P) : taken[j] = q[Kth(P, j)]
  BY SelectAtType
<1> HIDE DEF taken
<1>2. \A j \in 1 .. Len(taken) : taken[j].msg.data \in Nat
  <2>1. \A j \in 1 .. Len(taken) : taken[j] \in Segment
    BY <1>1, ElementOfSeq
  <2> QED
    BY <2>1 DEF Segment, Message
<1>3. /\ DataAt(q, P) \in Seq(Nat) /\ Len(DataAt(q, P)) = Len(taken)
      /\ \A j \in 1 .. Len(taken) : DataAt(q, P)[j] = taken[j].msg.data
  BY <1>1, <1>2 DEF DataAt, taken
<1>4. DataAt(q, P) = << >> <=> Len(DataAt(q, P)) = 0
  BY <1>3, EmptySeq
<1>5. Cardinality(P) = 0 <=> P = {}
  BY <1>1, FS_EmptySet
<1> QED
  BY <1>1, <1>3, <1>4, <1>5
-----------------------------------------------------------------------------
\* The backlog is a number.
LEMMA WaitsndType ==
  ASSUME NEW k, IsBlock(k)
  PROVE  ikcp_waitsnd(k) \in Nat /\ IsFiniteSet(k.snd)
<1>1. Len(k.log) \in Nat
  BY DEF IsBlock
<1>2. IsFiniteSet(1 .. Len(k.log))
  BY <1>1, FS_Interval
<1>3. IsFiniteSet(k.snd)
  BY <1>2, FS_Subset DEF IsBlock
<1> QED
  BY <1>3, FS_CardinalityType DEF ikcp_waitsnd

\* A new block has no backlog.
LEMMA CreateBlock == IsBlock(ikcp_create) /\ ikcp_waitsnd(ikcp_create) = 0
BY FS_EmptySet DEF IsBlock, ikcp_create, ikcp_waitsnd

\* ikcp_send adds the segments of the message to the backlog.
LEMMA SendBlock ==
  ASSUME NEW k, IsBlock(k), NEW msg \in Message, NEW n \in Nat
  PROVE  /\ IsBlock(ikcp_send(k, msg, n))
         /\ ikcp_waitsnd(ikcp_send(k, msg, n)) = ikcp_waitsnd(k) + n
<1> DEFINE L == Len(k.log)
           segs == [i \in 1 .. n |-> [frg |-> n - i, msg |-> msg]]
           new == (L + 1) .. (L + n)
           k2 == ikcp_send(k, msg, n)
<1>1. L \in Nat /\ k.log \in Seq([frg : Nat, msg : Message])
  BY DEF IsBlock
<1>2. segs \in Seq([frg : Nat, msg : Message]) /\ Len(segs) = n
  OBVIOUS
<1> HIDE DEF segs
<1>3. /\ k2 = [k EXCEPT !.log = k.log \o segs, !.snd = k.snd \cup new]
  BY DEF ikcp_send, segs
<1> HIDE DEF k2
<1>4. /\ k.log \o segs \in Seq([frg : Nat, msg : Message])
      /\ Len(k.log \o segs) = L + n
  BY <1>1, <1>2, ConcatProperties
<1>5. k.snd \cup new \in SUBSET (1 .. (L + n))
  BY <1>1 DEF IsBlock
<1>6. IsBlock(k2) /\ k2.snd = k.snd \cup new
  BY <1>3, <1>4, <1>5 DEF IsBlock
<1>7. k.snd \cap new = {}
  BY <1>1 DEF IsBlock
<1>8. IsFiniteSet(new) /\ Cardinality(new) = n
  BY <1>1, FS_Interval
<1>9. Cardinality(k.snd \cup new) = Cardinality(k.snd) + n
  <2>1. IsFiniteSet(k.snd) /\ Cardinality(k.snd) \in Nat
    BY WaitsndType DEF ikcp_waitsnd
  <2>2. Cardinality(k.snd \cup new)
          = Cardinality(k.snd) + Cardinality(new)
              - Cardinality(k.snd \cap new)
    BY <1>8, <2>1, FS_Union
  <2>3. Cardinality(k.snd \cap new) = 0
    BY <1>7, FS_EmptySet
  <2> HIDE DEF new
  <2> QED
    BY <1>8, <2>1, <2>2, <2>3
<1> QED
  BY <1>6, <1>9 DEF ikcp_waitsnd, k2

\* ikcp_flush, ikcp_recv and the arrival of a segment leave the backlog as it
\* is; an ack may shorten it.
LEMMA FlushBlock ==
  ASSUME NEW k, IsBlock(k)
  PROVE  IsBlock(ikcp_flush(k)) /\ ikcp_flush(k).snd = k.snd
BY DEF IsBlock, ikcp_flush

\* The complete messages of a queue, and the last of them.
LEMMA EndsType ==
  ASSUME NEW q \in Seq(Segment)
  PROVE  /\ MessageEnds(q) \in SUBSET (1 .. Len(q))
         /\ IsFiniteSet(MessageEnds(q))
         /\ LastEnd(q) \in 0 .. Len(q)
         /\ \A e \in MessageEnds(q) : e <= LastEnd(q)
         /\ MessageEnds(q) # {} => LastEnd(q) \in MessageEnds(q)
<1>1. MessageEnds(q) \in SUBSET (1 .. Len(q)) /\ Len(q) \in Nat
  BY DEF MessageEnds
<1>2. IsFiniteSet(MessageEnds(q))
  <2>1. IsFiniteSet(1 .. Len(q))
    BY <1>1, FS_Interval
  <2> QED
    BY <1>1, <2>1, FS_Subset
<1>3. CASE MessageEnds(q) = {}
  BY <1>1, <1>2, <1>3 DEF LastEnd
<1>4. CASE MessageEnds(q) # {}
  <2>1. MessageEnds(q) \in SUBSET Int
    BY <1>1
  <2>2. \E i \in MessageEnds(q) : \A e \in MessageEnds(q) : e <= i
    BY <1>2, <1>4, <2>1, Extremes
  <2>3. LastEnd(q) \in MessageEnds(q)
        /\ \A e \in MessageEnds(q) : e <= LastEnd(q)
    BY <1>4, <2>2 DEF LastEnd
  <2> QED
    BY <1>1, <1>2, <2>3
<1> QED
  BY <1>3, <1>4

LEMMA RecvBlock ==
  ASSUME NEW k, IsBlock(k)
  PROVE  IsBlock(ikcp_recvAll(k)) /\ ikcp_recvAll(k).snd = k.snd
<1> DEFINE q == k.rcvQueue
           rest == SubSeq(q, LastEnd(q) + 1, Len(q))
<1>1. q \in Seq(Segment) /\ Len(q) \in Nat /\ LastEnd(q) \in 0 .. Len(q)
  BY EndsType DEF IsBlock
<1>2. rest \in Seq(Segment)
  <2>1. \A i \in LastEnd(q) + 1 .. Len(q) : q[i] \in Segment
    BY <1>1, ElementOfSeq
  <2> QED
    BY <1>1, <2>1, SubSeqProperties
<1>3. ikcp_recvAll(k) = [k EXCEPT !.rcvQueue = rest]
  BY DEF ikcp_recvAll
<1> HIDE DEF q, rest
<1> QED
  BY <1>2, <1>3 DEF IsBlock

\* The arrival of a segment: it is kept if it is new, and those that are in
\* order now move to the queue.
LEMMA PushBlock ==
  ASSUME NEW k, IsBlock(k), NEW d \in KcpDatagram, d.type = "push"
  PROVE  IsBlock(InputPush(k, d)) /\ InputPush(k, d).snd = k.snd
<1> DEFINE buf == Buffered(k, d)
           nxt == FirstMissing(buf, k.rcvNxt)
           new == [i \in 1 .. (nxt - k.rcvNxt) |->
                     SegAt(buf, k.rcvNxt + i - 1)]
           left == {s \in buf : s.sn >= nxt}
<1>1. d.sn \in Nat /\ [sn |-> d.sn, frg |-> d.frg, msg |-> d.msg] \in Segment
  BY DEF KcpDatagram, Segment
<1>2. k.rcvBuf \in SUBSET Segment /\ IsFiniteSet(k.rcvBuf) /\ k.rcvNxt \in Nat
      /\ k.rcvQueue \in Seq(Segment) /\ k.acklist \in SUBSET Nat
  BY DEF IsBlock
<1>3. buf \in SUBSET Segment /\ IsFiniteSet(buf)
  <2> DEFINE seg == [sn |-> d.sn, frg |-> d.frg, msg |-> d.msg]
  <2>1. buf = k.rcvBuf \/ buf = k.rcvBuf \cup {seg}
    BY DEF Buffered
  <2>2. seg \in Segment
    BY <1>1
  <2> HIDE DEF buf, seg
  <2>3. IsFiniteSet(k.rcvBuf \cup {seg})
    BY <1>2, FS_AddElement
  <2> QED
    BY <1>2, <2>1, <2>2, <2>3
<1> HIDE DEF buf
<1>4. /\ nxt \in Nat /\ k.rcvNxt <= nxt
      /\ \A m \in k.rcvNxt .. (nxt - 1) : HasSeg(buf, m)
  BY <1>2, <1>3, FirstMissingType
<1> HIDE DEF nxt
<1>5. \A i \in 1 .. (nxt - k.rcvNxt) : SegAt(buf, k.rcvNxt + i - 1) \in Segment
  <2> SUFFICES ASSUME NEW i \in 1 .. (nxt - k.rcvNxt)
               PROVE  SegAt(buf, k.rcvNxt + i - 1) \in Segment
    OBVIOUS
  <2>1. HasSeg(buf, k.rcvNxt + i - 1)
    BY <1>2, <1>4
  <2> QED
    BY <1>3, <2>1 DEF HasSeg, SegAt
<1>6. new \in Seq(Segment)
  BY <1>2, <1>4, <1>5
<1>7. left \in SUBSET Segment /\ IsFiniteSet(left)
  <2>1. left \in SUBSET buf
    OBVIOUS
  <2> QED
    BY <1>3, <2>1, FS_Subset
<1>8. /\ k.rcvQueue \o new \in Seq(Segment)
      /\ k.acklist \cup {d.sn} \in SUBSET Nat
  BY <1>1, <1>2, <1>6, ConcatProperties
<1>9. InputPush(k, d) =
        [k EXCEPT !.acklist = k.acklist \cup {d.sn}, !.rcvBuf = left,
                  !.rcvQueue = k.rcvQueue \o new, !.rcvNxt = nxt]
  BY DEF InputPush, buf, nxt
<1> HIDE DEF new, left
<1> QED
  BY <1>4, <1>7, <1>8, <1>9 DEF IsBlock

LEMMA InputBlock ==
  ASSUME NEW k, IsBlock(k), NEW d \in KcpDatagram
  PROVE  /\ IsBlock(ikcp_input(k, d))
         /\ ikcp_waitsnd(ikcp_input(k, d)) <= ikcp_waitsnd(k)
<1>1. CASE d.type = "ack"
  <2>1. /\ ikcp_input(k, d) = InputAck(k, d)
        /\ IsBlock(InputAck(k, d)) /\ InputAck(k, d).snd = k.snd \ {d.sn}
    BY <1>1 DEF IsBlock, ikcp_input, InputAck
  <2>2. /\ IsFiniteSet(k.snd) /\ Cardinality(k.snd) \in Nat
        /\ k.snd \ {d.sn} \in SUBSET k.snd
    BY WaitsndType DEF ikcp_waitsnd
  <2>3. Cardinality(k.snd \ {d.sn}) <= Cardinality(k.snd)
    BY <2>2, FS_Subset
  <2> QED
    BY <2>1, <2>3 DEF ikcp_waitsnd
<1>2. CASE d.type # "ack"
  <2>1. d.type = "push"
    BY <1>2 DEF KcpDatagram
  <2>2. /\ ikcp_input(k, d) = InputPush(k, d)
        /\ IsBlock(InputPush(k, d)) /\ InputPush(k, d).snd = k.snd
    BY <1>2, <2>1, PushBlock DEF ikcp_input
  <2> QED
    BY <2>2, WaitsndType DEF ikcp_waitsnd
<1> QED
  BY <1>1, <1>2
=============================================================================
