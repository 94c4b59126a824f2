--------------------------- MODULE FramingProofs ---------------------------
(***************************************************************************)
(* What rests on the lengths of Framing: a session's KCP takes only what   *)
(* was sent in its name, although neither handler tests the result of      *)
(* doDecrypt; and what kcpCallBack writes after encryption fits the node   *)
(* the memory pool gave it.  With the latter goes what the pool promises   *)
(* of its nodes: none is given out twice, malloc never follows the end of  *)
(* a list, no block in use is given back.  For every set of ids and sizes, *)
(* and any number of blocks and nodes.                                     *)
(***************************************************************************)
EXTENDS UdpIngress, MemoryPool, KcpProofs

\* A datagram is a record, and one that authenticates is one that was sent.
LEMMA DatagramShape ==
  ASSUME NEW d \in Datagram
  PROVE  /\ d.id \in HomeId /\ d.sent \in Payload
         /\ d.size \in Int /\ d.authentic \in BOOLEAN
         /\ d.authentic => d.size = doEncrypt(sessionIdSize + d.sent)
<1> USE UdpIngressAssumption
    DEF UdpIngressAssumption, IKCP_OVERHEAD, doEncrypt, encrypt, sessionIdSize,
        KEYSIZE, GCM_IV_SIZE, GCM_TAG_SIZE, PADDINGSIZE, keyAndIvOffSet, minLen
<1>1. \A id \in HomeId, n \in Payload :
        /\ Sent(id, n).id = id /\ Sent(id, n).sent = n
        /\ Sent(id, n).size = doEncrypt(sessionIdSize + n)
        /\ Sent(id, n).size \in Int /\ Sent(id, n).authentic = TRUE
  BY DEF Sent
<1>2. \A g \in Genuine :
        /\ g = [id |-> g.id, sent |-> g.sent, size |-> g.size,
                authentic |-> TRUE]
        /\ g.authentic = TRUE
        /\ g.id \in HomeId /\ g.sent \in Payload /\ g.size \in Int
        /\ g.size = doEncrypt(sessionIdSize + g.sent)
  BY <1>1 DEF Genuine, Sent
<1>3. CASE d \in Genuine
  BY <1>2, <1>3
<1>4. CASE \E g \in Genuine, n \in DamagedSize : d = Damaged(g, n)
  <2>1. PICK g \in Genuine, n \in DamagedSize : d = Damaged(g, n)
    BY <1>4
  <2>2. n \in Int
    BY <1>2 DEF DamagedSize
  <2> QED
    BY <1>2, <2>1, <2>2 DEF Damaged
<1>5. d \in Genuine \/ \E g \in Genuine, n \in DamagedSize : d = Damaged(g, n)
  BY SMT DEF Datagram
<1> QED
  BY <1>3, <1>4, <1>5, Zenon

\* What is left of a datagram for ikcp_input is too short for it, or the
\* datagram authenticates and it is the KCP bytes it was sent with.
LEMMA Remains ==
  ASSUME NEW d \in Datagram,
         doDecrypt(d.size, d.authentic) - sessionIdSize >= IKCP_OVERHEAD
  PROVE  /\ d.authentic
         /\ doDecrypt(d.size, d.authentic) - sessionIdSize = d.sent
<1>1. /\ d.sent \in Nat /\ d.sent >= IKCP_OVERHEAD
      /\ d.size \in Int /\ d.authentic \in BOOLEAN
      /\ d.authentic => d.size = doEncrypt(sessionIdSize + d.sent)
  BY DatagramShape, UdpIngressAssumption DEF UdpIngressAssumption
<1>2. CASE ~ d.authentic
  BY <1>1, <1>2
  DEF doDecrypt, decrypt, minLen, IKCP_OVERHEAD, sessionIdSize, KEYSIZE,
      GCM_IV_SIZE, GCM_TAG_SIZE, PADDINGSIZE
<1>3. CASE d.authentic
  BY <1>1, <1>3
  DEF doDecrypt, decrypt, minLen, IKCP_OVERHEAD, sessionIdSize, KEYSIZE,
      GCM_IV_SIZE, GCM_TAG_SIZE, PADDINGSIZE, doEncrypt, encrypt
<1> QED
  BY <1>1, <1>2, <1>3

\* Feeding the session that the header names keeps OnlyGenuineFed.
LEMMA FeedStep ==
  ASSUME OnlyGenuineFed, NEW d \in Datagram, NEW id \in Header(d),
         inputToKcp(id, d)
  PROVE  OnlyGenuineFed'
<1> DEFINE n == doDecrypt(d.size, d.authentic) - sessionIdSize
<1>1. CASE n >= IKCP_OVERHEAD
  <2>1. d.authentic /\ n = d.sent
    BY <1>1, Remains
  <2>2. id = d.id
    BY <2>1 DEF Header
  <2>3. fed' = fed \cup {[session |-> id, took |-> n, of |-> d]}
    BY <1>1 DEF inputToKcp
  <2> SUFFICES ASSUME NEW f \in fed'
               PROVE  /\ f.of.authentic /\ f.session = f.of.id
                       /\ f.took = f.of.sent
    BY DEF OnlyGenuineFed
  <2>4. CASE f \in fed
    BY <2>4 DEF OnlyGenuineFed
  <2>5. CASE f = [session |-> id, took |-> n, of |-> d]
    <3>1. f.of = d /\ f.session = id /\ f.took = n
      BY <2>5
    <3> QED BY <2>1, <2>2, <3>1
  <2> QED
    BY <2>3, <2>4, <2>5
<1>2. CASE ~ n >= IKCP_OVERHEAD
  <2>1. fed' = fed
    BY <1>2 DEF inputToKcp
  <2> QED
    BY <2>1 DEF OnlyGenuineFed
<1> QED
  BY <1>1, <1>2

LEMMA IngressStep == OnlyGenuineFed /\ [Next]_vars => OnlyGenuineFed'
<1> SUFFICES ASSUME OnlyGenuineFed, [Next]_vars
             PROVE  OnlyGenuineFed'
  OBVIOUS
<1>1. ASSUME UNCHANGED fed
      PROVE  OnlyGenuineFed'
  BY <1>1 DEF OnlyGenuineFed
<1>2. ASSUME NEW d \in Datagram, receiveUdpMessageFromRemoteServer(d)
      PROVE  OnlyGenuineFed'
  BY <1>1, <1>2, FeedStep DEF receiveUdpMessageFromRemoteServer
<1>3. ASSUME NEW d \in Datagram, listen(d)
      PROVE  OnlyGenuineFed'
  BY <1>3, FeedStep DEF listen
<1>4. ASSUME NEW d \in Datagram, listenEmpty(d)
      PROVE  OnlyGenuineFed'
  BY <1>1, <1>4 DEF listenEmpty, vars
<1>5. CASE receiveFails
  BY <1>1, <1>5 DEF receiveFails
<1>6. ASSUME NEW id \in HomeId, registerSession(id)
      PROVE  OnlyGenuineFed'
  BY <1>1, <1>6 DEF registerSession
<1>7. ASSUME NEW d \in Datagram, listenThrows(d)
      PROVE  OnlyGenuineFed'
  BY <1>1, <1>7 DEF listenThrows
<1>8. CASE registerSessionThrows
  BY <1>1, <1>8 DEF registerSessionThrows
<1>9. CASE UNCHANGED vars
  BY <1>1, <1>9 DEF vars
<1> QED
  BY <1>2, <1>3, <1>4, <1>5, <1>6, <1>7, <1>8, <1>9 DEF Next

\* A session takes nothing but what was sent in its name, whole.
THEOREM IngressGenuine == Spec => []OnlyGenuineFed
<1>1. Init => OnlyGenuineFed
  BY DEF Init, OnlyGenuineFed
<1> QED
  BY <1>1, IngressStep, PTL DEF Spec

\* The handler of a datagram reads one of the ids from its buffer.
LEMMA HeaderIsId ==
  ASSUME TypeOK, NEW d \in Datagram, NEW id \in Header(d)
  PROVE  id \in Id
BY DatagramShape DEF TypeOK, Header, Id

\* What ikcp_input takes is recorded with the session that took it.
LEMMA FeedType ==
  ASSUME TypeOK, NEW d \in Datagram, NEW id \in Id, inputToKcp(id, d)
  PROVE  fed' \in SUBSET [session : Id, took : Int, of : Datagram]
<1> DEFINE n == doDecrypt(d.size, d.authentic) - sessionIdSize
           f == [session |-> id, took |-> n, of |-> d]
<1>1. n \in Int
  BY DatagramShape
     DEF doDecrypt, decrypt, minLen, sessionIdSize, KEYSIZE, GCM_IV_SIZE,
         GCM_TAG_SIZE, PADDINGSIZE
<1>2. fed' \in {fed, fed \cup {f}}
  BY DEF inputToKcp
<1> HIDE DEF n
<1>3. f \in [session : Id, took : Int, of : Datagram]
  BY <1>1
<1> QED
  BY <1>2, <1>3 DEF TypeOK

LEMMA TypeStep == TypeOK /\ [Next]_vars => TypeOK'
<1> SUFFICES ASSUME TypeOK, [Next]_vars PROVE TypeOK'
  OBVIOUS
<1>1. ASSUME NEW d \in Datagram, receiveUdpMessageFromRemoteServer(d)
      PROVE  TypeOK'
  <2>1. bufferId' \in Id
    BY <1>1, HeaderIsId DEF receiveUdpMessageFromRemoteServer
  <2>2. fed' \in SUBSET [session : Id, took : Int, of : Datagram]
    BY <1>1, <2>1, FeedType DEF receiveUdpMessageFromRemoteServer, TypeOK
  <2> QED
    BY <1>1, <2>1, <2>2 DEF receiveUdpMessageFromRemoteServer, TypeOK
<1>2. ASSUME NEW d \in Datagram, listen(d) PROVE TypeOK'
  <2>1. bufferId' \in Id
    BY <1>2, HeaderIsId DEF listen
  <2>2. fed' \in SUBSET [session : Id, took : Int, of : Datagram]
    BY <1>2, <2>1, FeedType DEF listen
  <2> QED
    BY <1>2, <2>1, <2>2 DEF listen, TypeOK
<1>3. ASSUME NEW id \in HomeId, registerSession(id) PROVE TypeOK'
  BY <1>3 DEF registerSession, TypeOK, Id
<1>4. CASE receiveFails
  BY <1>4 DEF receiveFails, TypeOK
<1>5. ASSUME NEW d \in Datagram, listenEmpty(d) PROVE TypeOK'
  BY <1>5 DEF listenEmpty, TypeOK, vars
<1>6. ASSUME NEW d \in Datagram, listenThrows(d) PROVE TypeOK'
  <2>1. bufferId' \in Id
    BY <1>6, HeaderIsId DEF listenThrows
  <2> QED
    BY <1>6, <2>1 DEF listenThrows, TypeOK
<1>7. CASE registerSessionThrows
  BY <1>7 DEF registerSessionThrows, TypeOK
<1>8. CASE UNCHANGED vars
  BY <1>8 DEF vars, TypeOK
<1> QED
  BY <1>1, <1>2, <1>3, <1>4, <1>5, <1>6, <1>7, <1>8 DEF Next

\* Type correctness of a worker's receive side: the bytes that a handler takes
\* for a session id, decrypted or not, belong to a session that somebody may
\* have drawn, and no worker has two receives into its one buffer.
THEOREM IngressTypeOK == Spec => []TypeOK
<1>1. Init => TypeOK
  <2>1. Init => terminated \in BOOLEAN
    BY Zenon DEF Init
  <2> QED
    BY <2>1 DEF Init, TypeOK, Id
<1> QED
  BY <1>1, TypeStep, PTL DEF Spec

\* The worker of the remote program has its one receive under way while the
\* program runs, and no worker has two.
ReceiveInv ==
  /\ receives \in 0 .. 1
  /\ RemoteListens

LEMMA ReceiveStep == ReceiveInv /\ [Next]_vars => ReceiveInv'
<1> SUFFICES ASSUME ReceiveInv, [Next]_vars PROVE ReceiveInv'
  OBVIOUS
<1> USE DEF ReceiveInv, RemoteListens
<1>1. ASSUME UNCHANGED <<program, receives, terminated>> PROVE ReceiveInv'
  BY <1>1
<1>2. ASSUME NEW d \in Datagram, listenThrows(d) PROVE ReceiveInv'
  <2>1. receives = 1 /\ receives' = 0 /\ terminated'
    BY <1>2 DEF listenThrows
  <2> QED
    BY <2>1
<1>3. CASE registerSessionThrows
  BY <1>3 DEF registerSessionThrows
<1>4. CASE receiveFails
  <2>1. /\ program' = program /\ terminated' = terminated
        /\ program = "remote" => receives' = receives
        /\ receives' \in {receives, receives - 1} /\ receives > 0
    BY <1>4 DEF receiveFails
  <2> QED
    BY <2>1
<1>5. ASSUME NEW d \in Datagram,
             \/ receiveUdpMessageFromRemoteServer(d)
             \/ listen(d) \/ listenEmpty(d)
      PROVE  UNCHANGED <<program, receives, terminated>>
  BY <1>5 DEF receiveUdpMessageFromRemoteServer, listen, listenEmpty, vars
<1>6. ASSUME NEW id \in HomeId, registerSession(id)
      PROVE  UNCHANGED <<program, receives, terminated>>
  BY <1>6 DEF registerSession
<1>7. CASE UNCHANGED vars
  BY <1>1, <1>7 DEF vars
<1> QED
  BY <1>1, <1>2, <1>3, <1>4, <1>5, <1>6, <1>7 DEF Next

\* Whatever arrives and whatever receives fail, the remote worker has its one
\* receive under way until the program ends: listen starts the next one on each
\* of its paths (remoteVps/worker.cpp:57-87) but that on which the constructor
\* of a session throws (remoteVps/session.cpp:17), which ends the program.
THEOREM IngressListens == Spec => []RemoteListens
<1>1. Init => ReceiveInv
  <2>1. Init => receives = 1 /\ ~ terminated
    BY Zenon DEF Init
  <2> QED
    BY <2>1 DEF ReceiveInv, RemoteListens
<1> QED
  BY <1>1, ReceiveStep, PTL DEF Spec, ReceiveInv
-----------------------------------------------------------------------------
\* What the workers ask for: at most a buffer.
Size == 1 .. 2048

\* The shift yields a class whose nodes have at least the size asked for.
LEMMA ClassFits ==
  ASSUME NEW n \in Size
  PROVE  SizeClass(n) \in Class /\ n <= nodeSize(SizeClass(n))
<1> DEFINE digit(j) == (262052 \div 4 ^ j) % 4
<1>1. PICK k \in 0 .. 8 : k = n \div 256
  BY SMT DEF Size
<1>2. n < 256 * (k + 1) /\ n \in 1 .. 2048
  BY <1>1, SMT DEF Size
<1>3. SizeClass(n) = digit(k)
  BY <1>1, SMT DEF SizeClass
<1>4. /\ digit(0) = 0 /\ digit(1) = 1 /\ digit(2) = 2 /\ digit(3) = 2
      /\ digit(4) = 3 /\ digit(5) = 3
  BY SMT
<1>5. digit(6) = 3 /\ digit(7) = 3 /\ digit(8) = 3
  BY SMT
<1> HIDE DEF digit
<1>6. /\ nodeSize(0) = 256 /\ nodeSize(1) = 512
      /\ nodeSize(2) = 1024 /\ nodeSize(3) = 2048
  BY SMT DEF nodeSize
<1>7. \/ SizeClass(n) = 0 /\ k = 0
      \/ SizeClass(n) = 1 /\ k = 1
      \/ SizeClass(n) = 2 /\ k <= 3
      \/ SizeClass(n) = 3
  BY <1>3, <1>4, <1>5, SMT
<1> QED
  BY <1>2, <1>6, <1>7, SMT DEF Class

\* Encryption adds less than the padding that kcpCallBack asks for.
LEMMA SizeFits ==
  ASSUME NEW r \in Request
  PROVE  /\ SizeClass(r.asked) \in Class /\ r.written \in Int
         /\ r.written <= nodeSize(SizeClass(r.asked))
<1>1. r.asked \in Size /\ r.asked \in Int /\ r.written \in Int
      /\ r.written <= r.asked
  <2>1. CASE \E len \in OutputLen :
               r = [asked |-> len + bufferPaddingSize,
                    written |-> doEncrypt(sessionIdSize + len)]
    <3>1. PICK len \in OutputLen :
                 r = [asked |-> len + bufferPaddingSize,
                      written |-> doEncrypt(sessionIdSize + len)]
      BY <2>1
    <3>2. len \in 1 .. 1250
      BY MemoryPoolAssumption, SMT DEF MemoryPoolAssumption
    <3>3. r.asked = len + 128 /\ r.written = len + 84
      BY <3>1, <3>2, SMT
         DEF bufferPaddingSize, doEncrypt, encrypt, sessionIdSize, KEYSIZE,
             GCM_IV_SIZE, GCM_TAG_SIZE, PADDINGSIZE
    <3> QED
      BY <3>2, <3>3, SMT DEF Size
  <2>2. CASE \E n \in WholeSize : r = [asked |-> n, written |-> n]
    BY <2>2, MemoryPoolAssumption, SMT DEF MemoryPoolAssumption, Size
  <2>3. \/ \E len \in OutputLen :
            r = [asked |-> len + bufferPaddingSize,
                 written |-> doEncrypt(sessionIdSize + len)]
        \/ \E n \in WholeSize : r = [asked |-> n, written |-> n]
    BY Zenon DEF Request
  <2> QED
    BY <2>1, <2>2, <2>3, Zenon
<1> DEFINE a == r.asked
           w == r.written
           c == SizeClass(a)
           s == nodeSize(c)
<1>2. a \in Size /\ a \in Int /\ w \in Int /\ w <= a
  BY <1>1, Zenon
<1> HIDE DEF a, w
<1>3. c \in Class /\ a <= s
  BY <1>2, ClassFits, Zenon
<1>4. s \in Int
  BY <1>3, SMT DEF Class, nodeSize
<1> HIDE DEF c, s
<1>5. c \in Class /\ w \in Int /\ w <= s
  BY <1>2, <1>3, <1>4, SMT
<1> QED
  BY <1>5, Zenon DEF a, w, c, s
-----------------------------------------------------------------------------
\* A block whose count is n, whose list is l and whose nodes in use are u:
\* FreeListsIntact, with no node twice in the list and none twice in use.
Used(u) == {h.index : h \in u}
Intact(n, l, u) ==
  /\ n \in 0 .. numberOfNode /\ l \in Seq(Index)
  /\ IsFiniteSet(u) /\ n + Cardinality(u) = numberOfNode
  /\ Len(l) = n + 1
  /\ Range(l) \cap Used(u) = {}
  /\ Range(l) \cup Used(u) = Index
  /\ \A i, j \in DOMAIN l : l[i] = l[j] => i = j
  /\ \A g, h \in u : g.index = h.index => g = h

LEMMA FreshIntact == Intact(numberOfNode, Fresh, {})
<1>1. numberOfNode \in Nat
  BY MemoryPoolAssumption DEF MemoryPoolAssumption
<1>2. Fresh \in Seq(Index) /\ Len(Fresh) = numberOfNode + 1
      /\ DOMAIN Fresh = Index
  BY <1>1 DEF Fresh, Index
<1>3. Range(Fresh) = Index
  BY <1>2 DEF Range, Fresh
<1> QED
  BY <1>1, <1>2, <1>3, FS_EmptySet DEF Intact, Used, Fresh

\* The first of the list goes into use.
LEMMA TakeIntact ==
  ASSUME NEW n, NEW l, NEW u, Intact(n, l, u), n # 0,
         NEW g, g.index = Head(l)
  PROVE  Intact(n - 1, Tail(l), u \cup {g})
<1>1. /\ n \in Nat /\ n - 1 \in 0 .. numberOfNode /\ numberOfNode \in Nat
      /\ l \in Seq(Index) /\ Len(l) = n + 1
  BY MemoryPoolAssumption DEF MemoryPoolAssumption, Intact
<1>2. /\ Tail(l) \in Seq(Index) /\ Len(Tail(l)) = n /\ Head(l) = l[1]
      /\ \A i \in 1 .. n : Tail(l)[i] = l[i + 1]
      /\ DOMAIN l = 1 .. n + 1 /\ DOMAIN Tail(l) = 1 .. n
  BY <1>1
<1>3. Range(l) = Range(Tail(l)) \cup {Head(l)}
  <2>1. ASSUME NEW e \in Range(l) PROVE e \in Range(Tail(l)) \cup {Head(l)}
    <3>1. PICK i \in 1 .. n + 1 : e = l[i]
      BY <1>2 DEF Range
    <3>2. CASE i = 1
      BY <1>2, <3>1, <3>2
    <3>3. CASE i # 1
      <4>1. i - 1 \in 1 .. n /\ Tail(l)[i - 1] = l[i]
        BY <1>1, <1>2, <3>1, <3>3
      <4> QED
        BY <1>2, <3>1, <4>1 DEF Range
    <3> QED
      BY <3>2, <3>3
  <2>2. ASSUME NEW i \in 1 .. n PROVE Tail(l)[i] \in Range(l)
    <3>1. i + 1 \in 1 .. n + 1
      BY <1>1
    <3> QED
      BY <1>2, <3>1 DEF Range
  <2>3. Head(l) \in Range(l)
    BY <1>1, <1>2 DEF Range
  <2> QED
    BY <1>2, <2>1, <2>2, <2>3 DEF Range
<1>4. Head(l) \notin Range(Tail(l))
  <2> SUFFICES ASSUME NEW i \in 1 .. n, Tail(l)[i] = Head(l) PROVE FALSE
    BY <1>2 DEF Range
  <2>1. i + 1 \in DOMAIN l /\ 1 \in DOMAIN l /\ l[i + 1] = l[1]
    BY <1>1, <1>2
  <2> QED
    BY <2>1 DEF Intact
<1>5. Head(l) \notin Used(u)
  BY <1>3 DEF Intact
<1>6. g \notin u
  BY <1>5 DEF Used
<1>7. /\ IsFiniteSet(u \cup {g})
      /\ Cardinality(u \cup {g}) = Cardinality(u) + 1
  BY <1>6, FS_AddElement DEF Intact
<1>8. Cardinality(u) \in Nat
  BY FS_CardinalityType DEF Intact
<1>9. n - 1 + Cardinality(u \cup {g}) = numberOfNode
  BY <1>1, <1>7, <1>8 DEF Intact
<1>10. Used(u \cup {g}) = Used(u) \cup {Head(l)}
  BY DEF Used
<1>11. \A i, j \in DOMAIN Tail(l) : Tail(l)[i] = Tail(l)[j] => i = j
  <2> SUFFICES ASSUME NEW i \in 1 .. n, NEW j \in 1 .. n, l[i + 1] = l[j + 1]
               PROVE  i = j
    BY <1>2
  <2>1. i + 1 \in DOMAIN l /\ j + 1 \in DOMAIN l
    BY <1>1, <1>2
  <2>2. i + 1 = j + 1
    BY <2>1 DEF Intact
  <2> QED
    BY <1>1, <2>2
<1>12. \A h, k \in u \cup {g} : h.index = k.index => h = k
  BY <1>5 DEF Used, Intact
<1>13. /\ Range(Tail(l)) \cap Used(u \cup {g}) = {}
       /\ Range(Tail(l)) \cup Used(u \cup {g}) = Index
  BY <1>3, <1>4, <1>10 DEF Intact
<1>14. Len(Tail(l)) = n - 1 + 1
  BY <1>1, <1>2
<1> QED
  BY <1>1, <1>2, <1>7, <1>9, <1>11, <1>12, <1>13, <1>14 DEF Intact

\* A node in use goes to the front of the list.
LEMMA FreeIntact ==
  ASSUME NEW n, NEW l, NEW u, Intact(n, l, u), NEW g \in u
  PROVE  Intact(n + 1, <<g.index>> \o l, u \ {g})
<1> DEFINE m == <<g.index>> \o l
<1>1. /\ n \in Nat /\ numberOfNode \in Nat
      /\ l \in Seq(Index) /\ Len(l) = n + 1 /\ DOMAIN l = 1 .. n + 1
  BY MemoryPoolAssumption DEF MemoryPoolAssumption, Intact
<1>2. g.index \in Index /\ g.index \in Used(u) /\ g.index \notin Range(l)
  BY DEF Intact, Used
<1>3. /\ m \in Seq(Index) /\ Len(m) = n + 2 /\ m[1] = g.index
      /\ \A i \in 1 .. n + 1 : m[i + 1] = l[i]
      /\ DOMAIN m = 1 .. n + 2
  BY <1>1, <1>2
<1> HIDE DEF m
<1>4. Range(m) = Range(l) \cup {g.index}
  <2>1. ASSUME NEW i \in 1 .. n + 2 PROVE m[i] \in Range(l) \cup {g.index}
    <3>1. CASE i = 1
      BY <1>3, <3>1
    <3>2. CASE i # 1
      <4>1. i - 1 \in 1 .. n + 1 /\ m[i] = l[i - 1]
        <5>1. i - 1 \in 1 .. n + 1 /\ (i - 1) + 1 = i
          BY <1>1, <3>2
        <5>2. m[(i - 1) + 1] = l[i - 1]
          BY <1>3, <5>1
        <5> QED
          BY <5>1, <5>2
      <4> QED
        BY <1>1, <4>1 DEF Range
    <3> QED
      BY <3>1, <3>2
  <2>2. ASSUME NEW i \in 1 .. n + 1 PROVE l[i] \in Range(m)
    <3>1. i + 1 \in 1 .. n + 2
      BY <1>1
    <3> QED
      BY <1>3, <3>1 DEF Range
  <2>3. g.index \in Range(m)
    <3>1. 1 \in 1 .. n + 2
      BY <1>1
    <3> QED
      BY <1>3, <3>1 DEF Range
  <2>4. \A e \in Range(m) : e \in Range(l) \cup {g.index}
    BY <1>3, <2>1, Zenon DEF Range
  <2>5. \A e \in Range(l) : e \in Range(m)
    BY <1>1, <2>2, Zenon DEF Range
  <2> QED
    BY <2>3, <2>4, <2>5, Zenon
<1>5. Used(u) = Used(u \ {g}) \cup {g.index} /\ g.index \notin Used(u \ {g})
  BY DEF Used, Intact
<1>6. /\ IsFiniteSet(u \ {g}) /\ Cardinality(u \ {g}) = Cardinality(u) - 1
      /\ Cardinality(u) \in Nat /\ Cardinality(u \ {g}) \in Nat
  <2>1. IsFiniteSet(u)
    BY DEF Intact
  <2> QED
    BY <2>1, FS_RemoveElement, FS_CardinalityType
<1>7. /\ n + 1 + Cardinality(u \ {g}) = numberOfNode
      /\ n + 1 \in 0 .. numberOfNode
  BY <1>1, <1>6 DEF Intact
<1>8. \A i, j \in DOMAIN m : m[i] = m[j] => i = j
  <2> SUFFICES ASSUME NEW i \in 1 .. n + 2, NEW j \in 1 .. n + 2, m[i] = m[j]
               PROVE  i = j
    BY <1>3
  <2>1. \A k \in 1 .. n + 2 : k # 1 =>
          k - 1 \in 1 .. n + 1 /\ m[k] = l[k - 1] /\ m[k] \in Range(l)
    <3> SUFFICES ASSUME NEW k \in 1 .. n + 2, k # 1
                 PROVE  k - 1 \in 1 .. n + 1 /\ m[k] = l[k - 1]
                        /\ m[k] \in Range(l)
      OBVIOUS
    <3>1. k - 1 \in 1 .. n + 1 /\ (k - 1) + 1 = k
      BY <1>1
    <3>2. m[(k - 1) + 1] = l[k - 1]
      BY <1>3, <3>1
    <3> QED
      BY <1>1, <3>1, <3>2 DEF Range
  <2>2. CASE i = 1 \/ j = 1
    BY <1>2, <1>3, <2>1, <2>2
  <2>3. CASE i # 1 /\ j # 1
    <3>1. i - 1 \in DOMAIN l /\ j - 1 \in DOMAIN l /\ l[i - 1] = l[j - 1]
      BY <1>1, <2>1, <2>3
    <3>2. i - 1 = j - 1
      BY <3>1 DEF Intact
    <3> QED
      BY <1>1, <3>2
  <2> QED
    BY <2>2, <2>3
<1>9. /\ Range(m) \cap Used(u \ {g}) = {}
      /\ Range(m) \cup Used(u \ {g}) = Index
  <2>1. Range(l) \cap Used(u) = {} /\ Range(l) \cup Used(u) = Index
    BY DEF Intact
  <2> QED
    BY <1>2, <1>4, <1>5, <2>1
<1>10. Len(m) = n + 1 + 1
  BY <1>1, <1>3
<1> QED
  BY <1>3, <1>6, <1>7, <1>8, <1>9, <1>10 DEF Intact, m
-----------------------------------------------------------------------------
\* Blocks agree with themselves; a chain starts with its own first block and
\* shares none with another; a block in no chain is as new.
BlocksIntact ==
  \A b \in Block : Intact(count[b], free[b], HeldOf(b))
ChainsApart ==
  /\ \A c \in Class : chain[c] # << >> /\ chain[c][1] = c
  /\ \A c, d \in Class : c # d => Allocated(c) \cap Allocated(d) = {}
UnusedIdle ==
  \A b \in Block : b \notin UNION {Allocated(c) : c \in Class} => Idle(b)

\* The inductive invariant.
PoolInv ==
  /\ PoolTypeOK
  /\ BlocksIntact
  /\ ChainsApart
  /\ UnusedIdle
  /\ BigEnough

\* PoolInv says more of the free lists than FreeListsIntact.
LEMMA ListsIntact == PoolInv => FreeListsIntact
<1> SUFFICES ASSUME PoolInv, NEW b \in Block
             PROVE  LET listed == Range(free[b])
                        used == {h.index : h \in HeldOf(b)}
                    IN  /\ count[b] + Cardinality(HeldOf(b)) = numberOfNode
                        /\ Len(free[b]) = count[b] + 1
                        /\ listed \cap used = {}
                        /\ listed \cup used = Index
  BY DEF PoolInv, FreeListsIntact
<1>1. Intact(count[b], free[b], HeldOf(b))
  BY DEF PoolInv, BlocksIntact
<1> QED
  BY <1>1 DEF Intact, Range, Used

LEMMA PoolStart == PoolInit => PoolInv
<1> SUFFICES ASSUME PoolInit PROVE PoolInv
  OBVIOUS
<1>1. numberOfNode \in Nat /\ MaxBlocks \in Nat /\ MaxBlocks > 3
  BY MemoryPoolAssumption DEF MemoryPoolAssumption
<1>2. Class \subseteq Block
  BY <1>1 DEF Class, Block
<1>3. Fresh \in Seq(Index)
  BY <1>1 DEF Fresh, Index
<1>4. PoolTypeOK
  BY <1>1, <1>2, <1>3 DEF PoolInit, PoolTypeOK
<1>5. BlocksIntact
  BY FreshIntact DEF PoolInit, BlocksIntact, HeldOf
<1>6. \A c \in Class : chain[c] = <<c>> /\ Range(chain[c]) = {c}
  BY DEF PoolInit, Range
<1>7. ChainsApart
  <2>1. \A c \in Class : <<c>> # << >> /\ <<c>>[1] = c
    OBVIOUS
  <2>2. \A c \in Class : chain[c] # << >> /\ chain[c][1] = c
    BY <1>6, <2>1
  <2>3. \A c, d \in Class : c # d => Range(chain[c]) \cap Range(chain[d]) = {}
    BY <1>6
  <2> QED
    BY <2>2, <2>3 DEF ChainsApart, Allocated
<1>8. UnusedIdle /\ BigEnough
  BY DEF PoolInit, UnusedIdle, Idle, BigEnough
<1> QED
  BY <1>4, <1>5, <1>7, <1>8 DEF PoolInv

\* A node of a block that has room is given out: the blocks stay intact.
LEMMA TakeStep ==
  ASSUME PoolInv, NEW b \in Block, HasRoom(b), NEW r \in Request, Take(b, r)
  PROVE  /\ BlocksIntact'
         /\ count' \in [Block -> 0 .. numberOfNode]
         /\ free' \in [Block -> Seq(Index)]
         /\ held' = held \cup {[block |-> b, index |-> Head(free[b]),
                                written |-> r.written]}
         /\ held' \in SUBSET [block : Block, index : Index, written : Int]
         /\ \A e \in Block : e # b => count'[e] = count[e]
<1> DEFINE h == [block |-> b, index |-> Head(free[b]), written |-> r.written]
<1>1. Intact(count[b], free[b], HeldOf(b)) /\ count[b] # 0
  BY DEF PoolInv, BlocksIntact, HasRoom
<1>2. /\ count \in [Block -> 0 .. numberOfNode]
      /\ free \in [Block -> Seq(Index)] /\ numberOfNode \in Nat
      /\ held \in SUBSET [block : Block, index : Index, written : Int]
  BY MemoryPoolAssumption DEF MemoryPoolAssumption, PoolInv, PoolTypeOK
<1>3. /\ held' = held \cup {h}
      /\ count' = [count EXCEPT ![b] = count[b] - 1]
      /\ free' = [free EXCEPT ![b] = Tail(free[b])]
  BY DEF Take
<1>4. h.block = b /\ h.index = Head(free[b])
  OBVIOUS
<1>5. h \in [block : Block, index : Index, written : Int]
  <2>1. Head(free[b]) \in Index
    BY <1>1, <1>2 DEF Intact
  <2> QED
    BY <2>1, SizeFits
<1> HIDE DEF h
<1>6. Intact(count[b] - 1, Tail(free[b]), HeldOf(b) \cup {h})
  BY <1>1, <1>4, TakeIntact
<1>7. HeldOf(b)' = HeldOf(b) \cup {h}
      /\ \A e \in Block : e # b => HeldOf(e)' = HeldOf(e)
  BY <1>3, <1>4 DEF HeldOf
<1>8. /\ count'[b] = count[b] - 1 /\ free'[b] = Tail(free[b])
      /\ \A e \in Block : e # b => count'[e] = count[e] /\ free'[e] = free[e]
  BY <1>2, <1>3
<1>9. BlocksIntact'
  <2> SUFFICES ASSUME NEW e \in Block
               PROVE  Intact(count'[e], free'[e], HeldOf(e)')
    BY DEF BlocksIntact
  <2> QED
    BY <1>6, <1>7, <1>8 DEF PoolInv, BlocksIntact
<1>10. /\ count' \in [Block -> 0 .. numberOfNode]
       /\ free' \in [Block -> Seq(Index)]
  <2>1. count[b] - 1 \in 0 .. numberOfNode /\ Tail(free[b]) \in Seq(Index)
    BY <1>6 DEF Intact
  <2> QED
    BY <1>2, <1>3, <2>1
<1> QED
  BY <1>2, <1>3, <1>5, <1>8, <1>9, <1>10 DEF h

\* A node is given back to its block.
LEMMA FreeStep ==
  ASSUME PoolInv, NEW h \in held, freeMemory(h)
  PROVE  PoolInv'
<1> DEFINE b == h.block
<1>1. /\ count \in [Block -> 0 .. numberOfNode]
      /\ free \in [Block -> Seq(Index)]
      /\ held \in SUBSET [block : Block, index : Index, written : Int]
      /\ chain \in [Class -> Seq(Block)]
  BY DEF PoolInv, PoolTypeOK
<1>2. b \in Block /\ h \in HeldOf(b)
  BY <1>1 DEF HeldOf
<1>3. /\ held' = held \ {h} /\ UNCHANGED chain
      /\ count' = [count EXCEPT ![b] = count[b] + 1]
      /\ free' = [free EXCEPT ![b] = <<h.index>> \o free[b]]
  BY DEF freeMemory
<1>4. Intact(count[b] + 1, <<h.index>> \o free[b], HeldOf(b) \ {h})
  BY <1>2, FreeIntact DEF PoolInv, BlocksIntact
<1>5. HeldOf(b)' = HeldOf(b) \ {h}
      /\ \A e \in Block : e # b => HeldOf(e)' = HeldOf(e)
  BY <1>3 DEF HeldOf
<1>6. ~ Idle(b)
  <2>1. Intact(count[b], free[b], HeldOf(b))
    BY <1>2 DEF PoolInv, BlocksIntact
  <2>2. /\ IsFiniteSet(HeldOf(b)) /\ Cardinality(HeldOf(b)) # 0
        /\ Cardinality(HeldOf(b)) \in Nat
    BY <1>2, <2>1, FS_EmptySet, FS_CardinalityType DEF Intact
  <2> QED
    BY <1>1, <1>2, <2>1, <2>2, MemoryPoolAssumption
       DEF MemoryPoolAssumption, Intact, Idle
<1> HIDE DEF b
<1>7. /\ count'[b] = count[b] + 1 /\ free'[b] = <<h.index>> \o free[b]
      /\ \A e \in Block : e # b => count'[e] = count[e] /\ free'[e] = free[e]
  BY <1>1, <1>2, <1>3
<1>8. BlocksIntact'
  <2> SUFFICES ASSUME NEW e \in Block
               PROVE  Intact(count'[e], free'[e], HeldOf(e)')
    BY DEF BlocksIntact
  <2> QED
    BY <1>4, <1>5, <1>7 DEF PoolInv, BlocksIntact
<1>9. PoolTypeOK'
  <2>1. count[b] + 1 \in 0 .. numberOfNode
        /\ <<h.index>> \o free[b] \in Seq(Index)
    BY <1>4 DEF Intact
  <2> QED
    BY <1>1, <1>3, <2>1 DEF PoolTypeOK
<1>10. ChainsApart'
  BY <1>3 DEF PoolInv, ChainsApart, Allocated
<1>11. UnusedIdle'
  <2>1. b \in UNION {Allocated(c) : c \in Class}
    BY <1>2, <1>6 DEF PoolInv, UnusedIdle
  <2> QED
    BY <1>3, <1>7, <2>1 DEF PoolInv, UnusedIdle, Idle, Allocated
<1>12. BigEnough'
  BY <1>3 DEF PoolInv, BigEnough, Allocated
<1> QED
  BY <1>8, <1>9, <1>10, <1>11, <1>12 DEF PoolInv

\* The first block of the class that has room gives a node of that class.
LEMMA MallocStep ==
  ASSUME PoolInv, NEW r \in Request, mallocMemory(r)
  PROVE  PoolInv'
<1> DEFINE c == SizeClass(r.asked)
           k == Min(Rooms(c))
           b == chain[c][k]
           h == [block |-> b, index |-> Head(free[b]), written |-> r.written]
<1>1. c \in Class /\ r.written <= nodeSize(c)
  BY SizeFits
<1>2. Rooms(c) # {} /\ Take(b, r) /\ UNCHANGED chain
  BY DEF mallocMemory
<1> HIDE DEF c
<1>3. chain \in [Class -> Seq(Block)]
  BY DEF PoolInv, PoolTypeOK
<1>4. chain[c] \in Seq(Block) /\ DOMAIN chain[c] = 1 .. Len(chain[c])
      /\ Len(chain[c]) \in Nat
  BY <1>1, <1>3
<1>5. k \in Rooms(c)
  <2>1. Rooms(c) \in SUBSET (1 .. Len(chain[c]))
    BY <1>4 DEF Rooms
  <2>2. Rooms(c) \in SUBSET Int /\ IsFiniteSet(Rooms(c))
    <3>1. 1 .. Len(chain[c]) \in SUBSET Int
      BY <1>4
    <3>2. IsFiniteSet(1 .. Len(chain[c]))
      BY <1>4, FS_Interval
    <3> QED
      BY <2>1, <3>1, <3>2, FS_Subset, Zenon
  <2>3. \E p \in Rooms(c) : \A e \in Rooms(c) : p <= e
    BY <1>2, <2>2, Extremes
  <2> QED
    BY <2>3 DEF Min
<1> HIDE DEF k
<1>6. b \in Allocated(c) /\ b \in Block /\ HasRoom(b)
  <2>1. k \in DOMAIN chain[c] /\ HasRoom(chain[c][k])
    BY <1>5 DEF Rooms
  <2> QED
    BY <1>4, <2>1 DEF Allocated, Range
<1>7. h.block = b /\ h.written = r.written
  OBVIOUS
<1>8. /\ BlocksIntact'
      /\ count' \in [Block -> 0 .. numberOfNode]
      /\ free' \in [Block -> Seq(Index)]
      /\ held' = held \cup {h}
      /\ held' \in SUBSET [block : Block, index : Index, written : Int]
      /\ \A e \in Block : e # b => count'[e] = count[e]
  BY <1>2, <1>6, TakeStep
<1> HIDE DEF b, h
<1>9. PoolTypeOK' /\ ChainsApart'
  BY <1>2, <1>3, <1>8 DEF PoolTypeOK, PoolInv, ChainsApart, Allocated
<1>10. UnusedIdle'
  BY <1>1, <1>2, <1>6, <1>8 DEF PoolInv, UnusedIdle, Idle, Allocated
<1>11. BigEnough'
  <2>1. \A d \in Class : b \in Allocated(d) <=> d = c
    BY <1>1, <1>6 DEF PoolInv, ChainsApart
  <2>2. \A d \in Class : Allocated(d)' = Allocated(d)
    BY <1>2 DEF Allocated
  <2> SUFFICES ASSUME NEW g \in held'
               PROVE  \E d \in Class :
                        /\ \A e \in Class : g.block \in Allocated(e)' <=> e = d
                        /\ g.written <= nodeSize(d)
    BY DEF BigEnough
  <2>3. CASE g \in held
    BY <2>2, <2>3 DEF PoolInv, BigEnough
  <2>4. CASE g = h
    BY <1>1, <1>7, <2>1, <2>2, <2>4
  <2> QED
    BY <1>8, <2>3, <2>4
<1> QED
  BY <1>8, <1>9, <1>10, <1>11 DEF PoolInv

\* What a chain has with a block more at its end.
LEMMA AppendChain ==
  ASSUME NEW q \in Seq(Block), NEW b \in Block
  PROVE  /\ Append(q, b) \in Seq(Block)
         /\ Append(q, b) # << >>
         /\ q # << >> => Append(q, b)[1] = q[1]
         /\ Range(Append(q, b)) = Range(q) \cup {b}
<1>1. /\ Append(q, b) \in Seq(Block) /\ Len(Append(q, b)) = Len(q) + 1
      /\ Append(q, b) # << >> /\ Len(q) \in Nat
      /\ DOMAIN q = 1 .. Len(q) /\ DOMAIN Append(q, b) = 1 .. Len(q) + 1
      /\ \A k \in 1 .. Len(q) : Append(q, b)[k] = q[k]
      /\ Append(q, b)[Len(q) + 1] = b
  OBVIOUS
<1> DEFINE a == Append(q, b)
<1> HIDE DEF a
<1>2. \A k \in 1 .. Len(q) + 1 : k \in 1 .. Len(q) \/ k = Len(q) + 1
  BY <1>1
<1>3. \A k \in 1 .. Len(q) : k \in 1 .. Len(q) + 1
  BY <1>1
<1>4. Len(q) + 1 \in 1 .. Len(q) + 1
  BY <1>1
<1>5. {a[k] : k \in 1 .. Len(q) + 1} = {q[k] : k \in 1 .. Len(q)} \cup {b}
  <2>1. \A k \in 1 .. Len(q) : a[k] = q[k]
    BY <1>1 DEF a
  <2>2. a[Len(q) + 1] = b
    BY <1>1 DEF a
  <2> QED
    BY <1>2, <1>3, <1>4, <2>1, <2>2
<1>6. q # << >> => 1 \in 1 .. Len(q)
  OBVIOUS
<1> QED
  BY <1>1, <1>5, <1>6 DEF a, Range

\* A block that no chain has joins the chain of the class.
LEMMA NewBlockStep ==
  ASSUME PoolInv, NEW r \in Request, getNewMemoryBlock(r)
  PROVE  PoolInv'
<1> DEFINE c == SizeClass(r.asked)
<1>1. c \in Class /\ r.written <= nodeSize(c)
  BY SizeFits
<1>2. PICK b \in Block \ UNION {Allocated(d) : d \in Class} :
        chain' = [chain EXCEPT ![c] = Append(chain[c], b)] /\ Take(b, r)
  BY DEF getNewMemoryBlock
<1> HIDE DEF c
<1> DEFINE h == [block |-> b, index |-> Head(free[b]), written |-> r.written]
<1>3. chain \in [Class -> Seq(Block)] /\ b \in Block
      /\ \A d \in Class : b \notin Allocated(d)
  BY DEF PoolInv, PoolTypeOK
<1>4. HasRoom(b)
  BY <1>3, MemoryPoolAssumption
     DEF MemoryPoolAssumption, PoolInv, UnusedIdle, Idle, HasRoom
<1>5. h.block = b /\ h.written = r.written
  OBVIOUS
<1>6. /\ BlocksIntact'
      /\ count' \in [Block -> 0 .. numberOfNode]
      /\ free' \in [Block -> Seq(Index)]
      /\ held' = held \cup {h}
      /\ held' \in SUBSET [block : Block, index : Index, written : Int]
      /\ \A e \in Block : e # b => count'[e] = count[e]
  BY <1>2, <1>3, <1>4, TakeStep
<1> HIDE DEF h
<1>7. chain[c] \in Seq(Block) /\ chain[c] # << >> /\ chain[c][1] = c
  BY <1>1, <1>3 DEF PoolInv, ChainsApart
<1>8. /\ chain'[c] = Append(chain[c], b)
      /\ \A d \in Class : d # c => chain'[d] = chain[d]
      /\ chain' \in [Class -> Seq(Block)]
  BY <1>1, <1>2, <1>3, <1>7, AppendChain
<1>9. /\ Allocated(c)' = Allocated(c) \cup {b}
      /\ \A d \in Class : d # c => Allocated(d)' = Allocated(d)
  BY <1>3, <1>7, <1>8, AppendChain DEF Allocated
<1>10. PoolTypeOK'
  BY <1>6, <1>8 DEF PoolTypeOK
<1>11. ChainsApart'
  <2>1. \A d \in Class : chain'[d] # << >> /\ chain'[d][1] = d
    <3>1. Append(chain[c], b) # << >> /\ Append(chain[c], b)[1] = c
      BY <1>3, <1>7, AppendChain
    <3>2. \A d \in Class : chain[d] # << >> /\ chain[d][1] = d
      BY DEF PoolInv, ChainsApart
    <3> QED
      BY <1>8, <3>1, <3>2
  <2>2. \A d, e \in Class : d # e => Allocated(d)' \cap Allocated(e)' = {}
    BY <1>3, <1>9 DEF PoolInv, ChainsApart
  <2> QED
    BY <2>1, <2>2 DEF ChainsApart
<1>12. UnusedIdle'
  <2> SUFFICES ASSUME NEW e \in Block, \A d \in Class : e \notin Allocated(d)'
               PROVE  count'[e] = numberOfNode
    BY DEF UnusedIdle, Idle
  <2>1. e # b /\ \A d \in Class : e \notin Allocated(d)
    BY <1>1, <1>9 DEF Allocated
  <2> QED
    BY <1>6, <2>1 DEF PoolInv, UnusedIdle, Idle
<1>13. BigEnough'
  <2> SUFFICES ASSUME NEW g \in held'
               PROVE  \E d \in Class :
                        /\ \A e \in Class : g.block \in Allocated(e)' <=> e = d
                        /\ g.written <= nodeSize(d)
    BY DEF BigEnough
  <2>1. CASE g \in held
    <3>1. PICK d \in Class :
            /\ \A e \in Class : g.block \in Allocated(e) <=> e = d
            /\ g.written <= nodeSize(d)
      BY <2>1 DEF PoolInv, BigEnough
    <3>2. g.block # b
      BY <1>3, <3>1
    <3> QED
      BY <1>9, <3>1, <3>2 DEF Allocated
  <2>2. CASE g = h
    BY <1>1, <1>3, <1>5, <1>9, <2>2 DEF Allocated
  <2> QED
    BY <1>6, <2>1, <2>2
<1> QED
  BY <1>6, <1>10, <1>11, <1>12, <1>13 DEF PoolInv

\* The idle blocks behind the first leave their chains, and are as new.
LEMMA CleanStep ==
  ASSUME PoolInv, freeOldMemoryBlock
  PROVE  PoolInv'
<1> DEFINE Gone == {b \in Block : \E c \in Class : \E k \in IdleAt(c) :
                                    b = chain[c][k]}
           Kept(c) == (DOMAIN chain[c]) \ IdleAt(c)
<1>1. /\ chain' = [c \in Class |-> SelectAt(chain[c], Kept(c))]
      /\ count' =
           [b \in Block |-> IF b \in Gone THEN numberOfNode ELSE count[b]]
      /\ free' = [b \in Block |-> IF b \in Gone THEN Fresh ELSE free[b]]
      /\ UNCHANGED held
  BY DEF freeOldMemoryBlock
<1>2. /\ chain \in [Class -> Seq(Block)]
      /\ count \in [Block -> 0 .. numberOfNode]
      /\ free \in [Block -> Seq(Index)] /\ numberOfNode \in Nat
      /\ held \in SUBSET [block : Block, index : Index, written : Int]
  BY MemoryPoolAssumption DEF MemoryPoolAssumption, PoolInv, PoolTypeOK
<1>3. \A b \in Gone : b \in Block /\ count[b] = numberOfNode
  BY DEF IdleAt, Idle
<1> HIDE DEF Gone, Kept
<1>4. ASSUME NEW c \in Class
      PROVE  /\ chain'[c] \in Seq(Block)
             /\ chain'[c] # << >> /\ chain'[c][1] = c
             /\ Allocated(c)' \subseteq Allocated(c)
             /\ \A b \in Allocated(c) : Idle(b) \/ b \in Allocated(c)'
  <2> DEFINE q == chain[c]
             P == Kept(c)
             n == Cardinality(P)
  <2>1. /\ q \in Seq(Block) /\ q # << >> /\ q[1] = c /\ DOMAIN q = 1 .. Len(q)
        /\ Len(q) \in Nat /\ 1 \in 1 .. Len(q)
    BY <1>2 DEF PoolInv, ChainsApart
  <2>2. chain'[c] = SelectAt(q, P)
    BY <1>1
  <2>3. P \in SUBSET (1 .. Len(q)) /\ 1 \in P
    BY <2>1 DEF Kept, IdleAt
  <2>4. \A k \in 1 .. Len(q) : k \in P \/ Idle(q[k])
    BY <2>1 DEF Kept, IdleAt
  <2> HIDE DEF q, P
  <2>5. /\ IsFiniteSet(P) /\ n \in Nat
        /\ SelectAt(q, P) \in Seq(Block) /\ Len(SelectAt(q, P)) = n
        /\ \A j \in 1 .. n :
             Kth(P, j) \in P /\ SelectAt(q, P)[j] = q[Kth(P, j)]
        /\ \A p \in P : \E j \in 1 .. n : SelectAt(q, P)[j] = q[p]
    BY <2>1, <2>3, SelectAtType
  <2>6. n # 0
    BY <2>3, <2>5, FS_EmptySet
  <2>7. Kth(P, 1) = 1
    <3>1. P \in SUBSET Int /\ 1 \in 1 .. n
      BY <2>1, <2>3, <2>5, <2>6
    <3>2. PICK j \in 1 .. n : Kth(P, j) = 1
      BY <2>3, <2>5, <3>1, KthOrder, RankType
    <3>3. 1 < j => Kth(P, 1) < Kth(P, j)
      BY <2>5, <3>1, <3>2, KthOrder
    <3>4. Kth(P, 1) \in 1 .. Len(q)
      BY <2>3, <2>5, <3>1
    <3>5. ~ (1 < j)
      BY <2>1, <3>2, <3>3, <3>4
    <3> QED
      BY <2>5, <3>2, <3>5
  <2>8. chain'[c] # << >> /\ chain'[c][1] = c
    BY <2>1, <2>2, <2>5, <2>6, <2>7
  <2>9. DOMAIN chain'[c] = 1 .. n
    BY <2>2, <2>5
  <2>10. Allocated(c) = {q[k] : k \in 1 .. Len(q)}
         /\ Allocated(c)' = {SelectAt(q, P)[j] : j \in 1 .. n}
    BY <2>1, <2>2, <2>9 DEF Allocated, Range, q
  <2>11. Allocated(c)' \subseteq Allocated(c)
    BY <2>3, <2>5, <2>10
  <2>12. \A b \in Allocated(c) : Idle(b) \/ b \in Allocated(c)'
    BY <2>4, <2>5, <2>10
  <2> QED
    BY <2>2, <2>5, <2>8, <2>11, <2>12
<1>5. BlocksIntact'
  <2> SUFFICES ASSUME NEW b \in Block
               PROVE  Intact(count'[b], free'[b], HeldOf(b)')
    BY DEF BlocksIntact
  <2>1. HeldOf(b)' = HeldOf(b) /\ Intact(count[b], free[b], HeldOf(b))
    BY <1>1 DEF HeldOf, PoolInv, BlocksIntact
  <2>2. CASE b \in Gone
    <3>1. HeldOf(b) = {}
      <4>1. IsFiniteSet(HeldOf(b)) /\ Cardinality(HeldOf(b)) \in Nat
            /\ numberOfNode + Cardinality(HeldOf(b)) = numberOfNode
        BY <1>3, <2>1, <2>2, FS_CardinalityType DEF Intact
      <4>2. Cardinality(HeldOf(b)) = 0
        BY <1>2, <4>1
      <4> QED
        BY <4>1, <4>2, FS_EmptySet
    <3> QED
      BY <1>1, <2>1, <2>2, <3>1, FreshIntact
  <2>3. CASE b \notin Gone
    BY <1>1, <2>1, <2>3
  <2> QED
    BY <2>2, <2>3
<1>6. PoolTypeOK'
  <2>1. Fresh \in Seq(Index)
    BY FreshIntact DEF Intact
  <2>2. chain' \in [Class -> Seq(Block)]
    BY <1>1, <1>4
  <2> QED
    BY <1>1, <1>2, <2>1, <2>2 DEF PoolTypeOK
<1>7. ChainsApart'
  BY <1>4 DEF PoolInv, ChainsApart
<1>8. UnusedIdle'
  <2> SUFFICES ASSUME NEW b \in Block, \A c \in Class : b \notin Allocated(c)'
               PROVE  count'[b] = numberOfNode
    BY DEF UnusedIdle, Idle
  <2>1. count[b] = numberOfNode
    BY <1>4 DEF PoolInv, UnusedIdle, Idle
  <2> QED
    BY <1>1, <2>1
<1>9. BigEnough'
  <2> SUFFICES ASSUME NEW g \in held
               PROVE  \E d \in Class :
                        /\ \A e \in Class : g.block \in Allocated(e)' <=> e = d
                        /\ g.written <= nodeSize(d)
    BY <1>1 DEF BigEnough
  <2>1. PICK d \in Class :
          /\ \A e \in Class : g.block \in Allocated(e) <=> e = d
          /\ g.written <= nodeSize(d)
    BY DEF PoolInv, BigEnough
  <2>2. g.block \in Block /\ g \in HeldOf(g.block)
    BY <1>2 DEF HeldOf
  <2>3. ~ Idle(g.block)
    <3>1. Intact(count[g.block], free[g.block], HeldOf(g.block))
      BY <2>2 DEF PoolInv, BlocksIntact
    <3>2. /\ IsFiniteSet(HeldOf(g.block)) /\ Cardinality(HeldOf(g.block)) # 0
          /\ Cardinality(HeldOf(g.block)) \in Nat
      BY <2>2, <3>1, FS_EmptySet, FS_CardinalityType DEF Intact
    <3> QED
      BY <1>2, <2>2, <3>1, <3>2 DEF Intact, Idle
  <2>4. \A e \in Class : g.block \in Allocated(e)' <=> e = d
    BY <1>4, <2>1, <2>3 DEF Allocated
  <2> QED
    BY <2>1, <2>4 DEF Allocated
<1> QED
  BY <1>5, <1>6, <1>7, <1>8, <1>9 DEF PoolInv

LEMMA PoolStep == PoolInv /\ [PoolNext]_poolVars => PoolInv'
<1>1. ASSUME PoolInv, UNCHANGED poolVars PROVE PoolInv'
  BY <1>1
     DEF poolVars, PoolInv, PoolTypeOK, BlocksIntact, ChainsApart, UnusedIdle,
         BigEnough, HeldOf, Allocated, Idle
<1> QED
  BY <1>1, MallocStep, NewBlockStep, FreeStep, CleanStep DEF PoolNext

\* In every block the count, the free list and the nodes in use agree: malloc
\* never follows the end of the list, and no node is given out twice.
THEOREM PoolFreeLists == PoolSpec => []FreeListsIntact
BY PoolStart, PoolStep, ListsIntact, PTL DEF PoolSpec

\* Whatever kcpCallBack writes after encryption fits its node, and the node's
\* block is still in the chain of its class.
THEOREM PoolBigEnough == PoolSpec => []BigEnough
<1>1. PoolInv => BigEnough
  BY DEF PoolInv
<1> QED
  BY <1>1, PoolStart, PoolStep, PTL DEF PoolSpec
=============================================================================
