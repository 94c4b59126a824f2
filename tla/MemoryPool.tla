----------------------------- MODULE MemoryPool -----------------------------
(***************************************************************************)
(* The memory pool of a worker.  There is a chain of blocks for each of    *)
(* four sizes; a block counts its free nodes and links them, last freed    *)
(* first.  A node in use holds a pointer to its block where a free one     *)
(* holds the link.  The first block of a chain is never given back.        *)
(***************************************************************************)
EXTENDS Framing, Selection, FiniteSetsExt, Functions

CONSTANTS
  numberOfNode,   \* nodes that a block gives out (of each size alike)
  MaxBlocks,      \* bound: addresses that aligned_alloc can return
  OutputLen,      \* lengths that kcpCallBack is called with
  WholeSize       \* sizes of the other uses: they fill what they ask for

bufferPaddingSize == 128

ASSUME MemoryPoolAssumption ==
  /\ numberOfNode \in Nat \ {0}
  /\ MaxBlocks \in Nat \ (0 .. 3)
  /\ OutputLen \subseteq 1 .. 1250     \* the MTU given to ikcp_setmtu
  /\ WholeSize \subseteq 1 .. 2048     \* at most a buffer

\* What the workers ask for, and how much of it they then write: kcpCallBack
\* leaves room for what doEncrypt adds to a session id and len bytes.
Request ==
  {[asked |-> len + bufferPaddingSize,
    written |-> doEncrypt(sessionIdSize + len)] : len \in OutputLen}
  \cup {[asked |-> n, written |-> n] : n \in WholeSize}

Class == 0 .. 3
Block == 0 .. (MaxBlocks - 1)   \* 0..3: the first block of each class
Index == 1 .. (numberOfNode + 1)

\* Bytes of a node of class c after its head.
nodeSize(c) == 256 * 2 ^ c

VARIABLES
  chain,       \* each class's blocks, in the order of the links
  count,       \* each block's currentNodeNumber
  free,        \* each block's free nodes, in the order of the links
  held         \* nodes in use, with the bytes written to each

poolVars == <<chain, count, free, held>>

\* The constructor links numberOfNode + 1 nodes and counts one less.
Fresh == [i \in Index |-> i]

PoolInit ==
  /\ chain = [c \in Class |-> <<c>>]
  /\ count = [b \in Block |-> numberOfNode]
  /\ free = [b \in Block |-> Fresh]
  /\ held = {}
-----------------------------------------------------------------------------
\* Defect: the constant lost its top digit.
SizeClass_Truncated(size) == (65444 \div 4 ^ (size \div 256)) % 4

\* (0x3FFA4 >> ((size >> 8) * 2)) & 3
SizeClass(size) == (262052 \div 4 ^ (size \div 256)) % 4

HasRoom(b) == count[b] # 0

\* Defect: the next node does not become the first.
Take_KeepsFirst(b, r) ==
  /\ held' = held \cup {[block |-> b, index |-> Head(free[b]),
                         written |-> r.written]}
  /\ count' = [count EXCEPT ![b] = @ - 1]
  /\ UNCHANGED free

\* The first free node of b is given out.
Take(b, r) ==
  /\ held' = held \cup {[block |-> b, index |-> Head(free[b]),
                         written |-> r.written]}
  /\ count' = [count EXCEPT ![b] = @ - 1]
  /\ free' = [free EXCEPT ![b] = Tail(@)]

Rooms(c) == {k \in DOMAIN chain[c] : HasRoom(chain[c][k])}
Allocated(c) == Range(chain[c])

\* From the first block of the class that has a node,
mallocMemory(r) ==
  LET c == SizeClass(r.asked)
  IN  /\ Rooms(c) # {}
      /\ Take(chain[c][Min(Rooms(c))], r)
      /\ UNCHANGED chain

\* or from a new block, linked behind the others.
getNewMemoryBlock(r) ==
  LET c == SizeClass(r.asked)
  IN  /\ Rooms(c) = {}
      /\ \E b \in Block \ UNION {Allocated(k) : k \in Class} :
           /\ chain' = [chain EXCEPT ![c] = Append(@, b)]
           /\ Take(b, r)

\* The node finds its block by the pointer in its head.
freeMemory(h) ==
  /\ held' = held \ {h}
  /\ count' = [count EXCEPT ![h.block] = @ + 1]
  /\ free' = [free EXCEPT ![h.block] = <<h.index>> \o @]
  /\ UNCHANGED chain

Idle(b) == count[b] = numberOfNode

\* Where a chain has an idle block behind its first.
IdleAt(c) == {k \in DOMAIN chain[c] : k > 1 /\ Idle(chain[c][k])}

\* These blocks are given back, and are as new when
\* aligned_alloc returns their address again.  (Only cleanMemoryBlock calls
\* this, which is meant to run at intervals and which nothing calls yet.)
freeOldMemoryBlock ==
  LET Gone ==
        {b \in Block : \E c \in Class : \E k \in IdleAt(c) : b = chain[c][k]}
      Kept(c) == (DOMAIN chain[c]) \ IdleAt(c)
  IN  /\ chain' = [c \in Class |-> SelectAt(chain[c], Kept(c))]
      /\ count' =
           [b \in Block |-> IF b \in Gone THEN numberOfNode ELSE count[b]]
      /\ free' = [b \in Block |-> IF b \in Gone THEN Fresh ELSE free[b]]
      /\ UNCHANGED held

PoolNext ==
  \/ \E r \in Request : mallocMemory(r) \/ getNewMemoryBlock(r)
  \/ \E h \in held : freeMemory(h)
  \/ freeOldMemoryBlock

PoolSpec == PoolInit /\ [][PoolNext]_poolVars
-----------------------------------------------------------------------------
PoolTypeOK ==
  /\ chain \in [Class -> Seq(Block)]
  /\ count \in [Block -> 0 .. numberOfNode]
  /\ free \in [Block -> Seq(Index)]
  /\ held \in SUBSET [block : Block, index : Index, written : Int]

HeldOf(b) == {h \in held : h.block = b}

\* A block's count, its free list and its nodes in use agree: each node is in
\* the list once or in use once, and the list is one longer than the count,
\* so malloc never follows its end.
FreeListsIntact ==
  /\ PoolTypeOK
  /\ \A b \in Block :
       LET listed == Range(free[b])
           used == {h.index : h \in HeldOf(b)}
       IN  /\ count[b] + Cardinality(HeldOf(b)) = numberOfNode
           /\ Len(free[b]) = count[b] + 1
           /\ listed \cap used = {}
           /\ listed \cup used = Index

\* What a user writes into its node ends before the next node: the class is
\* cut out of a constant by a shift that nothing bounds, and kcpCallBack writes
\* more than it was given, by what encryption adds.  And the node's block is in
\* the chain of one class, so it has not been given back meanwhile.
BigEnough ==
  \A h \in held : \E c \in Class :
    /\ \A k \in Class : h.block \in Allocated(k) <=> k = c
    /\ h.written <= nodeSize(c)
=============================================================================
