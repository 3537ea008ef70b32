------------------------------ MODULE MemoryPool ------------------------------
(***************************************************************************)
(* The memory pool (src/src/Memory/MemoryPool.cpp).  Small requests are    *)
(* cut from blocks of PAGE_SIZE bytes and never given back one by one: a   *)
(* block counts its live requests in quote_ and is empty again when the    *)
(* count is back at zero.  Large requests go to posix_memalign and are     *)
(* kept in a list whose nodes are themselves small requests of the pool.   *)
(*                                                                         *)
(* An address inside a block is the block's place in the list and an       *)
(* offset; a large block is an element of LargeBlocks.  quote_ of a new    *)
(* block is never set, so it begins with whatever the memory held, one of  *)
(* Garbage, and it wraps as an unsigned does.  next_ of the first block is *)
(* never set either, and is taken to be null.  posix_memalign may fail.    *)
(***************************************************************************)
EXTENDS Naturals, Sequences, FiniteSetsExt

CONSTANTS
  PAGE_SIZE,
  MP_ALIGNMENT,
  PoolSize,        \* sizeof(Pool)
  NodeSize,        \* sizeof(SmallNode)
  LargeNodeSize,   \* sizeof(LargeNode)
  MaxFailed,       \* failures after which a block is skipped, 5 in the code
  MaxScan,         \* nodes looked at for a free one, 5 in the code
  QuoteMod,        \* one more than the largest unsigned
  Garbage,         \* what quote_ may hold before it is set
  Handles,         \* the pointers the pool's user has
  LargeBlocks,     \* what posix_memalign has for large requests
  Sizes,           \* the sizes asked for
  MaxBlocks,       \* bound: blocks of the pool
  Null             \* no address

ASSUME MemoryPoolAssumption ==
  /\ MP_ALIGNMENT \in Nat \ {0}
  /\ PoolSize \in Nat /\ NodeSize \in Nat /\ LargeNodeSize \in Nat \ {0}
  /\ PAGE_SIZE \in Nat /\ PoolSize + NodeSize <= PAGE_SIZE
  /\ NodeSize % MP_ALIGNMENT = 0 /\ PAGE_SIZE % MP_ALIGNMENT = 0
  /\ LargeNodeSize <= PAGE_SIZE - NodeSize
  /\ QuoteMod \in Nat /\ QuoteMod > PAGE_SIZE
  /\ 0 \in Garbage /\ Garbage \subseteq 0..(QuoteMod - 1)
  /\ Sizes \subseteq Nat \ {0}
  /\ MaxScan \in Nat
  /\ IsFiniteSet(Handles)
  /\ Null \notin LargeBlocks
  /\ Null \notin [block : Nat, at : Nat, size : Nat]

VARIABLES
  pool,        \* blocks: from head_ on; current: the place of current_ among
               \* them; clean: history, quote_ was 0 in every new block
  largeList_,  \* Pool::largeList_, each node with the place it was cut from
  held,        \* the small request each handle points to
  heldLarge    \* the large block each handle points to

vars == <<pool, largeList_, held, heldLarge>>

Blocks == pool.blocks
Open == Blocks # <<>>

\* mp_align_ptr
Align(n) == n + ((MP_ALIGNMENT - (n % MP_ALIGNMENT)) % MP_ALIGNMENT)

\* Where the first request of a block may begin.
Start(i) == IF i = 1 THEN PoolSize + NodeSize ELSE NodeSize

\* createPool
Init ==
  /\ \E g \in Garbage :
       pool = [blocks |-> <<[last |-> Start(1), quote |-> g, failed |-> 0]>>,
               current |-> 1,
               clean |-> g = 0]
  /\ largeList_ = <<>>
  /\ held = [h \in Handles |-> Null]
  /\ heldLarge = [h \in Handles |-> Null]

------------------------------------------------------------------------------
\* Small requests.

\* Mutant: the room is measured from last_ before it is aligned.
Room_Unaligned(b, size) == PAGE_SIZE >= b.last + size

Room(b, size) == PAGE_SIZE >= Align(b.last) + size

Cell(i, at, size) == [block |-> i, at |-> at, size |-> size]

\* A block from current_ on has room.
FromBlock(p, i, size) ==
  LET at == Align(p.blocks[i].last)
  IN  [pool |-> [p EXCEPT !.blocks[i].last = at + size,
                          !.blocks[i].quote = (@ + 1) % QuoteMod],
       cell |-> Cell(i, at, size)]

\* The blocks that malloc has passed on its way to the last one.
Passed(p) == p.current..(Len(p.blocks) - 1)

\* They have failed once more ...
FailedOnceMore(p) ==
  [i \in DOMAIN p.blocks |->
     IF i \in Passed(p) THEN [p.blocks[i] EXCEPT !.failed = @ + 1]
                        ELSE p.blocks[i]]

\* ... and current_ moves behind the last that had failed too often already.
MovedCurrent(p) ==
  LET stale == { i \in Passed(p) : p.blocks[i].failed >= MaxFailed }
  IN  IF stale = {} THEN p.current ELSE Max(stale) + 1

\* Mutant: the first request of a new block is not counted.
FromNewBlock_Uncounted(p, size, g) ==
  [pool |-> [blocks |-> Append(FailedOnceMore(p),
                               [last |-> Align(NodeSize) + size,
                                quote |-> g, failed |-> 0]),
             current |-> MovedCurrent(p),
             clean |-> p.clean /\ g = 0],
   cell |-> Cell(Len(p.blocks) + 1, Align(NodeSize), size)]

\* mallocSmallNode: a new block is hung in at the end.
FromNewBlock(p, size, g) ==
  [pool |-> [blocks |-> Append(FailedOnceMore(p),
                               [last |-> Align(NodeSize) + size,
                                quote |-> (g + 1) % QuoteMod, failed |-> 0]),
             current |-> MovedCurrent(p),
             clean |-> p.clean /\ g = 0],
   cell |-> Cell(Len(p.blocks) + 1, Align(NodeSize), size)]

\* What malloc may do with a small request.
SmallMalloc(p, size) ==
  LET fits == { i \in p.current..Len(p.blocks) : Room(p.blocks[i], size) }
  IN  IF fits # {} THEN {FromBlock(p, Min(fits), size)}
      ELSE {[pool |-> p, cell |-> Null]}
             \cup { FromNewBlock(p, size, g) :
                      g \in IF Len(p.blocks) < MaxBlocks THEN Garbage ELSE {} }

IsLarge(size) == size > PAGE_SIZE - NodeSize

MallocSmall(h, size) ==
  /\ \E r \in SmallMalloc(pool, size) :
       /\ pool' = r.pool
       /\ held' = [held EXCEPT ![h] = r.cell]
  /\ UNCHANGED <<largeList_, heldLarge>>

------------------------------------------------------------------------------
\* Large requests.

InUse == { largeList_[i].address : i \in DOMAIN largeList_ }

\* The nodes that mallocLargeNode looks at and finds free.
FreeNodes ==
  { i \in 1..Min({MaxScan, Len(largeList_)}) : largeList_[i].address = Null }

MallocLarge(h) ==
  \E a \in LargeBlocks \ InUse :
    \/ /\ FreeNodes # {}
       /\ largeList_' = [largeList_ EXCEPT ![Min(FreeNodes)].address = a]
       /\ heldLarge' = [heldLarge EXCEPT ![h] = a]
       /\ UNCHANGED <<pool, held>>
    \/ /\ FreeNodes = {}
       /\ \E r \in SmallMalloc(pool, LargeNodeSize) :
            /\ r.cell # Null
            /\ pool' = r.pool
            /\ largeList_' = <<[cell |-> r.cell, address |-> a]>> \o largeList_
       /\ heldLarge' = [heldLarge EXCEPT ![h] = a]
       /\ UNCHANGED held

Free(h) == held[h] = Null /\ heldLarge[h] = Null

\* malloc, and calloc.
MallocBytes(h, size) ==
  /\ Open
  /\ Free(h)
  /\ IF IsLarge(size) THEN MallocLarge(h) ELSE MallocSmall(h, size)

Malloc(h) == \E size \in Sizes : MallocBytes(h, size)

------------------------------------------------------------------------------
\* freeMemory in a block: the last one out empties it, and malloc looks at
\* all blocks again.
Released(p, i) ==
  IF p.blocks[i].quote = 1
  THEN [p EXCEPT !.blocks[i] = [last |-> Start(i), quote |-> 0, failed |-> 0],
                 !.current = 1]
  ELSE [p EXCEPT !.blocks[i].quote = (@ + QuoteMod - 1) % QuoteMod]

FreeSmall(h) ==
  /\ Open
  /\ held[h] # Null
  /\ pool' = Released(pool, held[h].block)
  /\ held' = [held EXCEPT ![h] = Null]
  /\ UNCHANGED <<largeList_, heldLarge>>

\* The first node with the address is emptied, and stays in the list.
Unlisted(list, a) ==
  LET found == { i \in DOMAIN list : list[i].address = a }
  IN  IF found = {} THEN list ELSE [list EXCEPT ![Min(found)].address = Null]

FreeLarge(h) ==
  /\ Open
  /\ heldLarge[h] # Null
  /\ largeList_' = Unlisted(largeList_, heldLarge[h])
  /\ heldLarge' = [heldLarge EXCEPT ![h] = Null]
  /\ UNCHANGED <<pool, held>>

\* Mutant: quote_ is not reset.
ResetPool_KeepsQuote ==
  /\ Open
  /\ pool' = [pool EXCEPT !.blocks = [i \in DOMAIN Blocks |->
                            [Blocks[i] EXCEPT !.last = Start(i), !.failed = 0]],
                          !.current = 1]
  /\ largeList_' = <<>>
  /\ held' = [h \in Handles |-> Null]
  /\ heldLarge' = [h \in Handles |-> Null]

\* resetPool; whoever calls it has no pointer left.
ResetPool ==
  /\ Open
  /\ pool' = [pool EXCEPT !.blocks = [i \in DOMAIN Blocks |->
                            [last |-> Start(i), quote |-> 0, failed |-> 0]],
                          !.current = 1]
  /\ largeList_' = <<>>
  /\ held' = [h \in Handles |-> Null]
  /\ heldLarge' = [h \in Handles |-> Null]

\* destroyPool
DestroyPool ==
  /\ Open
  /\ pool' = [pool EXCEPT !.blocks = <<>>]
  /\ largeList_' = <<>>
  /\ held' = [h \in Handles |-> Null]
  /\ heldLarge' = [h \in Handles |-> Null]

Next ==
  \/ \E h \in Handles : Malloc(h) \/ FreeSmall(h) \/ FreeLarge(h)
  \/ ResetPool \/ DestroyPool

Spec == Init /\ [][Next]_vars

------------------------------------------------------------------------------
CellType ==
  { c \in [block : DOMAIN Blocks, at : 0..PAGE_SIZE, size : 1..PAGE_SIZE] :
      /\ c.at >= Start(c.block)
      /\ c.at + c.size <= PAGE_SIZE
      /\ c.at % MP_ALIGNMENT = 0 }

\* Everything has its type, current_ is in the list, and a request that was
\* granted is aligned and lies in its block, behind the headers.
TypeOK ==
  /\ \A i \in DOMAIN Blocks :
       /\ Blocks[i].last \in Start(i)..PAGE_SIZE
       /\ Blocks[i].quote \in 0..(QuoteMod - 1)
       /\ Blocks[i].failed \in Nat
  /\ Open => pool.current \in DOMAIN Blocks
  /\ \A h \in Handles : held[h] \in CellType \cup {Null}
  /\ \A i \in DOMAIN largeList_ :
       /\ largeList_[i].cell \in CellType
       /\ largeList_[i].address \in LargeBlocks \cup {Null}
  /\ heldLarge \in [Handles -> LargeBlocks \cup {Null}]

Users(i) == { h \in Handles : held[h] # Null /\ held[h].block = i }
Nodes(i) == { n \in DOMAIN largeList_ : largeList_[n].cell.block = i }

Apart(c, d) ==
  \/ c.block # d.block
  \/ c.at + c.size <= d.at
  \/ d.at + d.size <= c.at

\* No two requests that are in use share a byte, the nodes of the list of
\* large blocks included, however blocks are emptied and filled again,
\* provided that the memory of every new block was zero.
Disjoint ==
  pool.clean =>
    /\ \A g, h \in Handles :
         g # h /\ held[g] # Null /\ held[h] # Null => Apart(held[g], held[h])
    /\ \A h \in Handles : \A n \in DOMAIN largeList_ :
         held[h] # Null => Apart(held[h], largeList_[n].cell)
    /\ \A m, n \in DOMAIN largeList_ :
         m # n => Apart(largeList_[m].cell, largeList_[n].cell)

\* quote_ is the number of requests in use in its block, as MemoryPool.h:13
\* declares it, on which Disjoint rests.
QuoteCounts ==
  pool.clean => \A i \in DOMAIN Blocks :
    Blocks[i].quote = Cardinality(Users(i)) + Cardinality(Nodes(i))
==============================================================================
