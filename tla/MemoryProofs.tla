----------------------------- MODULE MemoryProofs -----------------------------
(***************************************************************************)
(* The memory pool under Memory, for any sizes of pages, headers and       *)
(* requests, any number of views, blocks and threads: a request that was   *)
(* granted lies in its block and shares no byte with another, quote_       *)
(* counts the requests of its block, and a large block has one owner.      *)
(***************************************************************************)
EXTENDS Memory, SequenceTheorems, FiniteSetTheorems, WellFoundedInduction,
        TLAPS

------------------------------------------------------------------------------
\* Arithmetic.

\* The remainder is what is left of a multiple.
LEMMA ModUnique ==
  ASSUME NEW n \in Nat, NEW a \in Nat \ {0}, NEW q \in Nat,
         NEW r \in 0..(a - 1), n = q * a + r
  PROVE  n % a = r
  OBVIOUS

\* mp_align_ptr goes up to the next multiple of the alignment, and leaves one
\* where it is (MemoryPool.h:9).
LEMMA AlignUp ==
  ASSUME NEW n \in Nat
  PROVE  /\ Align(n) \in Nat
         /\ Align(n) >= n
         /\ Align(n) % MP_ALIGNMENT = 0
         /\ n % MP_ALIGNMENT = 0 => Align(n) = n
<1> DEFINE a == MP_ALIGNMENT
           q == n \div a
           r == n % a
           s == (a - r) % a
<1>0. a \in Nat \ {0}
  BY MemoryPoolAssumption
<1> HIDE DEF a
<1>1. n = q * a + r /\ q \in Nat /\ r \in 0..(a - 1)
  BY <1>0
<1>2. CASE r = 0
  <2>1. a - r = 1 * a + 0 /\ a - r \in Nat /\ 1 \in Nat /\ 0 \in 0..(a - 1)
    BY <1>0, <1>2
  <2> HIDE DEF r
  <2>2. s = 0
    BY <1>0, <2>1, ModUnique
  <2>3. n + s = n
    BY <2>2
  <2> QED BY <1>2, <2>3 DEF Align, r, s, a
<1>3. CASE r # 0
  <2>1. a - r \in Nat /\ a - r < a
    BY <1>0, <1>1, <1>3
  <2>2. s = a - r
    BY <1>0, <2>1
  <2>3. /\ q + 1 \in Nat /\ n + s = (q + 1) * a + 0 /\ n + s \in Nat
        /\ 0 \in 0..(a - 1)
    BY <1>0, <1>1, <2>2
  <2> HIDE DEF q, r, s
  <2>4. (n + s) % a = 0
    BY <1>0, <2>3, ModUnique
  <2> QED BY <1>3, <2>1, <2>2, <2>3, <2>4 DEF Align, r, s, a
<1> QED BY <1>2, <1>3
\* A set of naturals that is not empty has a least element, since < is
\* well-founded, and Min is it.
LessThan == { p \in Nat \X Nat : p[1] < p[2] }

LEMMA MinFacts ==
  ASSUME NEW S \in SUBSET Nat, S # {}
  PROVE  Min(S) \in S /\ \A s \in S : Min(S) <= s
<1>1. IsWellFoundedOn(LessThan, Nat)
  BY NatLessThanWellFounded DEF OpToRel, LessThan
<1>2. PICK k \in S : \A s \in S : <<s, k>> \notin LessThan
  BY <1>1, WFMin
<1>3. ASSUME NEW s \in S PROVE k <= s
  <2>1. <<s, k>> \in Nat \X Nat /\ <<s, k>> \notin LessThan
    BY <1>2
  <2>2. ~(s < k)
    BY <2>1 DEF LessThan
  <2> QED BY <2>2
<1>. QED BY <1>3 DEF Min

\* A set of naturals with a bound has a greatest element: the one that is
\* farthest below the bound the least.
LEMMA MaxFacts ==
  ASSUME NEW M \in Nat, NEW S \in SUBSET (0..M), S # {}
  PROVE  Max(S) \in S /\ \A s \in S : Max(S) >= s
<1> DEFINE T == { M - s : s \in S }
<1>1. T \in SUBSET Nat /\ T # {}
  <2>1. \A s \in S : s \in 0..M /\ M - s \in Nat
    OBVIOUS
  <2>2. PICK s \in S : TRUE
    OBVIOUS
  <2>. QED BY <2>1, <2>2
<1>2. PICK k \in T : \A t \in T : k <= t
  BY <1>1, MinFacts
<1>3. PICK m \in S : k = M - m
  BY <1>2
<1>4. ASSUME NEW s \in S PROVE m >= s
  <2>1. k <= M - s
    BY <1>2
  <2>2. m \in 0..M /\ s \in 0..M
    BY <1>3
  <2>. QED BY <1>3, <2>1, <2>2
<1>. QED BY <1>4 DEF Max

------------------------------------------------------------------------------
\* The pool.

BlockType == [last : Nat, quote : 0..(QuoteMod - 1), failed : Nat]
Cells == [block : Nat, at : Nat, size : Nat]
NodeType == [cell : Cells, address : LargeBlocks \cup {Null}]

\* The shapes of a pool and of what was cut from it.
PoolType == [blocks : Seq(BlockType), current : Nat, clean : BOOLEAN]

Shapes ==
  /\ pool \in PoolType
  /\ held \in [Handles -> Cells \cup {Null}]
  /\ largeList_ \in Seq(NodeType)

\* The bytes of a block are cut up to last_.
InBounds(p) ==
  /\ p.blocks # <<>> => p.current \in 1..Len(p.blocks)
  /\ \A i \in 1..Len(p.blocks) : p.blocks[i].last \in Start(i)..PAGE_SIZE

\* A cell lies in its block, aligned and behind the headers.
Placed(p, c) ==
  /\ c.block \in 1..Len(p.blocks)
  /\ c.at >= Start(c.block)
  /\ c.size >= 1
  /\ c.at + c.size <= PAGE_SIZE
  /\ c.at % MP_ALIGNMENT = 0

\* What malloc does with a small request of size bytes that it grants: the cell
\* c is the last of its block, and is counted there.
Granted(p, q, c) ==
  /\ q \in PoolType /\ InBounds(q)
  /\ c \in Cells /\ Placed(q, c)
  /\ c.at + c.size = q.blocks[c.block].last
  /\ Len(p.blocks) <= Len(q.blocks)
  /\ \A i \in 1..Len(q.blocks) : i > Len(p.blocks) => i = c.block
  /\ \A i \in 1..Len(p.blocks) : i # c.block =>
       /\ q.blocks[i].last = p.blocks[i].last
       /\ q.blocks[i].quote = p.blocks[i].quote
  /\ q.clean => p.clean
  /\ IF c.block <= Len(p.blocks)
     THEN /\ p.blocks[c.block].last <= c.at
          /\ q.blocks[c.block].quote = (p.blocks[c.block].quote + 1) % QuoteMod
     ELSE q.clean => q.blocks[c.block].quote = 1

\* The sizes of the headers.
LEMMA HeaderFacts ==
  /\ PAGE_SIZE \in Nat /\ NodeSize \in Nat
  /\ QuoteMod \in Nat /\ QuoteMod > PAGE_SIZE /\ QuoteMod > 1
  /\ \A i \in Nat : Start(i) \in Nat /\ Start(i) <= PAGE_SIZE
                     /\ Start(i) >= NodeSize
  BY MemoryPoolAssumption DEF Start

\* quote_ goes up and down by one, and wraps only at its ends.
LEMMA QuoteFacts ==
  ASSUME NEW n \in 0..(QuoteMod - 1)
  PROVE  /\ (n + 1) % QuoteMod \in 0..(QuoteMod - 1)
         /\ n + 1 < QuoteMod => (n + 1) % QuoteMod = n + 1
         /\ (n + QuoteMod - 1) % QuoteMod \in 0..(QuoteMod - 1)
         /\ n > 0 => (n + QuoteMod - 1) % QuoteMod = n - 1
<1>1. /\ (n + 1) % QuoteMod \in 0..(QuoteMod - 1)
      /\ n + 1 < QuoteMod => (n + 1) % QuoteMod = n + 1
  BY HeaderFacts
<1>2. (n + QuoteMod - 1) % QuoteMod \in 0..(QuoteMod - 1)
  BY HeaderFacts
<1>3. n > 0 => (n + QuoteMod - 1) % QuoteMod = n - 1
  BY HeaderFacts
<1>. QED BY <1>1, <1>2, <1>3

\* A block of a pool.
LEMMA BlockFacts ==
  ASSUME NEW p \in PoolType
  PROVE  /\ p.blocks \in Seq(BlockType) /\ p.current \in Nat
         /\ p.clean \in BOOLEAN
         /\ Len(p.blocks) \in Nat
         /\ DOMAIN p.blocks = 1..Len(p.blocks)
         /\ \A i \in 1..Len(p.blocks) :
              /\ p.blocks[i] \in BlockType
              /\ p.blocks[i].last \in Nat
              /\ p.blocks[i].quote \in 0..(QuoteMod - 1)
              /\ p.blocks[i].failed \in Nat
              /\ i \in Nat
<1>1. /\ p.blocks \in Seq(BlockType) /\ p.current \in Nat
      /\ p.clean \in BOOLEAN
  BY DEF PoolType
<1>2. /\ Len(p.blocks) \in Nat
      /\ DOMAIN p.blocks = 1..Len(p.blocks)
      /\ \A i \in 1..Len(p.blocks) : p.blocks[i] \in BlockType /\ i \in Nat
  BY <1>1
<1>. QED BY <1>1, <1>2 DEF BlockType

\* A cell from a block that has room.
LEMMA FromBlockGrants ==
  ASSUME NEW p \in PoolType, InBounds(p), NEW i \in 1..Len(p.blocks),
         NEW size \in Nat \ {0}, Room(p.blocks[i], size),
         NEW r, r = FromBlock(p, i, size)
  PROVE  Granted(p, r.pool, r.cell)
<1> DEFINE b == p.blocks[i]
           at == Align(b.last)
           e == [b EXCEPT !.last = at + size, !.quote = (@ + 1) % QuoteMod]
           q == [p EXCEPT !.blocks[i] = e]
<1>0. p \in PoolType /\ p.blocks \in Seq(BlockType) /\ i \in Nat
  BY BlockFacts
<1>1. /\ b \in BlockType /\ b.last \in Nat /\ b.last >= Start(i)
      /\ b.quote \in 0..(QuoteMod - 1)
  <2>1. b \in BlockType /\ b.last \in Nat /\ b.quote \in 0..(QuoteMod - 1)
    BY <1>0, BlockFacts
  <2>2. b.last \in Start(i)..PAGE_SIZE
    BY DEF InBounds
  <2>3. Start(i) \in Nat
    BY <1>0, HeaderFacts
  <2> HIDE DEF b
  <2>4. b.last >= Start(i)
    BY <2>2, <2>3
  <2>. QED BY <2>1, <2>4
<1>2. at \in Nat /\ at >= b.last /\ at % MP_ALIGNMENT = 0 /\ at + size <= PAGE_SIZE
  <2> HIDE DEF b
  <2>1. PAGE_SIZE >= at + size
    BY DEF Room, b
  <2>2. at \in Nat /\ at >= b.last /\ at % MP_ALIGNMENT = 0
    BY <1>1, AlignUp
  <2>. QED BY <2>1, <2>2, HeaderFacts
<1>3. (b.quote + 1) % QuoteMod \in 0..(QuoteMod - 1)
  <2> HIDE DEF b
  <2>. QED BY <1>1, QuoteFacts
<1>4. e \in BlockType /\ e.last = at + size /\ e.quote = (b.quote + 1) % QuoteMod
  <2>1. at + size \in Nat
    BY <1>2
  <2> HIDE DEF at, b
  <2>. QED BY <2>1, <1>1, <1>3 DEF BlockType
<1>5. r.pool = q /\ r.cell = Cell(i, at, size)
  BY DEF FromBlock
<1> HIDE DEF e, at
<1>6. /\ q \in PoolType /\ Len(q.blocks) = Len(p.blocks)
      /\ q.current = p.current /\ q.clean = p.clean
      /\ \A j \in 1..Len(p.blocks) : q.blocks[j] = IF j = i THEN e ELSE p.blocks[j]
  <2>1. [p.blocks EXCEPT ![i] = e] \in Seq(BlockType)
    BY <1>0, <1>4
  <2>. QED BY <1>0, <2>1 DEF PoolType
<1> HIDE DEF q, b
<1>7. InBounds(q)
  <2>1. e.last \in Start(i)..PAGE_SIZE
    <3>1. Start(i) \in Nat
      BY <1>0, HeaderFacts
    <3>2. at + size >= Start(i) /\ at + size \in Nat
      BY <3>1, <1>1, <1>2
    <3>. QED BY <3>1, <3>2, <1>2, <1>4
  <2>2. \A j \in 1..Len(p.blocks) : p.blocks[j].last \in Start(j)..PAGE_SIZE
    BY DEF InBounds
  <2>3. q.blocks # <<>> => p.blocks # <<>>
    BY <1>1
  <2>. QED BY <1>6, <2>1, <2>2, <2>3 DEF InBounds
<1>8. r.cell \in Cells /\ Placed(q, r.cell)
  <2>1. r.cell.block = i /\ r.cell.at = at /\ r.cell.size = size /\ r.cell \in Cells
    BY <1>1, <1>2, <1>5 DEF Cell, Cells
  <2>2. Start(i) \in Nat
    BY <1>1, HeaderFacts
  <2>. QED BY <1>1, <1>2, <1>6, <2>1, <2>2 DEF Placed
<1>. QED BY <1>1, <1>2, <1>4, <1>5, <1>6, <1>7, <1>8 DEF Granted, Cell, b

\* A block that malloc passes keeps what was cut from it.
LEMMA PassedFacts ==
  ASSUME NEW p \in PoolType, NEW f, f = FailedOnceMore(p)
  PROVE  /\ f \in Seq(BlockType) /\ Len(f) = Len(p.blocks)
         /\ \A i \in 1..Len(p.blocks) :
              f[i].last = p.blocks[i].last /\ f[i].quote = p.blocks[i].quote
<1>1. p \in PoolType /\ p.blocks \in Seq(BlockType) /\ Len(p.blocks) \in Nat
  BY BlockFacts
<1>2. f = [i \in 1..Len(p.blocks) |->
             IF i \in Passed(p) THEN [p.blocks[i] EXCEPT !.failed = @ + 1]
                                ELSE p.blocks[i]]
  BY BlockFacts DEF FailedOnceMore
<1>3. ASSUME NEW i \in 1..Len(p.blocks)
      PROVE  /\ f[i] \in BlockType
             /\ f[i].last = p.blocks[i].last /\ f[i].quote = p.blocks[i].quote
  <2> DEFINE b == p.blocks[i]
  <2>1. b \in BlockType
    BY <1>1, BlockFacts
  <2>2. f[i] = b \/ f[i] = [b EXCEPT !.failed = @ + 1]
    BY <1>2
  <2> HIDE DEF b
  <2>3. f[i] \in BlockType /\ f[i].last = b.last /\ f[i].quote = b.quote
    BY <2>1, <2>2 DEF BlockType
  <2>. QED BY <2>3 DEF b
<1>4. f \in [1..Len(p.blocks) -> BlockType]
  BY <1>2, <1>3
<1>5. f \in Seq(BlockType) /\ Len(f) = Len(p.blocks)
  BY <1>1, <1>4
<1>. QED BY <1>3, <1>5

\* current_ stays in the list.
LEMMA MovedFacts ==
  ASSUME NEW p \in PoolType, p.current \in 1..Len(p.blocks)
  PROVE  MovedCurrent(p) \in 1..Len(p.blocks)
<1> DEFINE stale == { i \in Passed(p) : p.blocks[i].failed >= MaxFailed }
<1>1. Len(p.blocks) \in Nat
  BY BlockFacts
<1>2. CASE stale = {}
  BY <1>2 DEF MovedCurrent
<1>3. CASE stale # {}
  <2>1. stale \in SUBSET (0..Len(p.blocks))
    BY <1>1 DEF Passed
  <2>2. Max(stale) \in stale
    BY <1>1, <1>3, <2>1, MaxFacts
  <2>3. Max(stale) \in p.current..(Len(p.blocks) - 1)
    BY <2>2 DEF Passed
  <2>4. MovedCurrent(p) = Max(stale) + 1
    BY <1>3 DEF MovedCurrent
  <2> HIDE DEF stale
  <2>. QED BY <1>1, <2>3, <2>4
<1>. QED BY <1>2, <1>3

\* A cell from a new block.
LEMMA FromNewBlockGrants ==
  ASSUME NEW p \in PoolType, InBounds(p), p.blocks # <<>>,
         NEW size \in Nat \ {0}, size <= PAGE_SIZE - NodeSize,
         NEW g \in Garbage,
         NEW r, r = FromNewBlock(p, size, g)
  PROVE  Granted(p, r.pool, r.cell)
<1> DEFINE f == FailedOnceMore(p)
           n == Len(p.blocks) + 1
           e == [last |-> Align(NodeSize) + size,
                 quote |-> (g + 1) % QuoteMod, failed |-> 0]
           q == [blocks |-> Append(f, e), current |-> MovedCurrent(p),
                 clean |-> p.clean /\ g = 0]
           c == Cell(n, Align(NodeSize), size)
<1>1. /\ p \in PoolType /\ p.blocks \in Seq(BlockType) /\ Len(p.blocks) \in Nat
      /\ Len(p.blocks) > 0
  BY BlockFacts
<1>2. p.current \in 1..Len(p.blocks) /\ p.clean \in BOOLEAN
  BY BlockFacts DEF InBounds
<1>3. Align(NodeSize) = NodeSize /\ NodeSize \in Nat /\ NodeSize % MP_ALIGNMENT = 0
  BY MemoryPoolAssumption, AlignUp
<1>4. g \in 0..(QuoteMod - 1)
  BY MemoryPoolAssumption
<1>5. NodeSize + size \in NodeSize..PAGE_SIZE /\ NodeSize + size \in Nat
  BY <1>3, HeaderFacts
<1>6. e \in BlockType /\ e.last = NodeSize + size /\ (g = 0 => e.quote = 1)
  BY <1>3, <1>4, <1>5, QuoteFacts, HeaderFacts DEF BlockType
<1>7. /\ f \in Seq(BlockType) /\ Len(f) = Len(p.blocks)
      /\ \A i \in 1..Len(p.blocks) :
           f[i].last = p.blocks[i].last /\ f[i].quote = p.blocks[i].quote
  BY <1>1, PassedFacts
<1>8. MovedCurrent(p) \in 1..Len(p.blocks)
  BY <1>1, <1>2, MovedFacts
<1>9. r.pool = q /\ r.cell = c
  BY DEF FromNewBlock
<1> HIDE DEF f, e
<1>10. /\ q.blocks \in Seq(BlockType) /\ Len(q.blocks) = n
       /\ q.blocks[n] = e
       /\ \A i \in 1..Len(p.blocks) : q.blocks[i] = f[i]
       /\ q.current = MovedCurrent(p) /\ q.clean = (p.clean /\ g = 0)
  BY <1>1, <1>6, <1>7
<1>11. q \in PoolType
  BY <1>1, <1>8, <1>10 DEF PoolType
<1> HIDE DEF q
<1>12. Start(n) = NodeSize /\ n \in Nat /\ n \in 1..n
  BY <1>1 DEF Start
<1>13. InBounds(q)
  <2>1. \A i \in 1..Len(p.blocks) : p.blocks[i].last \in Start(i)..PAGE_SIZE
    BY DEF InBounds
  <2>2. q.blocks[n].last \in Start(n)..PAGE_SIZE
    BY <1>5, <1>6, <1>10, <1>12
  <2>3. \A i \in 1..n : i = n \/ i \in 1..Len(p.blocks)
    BY <1>1
  <2>4. MovedCurrent(p) \in 1..n
    BY <1>1, <1>8
  <2> HIDE DEF n
  <2>. QED BY <1>7, <1>10, <2>1, <2>2, <2>3, <2>4 DEF InBounds
<1>14. /\ c.block = n /\ c.at = NodeSize /\ c.size = size /\ c \in Cells
       /\ Placed(q, c)
  <2>1. c.block = n /\ c.at = NodeSize /\ c.size = size
    BY <1>3 DEF Cell
  <2>2. c \in Cells
    BY <1>3, <1>12 DEF Cell, Cells
  <2>. QED BY <1>3, <1>5, <1>10, <1>12, <2>1, <2>2 DEF Placed
<1> HIDE DEF c
<1>15. \A i \in 1..n : i > Len(p.blocks) => i = n
  BY <1>1
<1>16. ~(n <= Len(p.blocks)) /\ Len(p.blocks) <= n
  BY <1>1
<1> HIDE DEF n
<1>. QED BY <1>6, <1>7, <1>9, <1>10, <1>11, <1>13, <1>14, <1>15, <1>16 DEF Granted

\* malloc of a small request grants a cell, or leaves the pool alone.
LEMMA SmallMallocGrants ==
  ASSUME NEW p \in PoolType, InBounds(p), p.blocks # <<>>,
         NEW size \in Nat \ {0}, size <= PAGE_SIZE - NodeSize,
         NEW r \in SmallMalloc(p, size)
  PROVE  (r.cell = Null /\ r.pool = p) \/ Granted(p, r.pool, r.cell)
<1> DEFINE fits == { i \in p.current..Len(p.blocks) : Room(p.blocks[i], size) }
<1>1. CASE fits # {}
  <2>1. p.current \in 1..Len(p.blocks) /\ p.current \in Nat
    BY BlockFacts DEF InBounds
  <2>2. fits \in SUBSET Nat /\ fits \subseteq 1..Len(p.blocks)
    BY <2>1
  <2>3. Min(fits) \in fits
    BY <1>1, <2>2, MinFacts
  <2>4. r = FromBlock(p, Min(fits), size)
    BY <1>1 DEF SmallMalloc
  <2>5. Min(fits) \in 1..Len(p.blocks) /\ Room(p.blocks[Min(fits)], size)
    BY <2>2, <2>3
  <2> HIDE DEF fits
  <2>. QED BY <2>4, <2>5, FromBlockGrants
<1>2. CASE fits = {}
  <2>1. \/ r = [pool |-> p, cell |-> Null]
        \/ \E g \in Garbage : r = FromNewBlock(p, size, g)
    BY <1>2 DEF SmallMalloc
  <2>. QED BY <2>1, FromNewBlockGrants
<1>. QED BY <1>1, <1>2

------------------------------------------------------------------------------
\* The invariant of the pool.

\* Every cell in use lies in its block.
AllPlaced ==
  /\ \A h \in Handles : held[h] # Null => Placed(pool, held[h])
  /\ \A n \in 1..Len(largeList_) : Placed(pool, largeList_[n].cell)

\* A cell ends where the free room of its block begins, or before.
Behind(p, c) == c.at + c.size <= p.blocks[c.block].last

\* quote_ is far from wrapping, since each request it counts has a byte of its
\* own before last_.
QuoteFits(p) ==
  \A i \in 1..Len(p.blocks) : p.blocks[i].quote + Start(i) <= p.blocks[i].last

\* What the next cell of a block relies on.
RoomIsFree ==
  pool.clean =>
    /\ \A h \in Handles : held[h] # Null => Behind(pool, held[h])
    /\ \A n \in 1..Len(largeList_) : Behind(pool, largeList_[n].cell)
    /\ QuoteFits(pool)

\* What Disjoint says of a clean pool.
AllApart ==
  /\ \A g, h \in Handles :
       g # h /\ held[g] # Null /\ held[h] # Null => Apart(held[g], held[h])
  /\ \A h \in Handles : \A n \in DOMAIN largeList_ :
       held[h] # Null => Apart(held[h], largeList_[n].cell)
  /\ \A m, n \in DOMAIN largeList_ :
       m # n => Apart(largeList_[m].cell, largeList_[n].cell)

PoolInv ==
  /\ Shapes
  /\ heldLarge \in [Handles -> LargeBlocks \cup {Null}]
  /\ InBounds(pool)
  /\ AllPlaced
  /\ RoomIsFree
  /\ QuoteCounts
  /\ Disjoint

\* A cell that is granted is apart from the cells the block had.
LEMMA GrantedApart ==
  ASSUME NEW p \in PoolType, NEW q, NEW c, Granted(p, q, c),
         NEW d \in Cells, Placed(p, d)
  PROVE  /\ Placed(q, d)
         /\ Behind(p, d) => Behind(q, d) /\ Apart(c, d) /\ Apart(d, c)
<1>1. /\ q \in PoolType /\ c \in Cells /\ Placed(q, c)
      /\ c.at + c.size = q.blocks[c.block].last
      /\ Len(p.blocks) <= Len(q.blocks)
  BY DEF Granted
<1>2. Len(p.blocks) \in Nat /\ Len(q.blocks) \in Nat
  BY <1>1, BlockFacts
<1>3. /\ c.block \in Nat /\ c.at \in Nat /\ c.size \in Nat
      /\ d.block \in Nat /\ d.at \in Nat /\ d.size \in Nat
  BY <1>1 DEF Cells
<1>4. d.block \in 1..Len(p.blocks) /\ d.block \in 1..Len(q.blocks)
  BY <1>1, <1>2 DEF Placed
<1>5. Placed(q, d)
  BY <1>4 DEF Placed
<1>6. ASSUME Behind(p, d) PROVE Behind(q, d) /\ Apart(c, d) /\ Apart(d, c)
  <2>1. CASE d.block # c.block
    <3>1. q.blocks[d.block].last = p.blocks[d.block].last
      BY <1>4, <2>1 DEF Granted
    <3>. QED BY <1>6, <2>1, <3>1 DEF Behind, Apart
  <2>2. CASE d.block = c.block
    <3>1. p.blocks[c.block].last <= c.at
      BY <1>2, <1>4, <2>2 DEF Granted
    <3>2. p.blocks[c.block].last \in Nat
      BY <1>4, <2>2, BlockFacts
    <3>3. d.at + d.size <= c.at
      BY <1>3, <1>6, <2>2, <3>1, <3>2 DEF Behind
    <3>4. d.at + d.size <= c.at + c.size
      BY <1>3, <3>3
    <3>. QED BY <1>1, <2>2, <3>3, <3>4 DEF Behind, Apart
  <2>. QED BY <2>1, <2>2
<1>. QED BY <1>5, <1>6

\* The block of a cell that is granted counts one more request.
LEMMA GrantedQuote ==
  ASSUME NEW p \in PoolType, InBounds(p), QuoteFits(p),
         NEW q, NEW c, Granted(p, q, c), q.clean
  PROVE  /\ QuoteFits(q)
         /\ \A i \in 1..Len(q.blocks) :
              q.blocks[i].quote = (IF i <= Len(p.blocks) THEN p.blocks[i].quote ELSE 0)
                                    + (IF i = c.block THEN 1 ELSE 0)
<1>1. /\ q \in PoolType /\ c \in Cells /\ Placed(q, c)
      /\ c.at + c.size = q.blocks[c.block].last
      /\ Len(p.blocks) <= Len(q.blocks)
  BY DEF Granted
<1>2. Len(p.blocks) \in Nat /\ Len(q.blocks) \in Nat
  BY <1>1, BlockFacts
<1>3. /\ c.block \in Nat /\ c.at \in Nat /\ c.size \in Nat /\ c.size >= 1
      /\ c.at >= Start(c.block) /\ Start(c.block) \in Nat
  BY <1>1, HeaderFacts DEF Cells, Placed
<1>4. ASSUME NEW i \in 1..Len(q.blocks), i = c.block, i <= Len(p.blocks)
      PROVE  /\ q.blocks[i].quote = p.blocks[i].quote + 1
             /\ q.blocks[i].quote + Start(i) <= q.blocks[i].last
  <2> DEFINE n == p.blocks[i].quote
             l == p.blocks[i].last
  <2>1. i \in 1..Len(p.blocks)
    BY <1>2, <1>4
  <2>2. n \in 0..(QuoteMod - 1) /\ l \in Nat /\ l <= PAGE_SIZE /\ n + Start(i) <= l
    <3>1. n \in 0..(QuoteMod - 1) /\ l \in Nat
      BY <2>1, BlockFacts
    <3>2. l \in Start(i)..PAGE_SIZE /\ n + Start(i) <= l
      BY <2>1 DEF InBounds, QuoteFits
    <3> HIDE DEF n, l
    <3>3. Start(i) \in Nat /\ PAGE_SIZE \in Nat
      BY <1>3, <1>4, HeaderFacts
    <3>4. l <= PAGE_SIZE
      BY <3>2, <3>3
    <3>. QED BY <3>1, <3>2, <3>4
  <2>3. l <= c.at /\ q.blocks[i].quote = (n + 1) % QuoteMod
    BY <1>4 DEF Granted
  <2> HIDE DEF n, l
  <2>4. n + 1 < QuoteMod
    <3>1. c.at + c.size <= PAGE_SIZE
      BY <1>1 DEF Placed
    <3>2. n \in Nat /\ QuoteMod \in Nat /\ PAGE_SIZE \in Nat /\ PAGE_SIZE < QuoteMod
      BY <2>2, HeaderFacts
    <3>3. n <= c.at
      BY <1>3, <1>4, <2>2, <2>3, <3>2
    <3>. QED BY <1>3, <3>1, <3>2, <3>3
  <2>5. (n + 1) % QuoteMod = n + 1
    BY <2>2, <2>4, QuoteFacts
  <2>6. n + 1 + Start(i) <= c.at + c.size
    BY <1>3, <1>4, <2>2, <2>3
  <2>. QED BY <1>1, <1>4, <2>3, <2>5, <2>6 DEF n
<1>5. ASSUME NEW i \in 1..Len(q.blocks), i = c.block, ~(i <= Len(p.blocks))
      PROVE  /\ q.blocks[i].quote = 1
             /\ q.blocks[i].quote + Start(i) <= q.blocks[i].last
  <2>1. q.blocks[i].quote = 1
    BY <1>5 DEF Granted
  <2>. QED BY <1>1, <1>3, <1>5, <2>1
<1>6. ASSUME NEW i \in 1..Len(q.blocks), i # c.block
      PROVE  /\ i <= Len(p.blocks)
             /\ q.blocks[i].quote = p.blocks[i].quote
             /\ q.blocks[i].quote + Start(i) <= q.blocks[i].last
  <2>1. i <= Len(p.blocks) /\ i \in 1..Len(p.blocks)
    BY <1>2, <1>6 DEF Granted
  <2>. QED BY <1>6, <2>1 DEF Granted, QuoteFits
<1>7. \A i \in 1..Len(p.blocks) : p.blocks[i].quote \in Nat
  BY BlockFacts
<1>8. ASSUME NEW i \in 1..Len(q.blocks)
      PROVE  /\ q.blocks[i].quote + Start(i) <= q.blocks[i].last
             /\ q.blocks[i].quote = (IF i <= Len(p.blocks) THEN p.blocks[i].quote ELSE 0)
                                      + (IF i = c.block THEN 1 ELSE 0)
  <2>1. i <= Len(p.blocks) => p.blocks[i].quote \in Nat
    BY <1>2, <1>7
  <2>. QED BY <1>4, <1>5, <1>6, <2>1
<1>. QED BY <1>8 DEF QuoteFits

\* What the invariant says of the cells in use.
LEMMA CellFacts ==
  ASSUME PoolInv
  PROVE  /\ pool \in PoolType
         /\ Null \notin Cells
         /\ DOMAIN largeList_ = 1..Len(largeList_) /\ Len(largeList_) \in Nat
         /\ \A h \in Handles : held[h] # Null =>
              held[h] \in Cells /\ Placed(pool, held[h])
         /\ \A n \in 1..Len(largeList_) :
              /\ largeList_[n].cell \in Cells
              /\ largeList_[n].address \in LargeBlocks \cup {Null}
              /\ Placed(pool, largeList_[n].cell)
<1>1. Null \notin Cells
  BY MemoryPoolAssumption DEF Cells
<1>2. pool \in PoolType /\ held \in [Handles -> Cells \cup {Null}]
  BY DEF PoolInv, Shapes
<1>3. largeList_ \in Seq(NodeType)
  BY DEF PoolInv, Shapes
<1>4. /\ DOMAIN largeList_ = 1..Len(largeList_) /\ Len(largeList_) \in Nat
      /\ \A n \in 1..Len(largeList_) : largeList_[n] \in NodeType
  BY <1>3
<1>5. \A n \in 1..Len(largeList_) : /\ largeList_[n].cell \in Cells
                                    /\ largeList_[n].address \in LargeBlocks \cup {Null}
  BY <1>4 DEF NodeType
<1>. QED BY <1>1, <1>2, <1>4, <1>5 DEF PoolInv, AllPlaced

\* The requests of a block can be counted, and behind the last block there are
\* none.
LEMMA CountFacts ==
  ASSUME PoolInv, NEW i
  PROVE  /\ IsFiniteSet(Users(i)) /\ Cardinality(Users(i)) \in Nat
         /\ IsFiniteSet(Nodes(i)) /\ Cardinality(Nodes(i)) \in Nat
         /\ i \notin 1..Len(pool.blocks) =>
              /\ Users(i) = {} /\ Nodes(i) = {}
              /\ Cardinality(Users(i)) = 0 /\ Cardinality(Nodes(i)) = 0
<1>1. IsFiniteSet(Users(i)) /\ Cardinality(Users(i)) \in Nat
  <2>1. Users(i) \in SUBSET Handles
    BY DEF Users
  <2>. QED BY <2>1, MemoryPoolAssumption, FS_Subset, FS_CardinalityType
<1>2. IsFiniteSet(Nodes(i)) /\ Cardinality(Nodes(i)) \in Nat
  <2>1. Nodes(i) \in SUBSET (1..Len(largeList_)) /\ Len(largeList_) \in Nat
    BY CellFacts DEF Nodes
  <2>2. IsFiniteSet(1..Len(largeList_))
    BY <2>1, FS_Interval
  <2>. QED BY <2>1, <2>2, FS_Subset, FS_CardinalityType
<1>3. ASSUME i \notin 1..Len(pool.blocks)
      PROVE  Users(i) = {} /\ Nodes(i) = {}
  BY <1>3, CellFacts DEF Users, Nodes, Placed
<1>. QED BY <1>1, <1>2, <1>3, FS_EmptySet

\* A handle gets the cell of a small request.
LEMMA HeldGrant ==
  ASSUME PoolInv, NEW h \in Handles, held[h] = Null,
         NEW c, Granted(pool, pool', c),
         held' = [held EXCEPT ![h] = c],
         UNCHANGED <<largeList_, heldLarge>>
  PROVE  PoolInv'
<1>1. /\ pool' \in PoolType /\ InBounds(pool') /\ c \in Cells /\ Placed(pool', c)
      /\ c.at + c.size = pool'.blocks[c.block].last
  BY DEF Granted
<1>2. /\ pool \in PoolType /\ Null \notin Cells
      /\ DOMAIN largeList_ = 1..Len(largeList_)
      /\ \A g \in Handles : held[g] # Null =>
           held[g] \in Cells /\ Placed(pool, held[g])
      /\ \A n \in 1..Len(largeList_) :
           largeList_[n].cell \in Cells /\ Placed(pool, largeList_[n].cell)
  BY CellFacts
<1>3. held \in [Handles -> Cells \cup {Null}]
  BY DEF PoolInv, Shapes
<1>4. /\ held'[h] = c /\ c # Null
      /\ \A g \in Handles : g # h => held'[g] = held[g]
  BY <1>1, <1>2, <1>3
<1>5. ASSUME NEW d \in Cells, Placed(pool, d)
      PROVE  /\ Placed(pool', d)
             /\ Behind(pool, d) => Behind(pool', d) /\ Apart(c, d) /\ Apart(d, c)
  BY <1>2, <1>5, GrantedApart
<1>6. pool'.clean => pool.clean
  BY DEF Granted
<1>7. Shapes' /\ InBounds(pool)'
  BY <1>1, <1>3 DEF PoolInv, Shapes
<1>8. AllPlaced'
  BY <1>1, <1>2, <1>4, <1>5 DEF AllPlaced
<1>9. ASSUME pool'.clean
      PROVE  /\ \A g \in Handles : held[g] # Null => Behind(pool, held[g])
             /\ \A n \in 1..Len(largeList_) : Behind(pool, largeList_[n].cell)
             /\ QuoteFits(pool)
  BY <1>6, <1>9 DEF PoolInv, RoomIsFree
<1>10. ASSUME pool'.clean
       PROVE  /\ QuoteFits(pool')
              /\ \A i \in 1..Len(pool'.blocks) :
                   pool'.blocks[i].quote =
                     (IF i <= Len(pool.blocks) THEN pool.blocks[i].quote ELSE 0)
                       + (IF i = c.block THEN 1 ELSE 0)
  BY <1>2, <1>9, <1>10, GrantedQuote DEF PoolInv
<1>11. RoomIsFree'
  <2>1. Behind(pool', c)
    BY <1>1, BlockFacts DEF Behind, Cells, Placed
  <2>. QED BY <1>2, <1>4, <1>5, <1>9, <1>10, <2>1 DEF RoomIsFree
<1>12. QuoteCounts'
  <2> SUFFICES ASSUME pool'.clean, NEW i \in 1..Len(pool'.blocks)
               PROVE  pool'.blocks[i].quote
                        = Cardinality(Users(i)') + Cardinality(Nodes(i)')
    BY <1>1, BlockFacts DEF QuoteCounts, Blocks
  <2>1. Nodes(i)' = Nodes(i)
    BY DEF Nodes
  <2>2. Users(i)' = IF i = c.block THEN Users(i) \cup {h} ELSE Users(i)
    BY <1>4 DEF Users
  <2>3. h \notin Users(i)
    BY DEF Users
  <2>4. /\ Cardinality(Users(i)) \in Nat /\ Cardinality(Nodes(i)) \in Nat
        /\ Cardinality(Users(i) \cup {h}) = Cardinality(Users(i)) + 1
    BY <2>3, CountFacts, FS_AddElement
  <2>5. (IF i <= Len(pool.blocks) THEN pool.blocks[i].quote ELSE 0)
           = Cardinality(Users(i)) + Cardinality(Nodes(i))
    <3>1. CASE i <= Len(pool.blocks)
      <4>1. i \in DOMAIN Blocks
        BY <1>1, <1>2, <3>1, BlockFacts DEF Blocks
      <4>. QED BY <1>6, <3>1, <4>1 DEF PoolInv, QuoteCounts, Blocks
    <3>2. CASE ~(i <= Len(pool.blocks))
      <4>1. i \notin 1..Len(pool.blocks)
        BY <3>2
      <4>. QED BY <3>2, <4>1, CountFacts
    <3>. QED BY <3>1, <3>2
  <2> DEFINE x == IF i <= Len(pool.blocks) THEN pool.blocks[i].quote ELSE 0
             u == Cardinality(Users(i))
             m == Cardinality(Nodes(i))
  <2>6. pool'.blocks[i].quote = x + (IF i = c.block THEN 1 ELSE 0)
    BY <1>10
  <2>7. /\ Cardinality(Nodes(i)') = m
        /\ Cardinality(Users(i)') = IF i = c.block THEN u + 1 ELSE u
    BY <2>1, <2>2, <2>4
  <2>8. x = u + m /\ u \in Nat /\ m \in Nat
    BY <2>4, <2>5
  <2> HIDE DEF x, u, m
  <2>. QED BY <2>6, <2>7, <2>8
<1>13. Disjoint'
  <2> SUFFICES ASSUME pool'.clean PROVE AllApart'
    BY DEF Disjoint, AllApart
  <2>1. AllApart
    BY <1>6 DEF PoolInv, Disjoint, AllApart
  <2>2. \A g \in Handles : g # h /\ held[g] # Null =>
          Apart(c, held[g]) /\ Apart(held[g], c)
    BY <1>2, <1>5, <1>9
  <2>3. \A n \in DOMAIN largeList_ : Apart(c, largeList_[n].cell)
    BY <1>2, <1>5, <1>9
  <2>. QED BY <1>4, <2>1, <2>2, <2>3 DEF AllApart
<1>. QED BY <1>7, <1>8, <1>11, <1>12, <1>13 DEF PoolInv

\* A node in front of a list.
LEMMA PrependFacts ==
  ASSUME NEW S, NEW list \in Seq(S), NEW e \in S
  PROVE  /\ <<e>> \o list \in Seq(S)
         /\ Len(<<e>> \o list) = Len(list) + 1
         /\ (<<e>> \o list)[1] = e
         /\ \A n \in 1..Len(list) : (<<e>> \o list)[n + 1] = list[n]
         /\ \A n \in 1..(Len(list) + 1) :
              n = 1 \/ (n - 1 \in 1..Len(list) /\ (<<e>> \o list)[n] = list[n - 1])
  OBVIOUS

\* Numbers that are moved up by one are as many as before.
LEMMA ShiftedCount ==
  ASSUME NEW S \in SUBSET Nat, IsFiniteSet(S)
  PROVE  LET T == { n + 1 : n \in S }
         IN  IsFiniteSet(T) /\ Cardinality(T) = Cardinality(S)
<1> DEFINE T == { n + 1 : n \in S }
           f == [n \in S |-> n + 1]
<1>1. f \in Bijection(S, T)
  <2>1. f \in [S -> T]
    OBVIOUS
  <2>2. \A m, n \in S : f[m] = f[n] => m = n
    OBVIOUS
  <2>3. \A t \in T : \E n \in S : f[n] = t
    OBVIOUS
  <2>. QED BY <2>1, <2>2, <2>3 DEF Bijection, Injection, Surjection, IsInjective
<1>2. ExistsBijection(S, T)
  BY <1>1 DEF ExistsBijection
<1>. QED BY <1>2, FS_Bijection

\* A node of the list of large blocks gets its cell.
LEMMA NodeGrant ==
  ASSUME PoolInv, NEW a \in LargeBlocks,
         NEW c, Granted(pool, pool', c),
         largeList_' = <<[cell |-> c, address |-> a]>> \o largeList_,
         heldLarge' \in [Handles -> LargeBlocks \cup {Null}],
         UNCHANGED held
  PROVE  PoolInv'
<1> DEFINE node == [cell |-> c, address |-> a]
<1>1. /\ pool' \in PoolType /\ InBounds(pool') /\ c \in Cells /\ Placed(pool', c)
      /\ c.at + c.size = pool'.blocks[c.block].last
  BY DEF Granted
<1>2. /\ pool \in PoolType /\ Null \notin Cells
      /\ DOMAIN largeList_ = 1..Len(largeList_) /\ Len(largeList_) \in Nat
      /\ \A g \in Handles : held[g] # Null =>
           held[g] \in Cells /\ Placed(pool, held[g])
      /\ \A n \in 1..Len(largeList_) :
           largeList_[n].cell \in Cells /\ Placed(pool, largeList_[n].cell)
  BY CellFacts
<1>3. largeList_ \in Seq(NodeType) /\ node \in NodeType
  BY <1>1 DEF PoolInv, Shapes, NodeType
<1>4. /\ largeList_' \in Seq(NodeType)
      /\ Len(largeList_') = Len(largeList_) + 1
      /\ largeList_'[1] = node
      /\ \A n \in 1..Len(largeList_) : largeList_'[n + 1] = largeList_[n]
      /\ \A n \in 1..(Len(largeList_) + 1) :
           n = 1 \/ (n - 1 \in 1..Len(largeList_) /\ largeList_'[n] = largeList_[n - 1])
  <2> HIDE DEF node
  <2>1. largeList_' = <<node>> \o largeList_
    BY DEF node
  <2>. QED BY <1>3, <2>1, PrependFacts
<1>5. ASSUME NEW d \in Cells, Placed(pool, d)
      PROVE  /\ Placed(pool', d)
             /\ Behind(pool, d) => Behind(pool', d) /\ Apart(c, d) /\ Apart(d, c)
  BY <1>2, <1>5, GrantedApart
<1>6. pool'.clean => pool.clean
  BY DEF Granted
<1>7. Shapes' /\ InBounds(pool)' /\ UNCHANGED held
  BY <1>1, <1>4 DEF PoolInv, Shapes
<1>8. AllPlaced'
  <2>1. \A g \in Handles : held'[g] # Null => Placed(pool', held'[g])
    BY <1>2, <1>5
  <2>2. \A n \in 1..Len(largeList_') : Placed(pool', largeList_'[n].cell)
    BY <1>1, <1>2, <1>4, <1>5
  <2>. QED BY <2>1, <2>2 DEF AllPlaced
<1>9. ASSUME pool'.clean
      PROVE  /\ \A g \in Handles : held[g] # Null => Behind(pool, held[g])
             /\ \A n \in 1..Len(largeList_) : Behind(pool, largeList_[n].cell)
             /\ QuoteFits(pool)
  BY <1>6, <1>9 DEF PoolInv, RoomIsFree
<1>10. ASSUME pool'.clean
       PROVE  /\ QuoteFits(pool')
              /\ \A i \in 1..Len(pool'.blocks) :
                   pool'.blocks[i].quote =
                     (IF i <= Len(pool.blocks) THEN pool.blocks[i].quote ELSE 0)
                       + (IF i = c.block THEN 1 ELSE 0)
  BY <1>2, <1>9, <1>10, GrantedQuote DEF PoolInv
<1>11. RoomIsFree'
  <2>1. Behind(pool', c)
    BY <1>1, BlockFacts DEF Behind, Cells, Placed
  <2> SUFFICES ASSUME pool'.clean
               PROVE  /\ \A g \in Handles : held'[g] # Null => Behind(pool', held'[g])
                      /\ \A n \in 1..Len(largeList_') :
                           Behind(pool', largeList_'[n].cell)
    BY <1>10 DEF RoomIsFree
  <2>2. \A g \in Handles : held'[g] # Null => Behind(pool', held'[g])
    BY <1>2, <1>5, <1>9
  <2>3. \A n \in 1..Len(largeList_') : Behind(pool', largeList_'[n].cell)
    BY <1>2, <1>4, <1>5, <1>9, <2>1
  <2>. QED BY <2>2, <2>3
<1>12. QuoteCounts'
  <2> SUFFICES ASSUME pool'.clean, NEW i \in 1..Len(pool'.blocks)
               PROVE  pool'.blocks[i].quote
                        = Cardinality(Users(i)') + Cardinality(Nodes(i)')
    BY <1>1, BlockFacts DEF QuoteCounts, Blocks
  <2> DEFINE T == { n + 1 : n \in Nodes(i) }
  <2>1. Users(i)' = Users(i)
    BY DEF Users
  <2>2. Nodes(i) \in SUBSET (1..Len(largeList_)) /\ 1 \notin T
    BY <1>2 DEF Nodes
  <2>3. Nodes(i)' = IF i = c.block THEN T \cup {1} ELSE T
    <3>1. DOMAIN largeList_' = 1..(Len(largeList_) + 1)
      BY <1>4
    <3>2. 1 \in Nodes(i)' <=> i = c.block
      BY <1>2, <1>4, <3>1 DEF Nodes
    <3>3. ASSUME NEW n \in T PROVE n \in Nodes(i)'
      <4>1. PICK m \in Nodes(i) : n = m + 1
        OBVIOUS
      <4>2. m \in 1..Len(largeList_) /\ largeList_[m].cell.block = i
        BY <1>2, <4>1 DEF Nodes
      <4>3. m + 1 \in DOMAIN largeList_' /\ largeList_'[m + 1] = largeList_[m]
        BY <1>2, <1>4, <3>1, <4>2
      <4>. QED BY <4>1, <4>2, <4>3 DEF Nodes
    <3>4. ASSUME NEW n \in Nodes(i)', n # 1 PROVE n \in T
      <4>1. n \in 1..(Len(largeList_) + 1) /\ largeList_'[n].cell.block = i
        BY <3>1 DEF Nodes
      <4>2. n - 1 \in 1..Len(largeList_) /\ largeList_[n - 1].cell.block = i
        BY <1>4, <3>4, <4>1
      <4>3. n - 1 \in Nodes(i) /\ n = (n - 1) + 1
        BY <1>2, <4>1, <4>2 DEF Nodes
      <4>. QED BY <4>3
    <3> DEFINE N == Nodes(i)'
    <3>5. 1 \in N <=> i = c.block
      BY <3>2
    <3>6. T \subseteq N /\ N \subseteq T \cup {1}
      BY <3>3, <3>4
    <3> HIDE DEF T, N
    <3>7. i = c.block => N = T \cup {1}
      BY <3>5, <3>6
    <3>8. i # c.block => N = T
      BY <3>5, <3>6
    <3>. QED BY <3>7, <3>8 DEF N
  <2>4. /\ Cardinality(Users(i)) \in Nat /\ Cardinality(Nodes(i)) \in Nat
        /\ IsFiniteSet(T) /\ Cardinality(T) = Cardinality(Nodes(i))
    <3>1. Nodes(i) \in SUBSET Nat
      BY <2>2
    <3>. QED BY <3>1, CountFacts, ShiftedCount
  <2>5. Cardinality(T \cup {1}) = Cardinality(T) + 1
    <3> HIDE DEF T
    <3>. QED BY <2>2, <2>4, FS_AddElement
  <2>6. (IF i <= Len(pool.blocks) THEN pool.blocks[i].quote ELSE 0)
           = Cardinality(Users(i)) + Cardinality(Nodes(i))
    <3>1. CASE i <= Len(pool.blocks)
      <4>1. i \in DOMAIN Blocks
        BY <1>1, <1>2, <3>1, BlockFacts DEF Blocks
      <4>. QED BY <1>6, <3>1, <4>1 DEF PoolInv, QuoteCounts, Blocks
    <3>2. CASE ~(i <= Len(pool.blocks))
      <4>1. i \notin 1..Len(pool.blocks)
        BY <3>2
      <4>. QED BY <3>2, <4>1, CountFacts
    <3>. QED BY <3>1, <3>2
  <2> DEFINE x == IF i <= Len(pool.blocks) THEN pool.blocks[i].quote ELSE 0
             u == Cardinality(Users(i))
             m == Cardinality(Nodes(i))
  <2>7. pool'.blocks[i].quote = x + (IF i = c.block THEN 1 ELSE 0)
    BY <1>10
  <2>8. /\ Cardinality(Users(i)') = u
        /\ Cardinality(Nodes(i)') = IF i = c.block THEN m + 1 ELSE m
    <3> HIDE DEF T
    <3>. QED BY <2>1, <2>3, <2>4, <2>5
  <2>9. x = u + m /\ u \in Nat /\ m \in Nat
    BY <2>4, <2>6
  <2> HIDE DEF x, u, m
  <2>. QED BY <2>7, <2>8, <2>9
<1>13. Disjoint'
  <2> SUFFICES ASSUME pool'.clean PROVE AllApart'
    BY DEF Disjoint, AllApart
  <2>1. AllApart
    BY <1>6 DEF PoolInv, Disjoint, AllApart
  <2>2. \A g \in Handles : held[g] # Null =>
          Apart(c, held[g]) /\ Apart(held[g], c)
    BY <1>2, <1>5, <1>9
  <2>3. \A n \in 1..Len(largeList_) :
          Apart(c, largeList_[n].cell) /\ Apart(largeList_[n].cell, c)
    BY <1>2, <1>5, <1>9
  <2>4. DOMAIN largeList_' = 1..(Len(largeList_) + 1) /\ largeList_'[1].cell = c
    BY <1>4
  <2>5. ASSUME NEW g \in Handles, NEW n \in DOMAIN largeList_', held[g] # Null
        PROVE  Apart(held[g], largeList_'[n].cell)
    <3>1. CASE n = 1
      BY <2>2, <2>4, <2>5, <3>1
    <3>2. CASE n # 1
      BY <1>2, <1>4, <2>1, <2>4, <2>5, <3>2 DEF AllApart
    <3>. QED BY <3>1, <3>2
  <2>6. ASSUME NEW k \in DOMAIN largeList_', NEW n \in DOMAIN largeList_', k # n
        PROVE  Apart(largeList_'[k].cell, largeList_'[n].cell)
    <3>1. CASE k = 1
      BY <1>4, <2>3, <2>4, <2>6, <3>1
    <3>2. CASE n = 1
      BY <1>4, <2>3, <2>4, <2>6, <3>2
    <3>3. CASE k # 1 /\ n # 1
      <4>1. /\ k - 1 \in DOMAIN largeList_ /\ n - 1 \in DOMAIN largeList_
            /\ k - 1 # n - 1
            /\ largeList_'[k] = largeList_[k - 1]
            /\ largeList_'[n] = largeList_[n - 1]
        BY <1>2, <1>4, <2>4, <2>6, <3>3
      <4>. QED BY <2>1, <4>1 DEF AllApart
    <3>. QED BY <3>1, <3>2, <3>3
  <2>7. \A g, h \in Handles :
          g # h /\ held'[g] # Null /\ held'[h] # Null => Apart(held'[g], held'[h])
    BY <2>1 DEF AllApart
  <2>. QED BY <2>5, <2>6, <2>7 DEF AllApart
<1>. QED BY <1>7, <1>8, <1>11, <1>12, <1>13 DEF PoolInv

\* A node gets or loses an address and keeps its cell.
LEMMA AddressChange ==
  ASSUME PoolInv, UNCHANGED <<pool, held>>,
         heldLarge' \in [Handles -> LargeBlocks \cup {Null}],
         largeList_' \in Seq(NodeType), Len(largeList_') = Len(largeList_),
         \A n \in 1..Len(largeList_) : largeList_'[n].cell = largeList_[n].cell
  PROVE  PoolInv'
<1>1. /\ DOMAIN largeList_ = 1..Len(largeList_)
      /\ DOMAIN largeList_' = 1..Len(largeList_)
  BY CellFacts
<1>2. Shapes' /\ InBounds(pool)'
  BY DEF PoolInv, Shapes
<1>3. AllPlaced' /\ RoomIsFree'
  BY DEF PoolInv, AllPlaced, RoomIsFree
<1>4. QuoteCounts'
  <2>1. ASSUME NEW i PROVE Users(i)' = Users(i) /\ Nodes(i)' = Nodes(i)
    BY <1>1 DEF Users, Nodes
  <2>. QED BY <2>1 DEF PoolInv, QuoteCounts, Blocks
<1>5. Disjoint'
  <2> SUFFICES ASSUME pool.clean PROVE AllApart'
    BY DEF Disjoint, AllApart
  <2>1. AllApart
    BY DEF PoolInv, Disjoint, AllApart
  <2>. QED BY <1>1, <2>1 DEF AllApart
<1>. QED BY <1>2, <1>3, <1>4, <1>5 DEF PoolInv

\* The list loses the address a.
LEMMA UnlistedFacts ==
  ASSUME NEW list \in Seq(NodeType), NEW a \in LargeBlocks,
         NEW list2, list2 = Unlisted(list, a),
         \A i, j \in 1..Len(list) : list[i].address = a /\ list[j].address = a => i = j
  PROVE  /\ list2 \in Seq(NodeType) /\ Len(list2) = Len(list)
         /\ \A n \in 1..Len(list) :
              /\ list2[n].cell = list[n].cell
              /\ list2[n].address = IF list[n].address = a THEN Null ELSE list[n].address
<1> DEFINE found == { i \in 1..Len(list) : list[i].address = a }
<1>1. /\ DOMAIN list = 1..Len(list) /\ Len(list) \in Nat
      /\ \A n \in 1..Len(list) : list[n] \in NodeType
  OBVIOUS
<1>2. CASE found = {}
  <2>1. list2 = list
    BY <1>1, <1>2 DEF Unlisted
  <2>. QED BY <1>1, <1>2, <2>1
<1>3. CASE found # {}
  <2>1. found \in SUBSET Nat
    BY <1>1
  <2>2. Min(found) \in found
    BY <1>3, <2>1, MinFacts
  <2> DEFINE m == Min(found)
             e == [list[m] EXCEPT !.address = Null]
  <2>3. list2 = [list EXCEPT ![m] = e]
    BY <1>1, <1>3 DEF Unlisted
  <2>4. m \in 1..Len(list) /\ list[m].address = a
    BY <2>2
  <2>5. list[m] \in NodeType
    BY <1>1, <2>4
  <2> HIDE DEF m
  <2>6. e \in NodeType /\ e.cell = list[m].cell /\ e.address = Null
    BY <2>5 DEF NodeType
  <2> HIDE DEF e
  <2>7. /\ list2 \in Seq(NodeType) /\ Len(list2) = Len(list)
        /\ list2[m] = e
        /\ \A n \in 1..Len(list) : n # m => list2[n] = list[n]
    BY <2>3, <2>4, <2>6
  <2>8. \A n \in 1..Len(list) : n # m => list[n].address # a
    BY <2>4
  <2>. QED BY <2>4, <2>6, <2>7, <2>8
<1>. QED BY <1>2, <1>3

\* A block is emptied only when nothing of it is in use.
LEMMA Release ==
  ASSUME PoolInv, NEW h \in Handles, FreeSmall(h)
  PROVE  PoolInv'
<1> DEFINE i == held[h].block
           b == pool.blocks[i]
<1>1. /\ pool \in PoolType /\ Null \notin Cells
      /\ DOMAIN largeList_ = 1..Len(largeList_)
      /\ \A g \in Handles : held[g] # Null =>
           held[g] \in Cells /\ Placed(pool, held[g])
      /\ \A n \in 1..Len(largeList_) :
           largeList_[n].cell \in Cells /\ Placed(pool, largeList_[n].cell)
  BY CellFacts
<1>2. /\ i \in 1..Len(pool.blocks) /\ i \in Nat /\ pool.blocks # <<>>
      /\ pool.blocks \in Seq(BlockType) /\ b \in BlockType
      /\ b.quote \in 0..(QuoteMod - 1) /\ b.last \in Nat
      /\ DOMAIN pool.blocks = 1..Len(pool.blocks) /\ Len(pool.blocks) \in Nat
  <2>1. held[h] # Null /\ pool.blocks # <<>>
    BY DEF FreeSmall, Open, Blocks
  <2>2. i \in 1..Len(pool.blocks)
    BY <1>1, <2>1 DEF Placed
  <2>. QED BY <1>1, <2>1, <2>2, BlockFacts
<1>3. /\ held' = [held EXCEPT ![h] = Null] /\ UNCHANGED <<largeList_, heldLarge>>
      /\ pool' = Released(pool, i)
  BY DEF FreeSmall
<1>4. held \in [Handles -> Cells \cup {Null}]
  BY DEF PoolInv, Shapes
<1>5. /\ held'[h] = Null /\ held' \in [Handles -> Cells \cup {Null}]
      /\ \A g \in Handles : g # h => held'[g] = held[g]
      /\ \A g \in Handles : held'[g] # Null => g # h /\ held[g] # Null
  BY <1>3, <1>4
<1> DEFINE e == IF b.quote = 1
                THEN [last |-> Start(i), quote |-> 0, failed |-> 0]
                ELSE [b EXCEPT !.quote = (@ + QuoteMod - 1) % QuoteMod]
<1>6. /\ Start(i) \in Nat /\ Start(i) <= PAGE_SIZE /\ 0 \in 0..(QuoteMod - 1)
      /\ PAGE_SIZE \in Nat /\ QuoteMod \in Nat
  <2> HIDE DEF i
  <2>1. Start(i) \in Nat /\ Start(i) <= PAGE_SIZE
    BY <1>2, HeaderFacts
  <2>2. PAGE_SIZE \in Nat /\ QuoteMod \in Nat /\ 0 \in 0..(QuoteMod - 1)
    BY HeaderFacts
  <2>. QED BY <2>1, <2>2
<1>7. /\ e \in BlockType
      /\ b.quote = 1 => e.last = Start(i) /\ e.quote = 0
      /\ b.quote # 1 => /\ e.last = b.last
                        /\ e.quote = (b.quote + QuoteMod - 1) % QuoteMod
  <2> HIDE DEF b, i
  <2>1. (b.quote + QuoteMod - 1) % QuoteMod \in 0..(QuoteMod - 1)
    BY <1>2, QuoteFacts
  <2>. QED BY <1>2, <1>6, <2>1 DEF BlockType
<1>8. /\ pool' \in PoolType
      /\ pool'.blocks = [pool.blocks EXCEPT ![i] = e]
      /\ pool'.current \in {pool.current, 1} /\ pool'.clean = pool.clean
  <2>1. /\ pool.blocks \in Seq(BlockType) /\ pool.current \in Nat
        /\ pool.clean \in BOOLEAN
        /\ pool = [blocks |-> pool.blocks, current |-> pool.current,
                   clean |-> pool.clean]
    BY <1>1 DEF PoolType
  <2> DEFINE bs == [pool.blocks EXCEPT ![i] = e]
  <2>4. bs \in Seq(BlockType)
    <3> HIDE DEF e, i
    <3>. QED BY <1>2, <1>7
  <2>2. CASE b.quote = 1
    <3>1. pool' = [pool EXCEPT !.blocks = bs, !.current = 1]
      BY <1>3, <2>2 DEF Released
    <3>2. pool' \in PoolType /\ pool'.blocks = bs
          /\ pool'.current \in {pool.current, 1} /\ pool'.clean = pool.clean
      <4> HIDE DEF bs
      <4>. QED BY <2>1, <2>4, <3>1 DEF PoolType
    <3>. QED BY <3>2
  <2>3. CASE b.quote # 1
    <3>1. pool' = [pool EXCEPT !.blocks = bs]
      BY <1>3, <2>3 DEF Released
    <3>2. pool' \in PoolType /\ pool'.blocks = bs
          /\ pool'.current \in {pool.current, 1} /\ pool'.clean = pool.clean
      <4> HIDE DEF bs
      <4>. QED BY <2>1, <2>4, <3>1 DEF PoolType
    <3>. QED BY <3>2
  <2>. QED BY <2>2, <2>3
<1> HIDE DEF e
<1>9. /\ Len(pool'.blocks) = Len(pool.blocks) /\ pool'.blocks # <<>>
      /\ pool'.blocks[i] = e
      /\ \A j \in 1..Len(pool.blocks) : j # i => pool'.blocks[j] = pool.blocks[j]
  <2> HIDE DEF i
  <2>. QED BY <1>2, <1>7, <1>8
<1>10. Shapes'
  BY <1>3, <1>5, <1>8 DEF PoolInv, Shapes
<1>11. InBounds(pool)'
  <2>1. e.last \in Start(i)..PAGE_SIZE
    <3>1. b.last \in Start(i)..PAGE_SIZE
      BY <1>2 DEF PoolInv, InBounds
    <3>2. Start(i) \in Start(i)..PAGE_SIZE
      BY <1>6
    <3>. QED BY <1>7, <3>1, <3>2
  <2>2. pool.current \in 1..Len(pool.blocks)
    BY <1>2 DEF PoolInv, InBounds
  <2>3. pool'.current \in 1..Len(pool.blocks)
    <3> HIDE DEF i
    <3>. QED BY <1>2, <1>8, <2>2
  <2>4. \A j \in 1..Len(pool.blocks) : pool.blocks[j].last \in Start(j)..PAGE_SIZE
    BY DEF PoolInv, InBounds
  <2>5. \A j \in 1..Len(pool'.blocks) : pool'.blocks[j].last \in Start(j)..PAGE_SIZE
    <3> HIDE DEF i
    <3>. QED BY <1>9, <2>1, <2>4
  <2>. QED BY <1>9, <2>3, <2>5 DEF InBounds
<1>12. AllPlaced'
  <2>1. \A d : Placed(pool, d) <=> Placed(pool', d)
    BY <1>9 DEF Placed
  <2>. QED BY <1>1, <1>3, <1>5, <2>1 DEF AllPlaced
\* In a clean pool the last request of a block leaves nothing behind it.
<1>13. ASSUME pool.clean
       PROVE  /\ h \in Users(i)
              /\ b.quote = Cardinality(Users(i)) + Cardinality(Nodes(i))
              /\ b.quote > 0
              /\ b.quote = 1 => Users(i) = {h} /\ Nodes(i) = {}
  <2>1. h \in Users(i)
    BY DEF Users, FreeSmall
  <2>2. b.quote = Cardinality(Users(i)) + Cardinality(Nodes(i))
    BY <1>2, <1>13 DEF PoolInv, QuoteCounts, Blocks
  <2>3. /\ IsFiniteSet(Users(i)) /\ Cardinality(Users(i)) \in Nat
        /\ IsFiniteSet(Nodes(i)) /\ Cardinality(Nodes(i)) \in Nat
    BY CountFacts
  <2>4. Cardinality(Users(i)) # 0
    BY <2>1, <2>3, FS_EmptySet
  <2>5. ASSUME b.quote = 1 PROVE Users(i) = {h} /\ Nodes(i) = {}
    <3> HIDE DEF i, b
    <3>1. Cardinality(Users(i)) = 1 /\ Cardinality(Nodes(i)) = 0
      BY <2>2, <2>3, <2>4, <2>5
    <3>2. \E x : Users(i) = {x}
      BY <2>3, <3>1, FS_Singleton
    <3>3. Nodes(i) = {}
      BY <2>3, <3>1, FS_EmptySet
    <3>. QED BY <2>1, <3>2, <3>3
  <2>6. b.quote > 0
    <3> HIDE DEF i, b
    <3>. QED BY <2>2, <2>3, <2>4
  <2>. QED BY <2>1, <2>2, <2>5, <2>6
<1>14. ASSUME pool.clean, b.quote # 1
       PROVE  e.quote = b.quote - 1 /\ e.last = b.last
  <2> HIDE DEF b
  <2>. QED BY <1>2, <1>7, <1>13, <1>14, QuoteFacts
<1>15. RoomIsFree'
  <2> SUFFICES ASSUME pool.clean
               PROVE  /\ \A g \in Handles : held'[g] # Null => Behind(pool', held'[g])
                      /\ \A n \in 1..Len(largeList_) :
                           Behind(pool', largeList_[n].cell)
                      /\ QuoteFits(pool')
    BY <1>3, <1>8 DEF RoomIsFree
  <2>1. /\ \A g \in Handles : held[g] # Null => Behind(pool, held[g])
        /\ \A n \in 1..Len(largeList_) : Behind(pool, largeList_[n].cell)
        /\ QuoteFits(pool)
    BY DEF PoolInv, RoomIsFree
  <2>2. ASSUME NEW d \in Cells, Placed(pool, d), Behind(pool, d),
               d.block # i \/ b.quote # 1
        PROVE  Behind(pool', d)
    <3>1. d.block \in 1..Len(pool.blocks)
      BY <2>2 DEF Placed
    <3>2. pool'.blocks[d.block].last = pool.blocks[d.block].last
      BY <1>9, <1>14, <2>2, <3>1
    <3>. QED BY <2>2, <3>2 DEF Behind
  <2>3. \A g \in Handles : held'[g] # Null => Behind(pool', held'[g])
    <3> SUFFICES ASSUME NEW g \in Handles, held'[g] # Null
                 PROVE  Behind(pool', held'[g])
      OBVIOUS
    <3>1. g # h /\ held[g] # Null /\ held'[g] = held[g]
      BY <1>5
    <3>2. b.quote = 1 => held[g].block # i
      BY <1>13, <3>1 DEF Users
    <3>. QED BY <1>1, <2>1, <2>2, <3>1, <3>2
  <2>4. \A n \in 1..Len(largeList_) : Behind(pool', largeList_[n].cell)
    <3> SUFFICES ASSUME NEW n \in 1..Len(largeList_)
                 PROVE  Behind(pool', largeList_[n].cell)
      OBVIOUS
    <3>1. b.quote = 1 => largeList_[n].cell.block # i
      BY <1>1, <1>13 DEF Nodes
    <3>. QED BY <1>1, <2>1, <2>2, <3>1
  <2>5. QuoteFits(pool')
    <3>1. e.quote + Start(i) <= e.last
      <4>1. b.quote + Start(i) <= b.last
        BY <1>2, <2>1 DEF QuoteFits
      <4> HIDE DEF b
      <4>2. CASE b.quote = 1
        BY <1>6, <1>7, <4>2
      <4>3. CASE b.quote # 1
        <5>1. e.quote = b.quote - 1 /\ e.last = b.last
          BY <1>14, <4>3
        <5>. QED BY <1>2, <1>6, <4>1, <5>1
      <4>. QED BY <4>2, <4>3
    <3>2. \A j \in 1..Len(pool'.blocks) :
            pool'.blocks[j].quote + Start(j) <= pool'.blocks[j].last
      <4> HIDE DEF i
      <4>. QED BY <1>9, <2>1, <3>1 DEF QuoteFits
    <3>. QED BY <3>2 DEF QuoteFits
  <2>. QED BY <2>3, <2>4, <2>5
<1>16. QuoteCounts'
  <2> SUFFICES ASSUME pool.clean, NEW j \in 1..Len(pool.blocks)
               PROVE  pool'.blocks[j].quote
                        = Cardinality(Users(j)') + Cardinality(Nodes(j)')
    BY <1>8, <1>9, BlockFacts DEF QuoteCounts, Blocks
  <2>1. Nodes(j)' = Nodes(j)
    BY <1>3 DEF Nodes
  <2>2. Users(j)' = IF j = i THEN Users(j) \ {h} ELSE Users(j)
    BY <1>5 DEF Users
  <2>3. /\ IsFiniteSet(Users(j)) /\ Cardinality(Users(j)) \in Nat
        /\ Cardinality(Nodes(j)) \in Nat
    BY CountFacts
  <2>4. pool.blocks[j].quote = Cardinality(Users(j)) + Cardinality(Nodes(j))
    BY <1>2 DEF PoolInv, QuoteCounts, Blocks
  <2>5. CASE j # i
    BY <1>9, <2>1, <2>2, <2>4, <2>5
  <2>6. CASE j = i
    <3>1. Cardinality(Users(j) \ {h}) = Cardinality(Users(j)) - 1
      BY <1>13, <2>3, <2>6, FS_RemoveElement
    <3>2. e.quote = b.quote - 1
      BY <1>7, <1>14
    <3>3. /\ pool'.blocks[j].quote = b.quote - 1
          /\ b.quote = Cardinality(Users(j)) + Cardinality(Nodes(j))
      BY <1>9, <2>4, <2>6, <3>2
    <3>4. Cardinality(Users(j)') = Cardinality(Users(j)) - 1
      BY <2>2, <2>6, <3>1
    <3> HIDE DEF b, i
    <3>. QED BY <2>1, <2>3, <3>3, <3>4
  <2>. QED BY <2>5, <2>6
<1>17. Disjoint'
  <2> SUFFICES ASSUME pool.clean PROVE AllApart'
    BY <1>8 DEF Disjoint, AllApart
  <2>1. AllApart
    BY DEF PoolInv, Disjoint, AllApart
  <2>. QED BY <1>3, <1>5, <2>1 DEF AllApart
<1>18. heldLarge' \in [Handles -> LargeBlocks \cup {Null}]
  BY <1>3 DEF PoolInv
<1>. QED BY <1>10, <1>11, <1>12, <1>15, <1>16, <1>17, <1>18 DEF PoolInv

\* A new pool, and one that was reset or destroyed, has nothing in use.
Unused ==
  /\ pool \in PoolType /\ InBounds(pool)
  /\ held = [h \in Handles |-> Null]
  /\ largeList_ = <<>>
  /\ heldLarge = [h \in Handles |-> Null]
  /\ pool.clean => \A i \in 1..Len(pool.blocks) :
       pool.blocks[i].quote = 0 /\ pool.blocks[i].last = Start(i)

LEMMA UnusedPool == Unused => PoolInv
<1> SUFFICES ASSUME Unused PROVE PoolInv
  OBVIOUS
<1> USE DEF Unused
<1>1. Shapes /\ heldLarge \in [Handles -> LargeBlocks \cup {Null}]
  BY DEF Shapes
<1>2. Len(largeList_) = 0 /\ DOMAIN largeList_ = {}
  OBVIOUS
<1>3. AllPlaced /\ Disjoint
  BY <1>2 DEF AllPlaced, Disjoint
<1>4. RoomIsFree
  <2>1. \A i \in 1..Len(pool.blocks) : Start(i) \in Nat
    BY BlockFacts, HeaderFacts
  <2>. QED BY <1>2, <2>1 DEF RoomIsFree, QuoteFits
<1>5. QuoteCounts
  <2>1. ASSUME NEW i PROVE Users(i) = {} /\ Nodes(i) = {}
    BY <1>2 DEF Users, Nodes
  <2>2. DOMAIN pool.blocks = 1..Len(pool.blocks)
    BY BlockFacts
  <2>3. ASSUME NEW i PROVE Cardinality(Users(i)) + Cardinality(Nodes(i)) = 0
    <3>1. Cardinality({}) = 0
      BY FS_EmptySet
    <3>2. Cardinality(Users(i)) = 0 /\ Cardinality(Nodes(i)) = 0
      BY <2>1, <3>1
    <3>. QED BY <3>2
  <2>. QED BY <2>2, <2>3 DEF QuoteCounts, Blocks
<1>. QED BY <1>1, <1>3, <1>4, <1>5 DEF PoolInv

LEMMA InitPool == Init => PoolInv
<1> SUFFICES ASSUME Init PROVE PoolInv
  OBVIOUS
<1>1. PICK g \in Garbage :
        pool = [blocks |-> <<[last |-> Start(1), quote |-> g, failed |-> 0]>>,
                current |-> 1, clean |-> g = 0]
  BY DEF Init
<1>2. Start(1) \in Nat /\ Start(1) <= PAGE_SIZE /\ PAGE_SIZE \in Nat
  BY HeaderFacts
<1>3. g \in 0..(QuoteMod - 1)
  BY MemoryPoolAssumption
<1> DEFINE e == [last |-> Start(1), quote |-> g, failed |-> 0]
<1>4. e \in BlockType /\ e.last = Start(1) /\ e.quote = g
  BY <1>2, <1>3 DEF BlockType
<1> HIDE DEF e
<1>5. /\ pool.blocks = <<e>> /\ pool.current = 1 /\ pool.clean = (g = 0)
      /\ Len(pool.blocks) = 1 /\ pool.blocks[1] = e
      /\ pool \in PoolType
  <2>1. pool = [blocks |-> <<e>>, current |-> 1, clean |-> g = 0]
    BY <1>1 DEF e
  <2>. QED BY <1>4, <2>1 DEF PoolType
<1>6. InBounds(pool)
  BY <1>2, <1>4, <1>5 DEF InBounds
<1>7. pool.clean => \A i \in 1..Len(pool.blocks) :
        pool.blocks[i].quote = 0 /\ pool.blocks[i].last = Start(i)
  <2>1. \A i \in 1..Len(pool.blocks) : i = 1
    BY <1>5
  <2>2. pool.clean => g = 0
    BY <1>5
  <2>. QED BY <1>4, <1>5, <2>1, <2>2
<1>8. Unused
  BY <1>5, <1>6, <1>7 DEF Init, Unused
<1>. QED BY <1>8, UnusedPool

\* resetPool and destroyPool
LEMMA EmptiedPool ==
  ASSUME PoolInv, ResetPool \/ DestroyPool
  PROVE  PoolInv' /\ Unused'
<1>1. /\ held' = [h \in Handles |-> Null] /\ largeList_' = <<>>
      /\ heldLarge' = [h \in Handles |-> Null]
  BY DEF ResetPool, DestroyPool
<1>2. pool \in PoolType
  BY DEF PoolInv, Shapes
<1>3. /\ pool.blocks \in Seq(BlockType) /\ Len(pool.blocks) \in Nat
      /\ DOMAIN pool.blocks = 1..Len(pool.blocks)
      /\ pool.current \in Nat /\ pool.clean \in BOOLEAN
      /\ pool = [blocks |-> pool.blocks, current |-> pool.current,
                 clean |-> pool.clean]
  BY <1>2, BlockFacts DEF PoolType
<1>4. ASSUME ResetPool PROVE Unused'
  <2> DEFINE bs == [i \in 1..Len(pool.blocks) |->
                      [last |-> Start(i), quote |-> 0, failed |-> 0]]
  <2>1. \A i \in 1..Len(pool.blocks) :
          /\ bs[i] \in BlockType /\ bs[i].last = Start(i) /\ bs[i].quote = 0
          /\ bs[i].last \in Start(i)..PAGE_SIZE
    <3> SUFFICES ASSUME NEW i \in 1..Len(pool.blocks)
                 PROVE  /\ bs[i] \in BlockType
                        /\ bs[i].last = Start(i) /\ bs[i].quote = 0
                        /\ bs[i].last \in Start(i)..PAGE_SIZE
      OBVIOUS
    <3>1. Start(i) \in Nat /\ Start(i) <= PAGE_SIZE /\ PAGE_SIZE \in Nat
      BY <1>3, HeaderFacts
    <3>2. 0 \in 0..(QuoteMod - 1)
      BY HeaderFacts
    <3>. QED BY <3>1, <3>2 DEF BlockType
  <2>2. bs \in [1..Len(pool.blocks) -> BlockType]
    BY <2>1
  <2>3. pool' = [pool EXCEPT !.blocks = bs, !.current = 1] /\ pool.blocks # <<>>
    BY <1>3, <1>4 DEF ResetPool, Blocks, Open
  <2> HIDE DEF bs
  <2>4. bs \in Seq(BlockType) /\ Len(bs) = Len(pool.blocks) /\ 1 \in 1..Len(bs)
    BY <1>3, <2>2, <2>3
  <2>5. /\ pool'.blocks = bs /\ pool'.current = 1 /\ pool' \in PoolType
        /\ pool'.clean = pool.clean
    BY <1>3, <2>3, <2>4 DEF PoolType
  <2>6. InBounds(pool')
    BY <2>1, <2>4, <2>5 DEF InBounds
  <2>7. \A i \in 1..Len(pool'.blocks) :
          pool'.blocks[i].quote = 0 /\ pool'.blocks[i].last = Start(i)
    BY <2>1, <2>4, <2>5
  <2>. QED BY <1>1, <2>5, <2>6, <2>7 DEF Unused
<1>5. ASSUME DestroyPool PROVE Unused'
  <2>1. pool' = [pool EXCEPT !.blocks = <<>>]
    BY <1>5 DEF DestroyPool
  <2>2. /\ pool'.blocks = <<>> /\ pool' \in PoolType
        /\ 1..Len(pool'.blocks) = {}
    <3>1. pool' = [blocks |-> <<>>, current |-> pool.current, clean |-> pool.clean]
      BY <1>3, <2>1
    <3>2. <<>> \in Seq(BlockType) /\ Len(<<>>) = 0
      OBVIOUS
    <3>. QED BY <1>3, <3>1, <3>2 DEF PoolType
  <2>3. InBounds(pool')
    BY <2>2 DEF InBounds
  <2>. QED BY <1>1, <2>2, <2>3 DEF Unused
<1>6. Unused'
  BY <1>4, <1>5
<1>. QED BY <1>6, UnusedPool, PTL

\* malloc of a small request
LEMMA MallocSmallKeeps ==
  ASSUME PoolInv, Open, NEW h \in Handles, held[h] = Null,
         NEW size \in Nat \ {0}, ~IsLarge(size), MallocSmall(h, size)
  PROVE  PoolInv' /\ UNCHANGED <<largeList_, heldLarge>>
<1>1. PICK r \in SmallMalloc(pool, size) :
        pool' = r.pool /\ held' = [held EXCEPT ![h] = r.cell]
  BY DEF MallocSmall
<1>2. UNCHANGED <<largeList_, heldLarge>>
  BY DEF MallocSmall
<1>3. /\ pool \in PoolType /\ InBounds(pool) /\ pool.blocks # <<>>
      /\ held \in [Handles -> Cells \cup {Null}]
      /\ size <= PAGE_SIZE - NodeSize
  BY HeaderFacts DEF PoolInv, Shapes, Open, Blocks, IsLarge
<1>4. CASE Granted(pool, r.pool, r.cell)
  BY <1>1, <1>2, <1>4, HeldGrant
<1>5. CASE r.cell = Null /\ r.pool = pool
  <2>1. held' = held /\ pool' = pool
    BY <1>1, <1>3, <1>5
  <2>2. /\ largeList_ \in Seq(NodeType)
        /\ heldLarge \in [Handles -> LargeBlocks \cup {Null}]
    BY DEF PoolInv, Shapes
  <2>. QED BY <1>2, <2>1, <2>2, AddressChange
<1>. QED BY <1>1, <1>2, <1>3, <1>4, <1>5, SmallMallocGrants

\* No address is in the list twice.
AddressOnce ==
  \A i, j \in 1..Len(largeList_) :
    largeList_[i].address = largeList_[j].address
      => i = j \/ largeList_[i].address = Null

\* malloc of a large request lists one block that was not listed.
LEMMA MallocLargeKeeps ==
  ASSUME PoolInv, Open, AddressOnce, NEW h \in Handles, MallocLarge(h)
  PROVE  /\ PoolInv' /\ AddressOnce' /\ UNCHANGED held
         /\ \E a \in LargeBlocks :
              /\ a \notin InUse
              /\ heldLarge' = [heldLarge EXCEPT ![h] = a]
              /\ \A x \in LargeBlocks : x \in InUse' <=> x \in InUse \/ x = a
<1>1. PICK a \in LargeBlocks \ InUse :
        \/ /\ FreeNodes # {}
           /\ largeList_' = [largeList_ EXCEPT ![Min(FreeNodes)].address = a]
           /\ heldLarge' = [heldLarge EXCEPT ![h] = a]
           /\ UNCHANGED <<pool, held>>
        \/ /\ FreeNodes = {}
           /\ \E r \in SmallMalloc(pool, LargeNodeSize) :
                /\ r.cell # Null
                /\ pool' = r.pool
                /\ largeList_' = <<[cell |-> r.cell, address |-> a]>> \o largeList_
           /\ heldLarge' = [heldLarge EXCEPT ![h] = a]
           /\ UNCHANGED held
  BY DEF MallocLarge
<1>2. /\ heldLarge' = [heldLarge EXCEPT ![h] = a] /\ UNCHANGED held
      /\ heldLarge' \in [Handles -> LargeBlocks \cup {Null}]
  BY <1>1 DEF PoolInv
<1>3. /\ pool \in PoolType /\ InBounds(pool) /\ pool.blocks # <<>>
      /\ largeList_ \in Seq(NodeType)
      /\ DOMAIN largeList_ = 1..Len(largeList_) /\ Len(largeList_) \in Nat
      /\ \A n \in 1..Len(largeList_) : largeList_[n] \in NodeType
  <2>1. largeList_ \in Seq(NodeType)
    BY DEF PoolInv, Shapes
  <2>. QED BY <2>1 DEF PoolInv, Shapes, Open, Blocks
<1>4. a # Null /\ \A n \in 1..Len(largeList_) : largeList_[n].address # a
  BY <1>3, MemoryPoolAssumption DEF InUse
<1>5. InUse = { largeList_[n].address : n \in 1..Len(largeList_) }
  BY <1>3 DEF InUse
<1>6. CASE FreeNodes # {}
  <2> DEFINE m == Min(FreeNodes)
             e == [largeList_[m] EXCEPT !.address = a]
  <2>1. /\ largeList_' = [largeList_ EXCEPT ![m] = e]
        /\ UNCHANGED pool
    BY <1>1, <1>6
  <2>2. m \in 1..Len(largeList_) /\ largeList_[m].address = Null
    <3>1. Min({MaxScan, Len(largeList_)}) <= Len(largeList_)
          /\ Min({MaxScan, Len(largeList_)}) \in Nat
      <4>1. {MaxScan, Len(largeList_)} \in SUBSET Nat
        BY <1>3, MemoryPoolAssumption
      <4>. QED BY <4>1, MinFacts
    <3>2. FreeNodes \subseteq 1..Len(largeList_)
      BY <1>3, <3>1 DEF FreeNodes
    <3>3. FreeNodes \in SUBSET Nat
      BY <1>3, <3>2
    <3>4. m \in FreeNodes
      BY <1>6, <3>3, MinFacts
    <3>. QED BY <3>2, <3>4 DEF FreeNodes
  <2>3. largeList_[m] \in NodeType
    BY <1>3, <2>2
  <2> HIDE DEF m
  <2>4. e \in NodeType /\ e.cell = largeList_[m].cell /\ e.address = a
    BY <2>3 DEF NodeType
  <2> HIDE DEF e
  <2>5. /\ largeList_' \in Seq(NodeType) /\ Len(largeList_') = Len(largeList_)
        /\ largeList_'[m] = e
        /\ \A n \in 1..Len(largeList_) : n # m => largeList_'[n] = largeList_[n]
        /\ DOMAIN largeList_' = 1..Len(largeList_)
    BY <1>3, <2>1, <2>2, <2>4
  <2>6. PoolInv'
    <3>1. \A n \in 1..Len(largeList_) : largeList_'[n].cell = largeList_[n].cell
      BY <2>4, <2>5
    <3>. QED BY <1>2, <2>1, <2>5, <3>1, AddressChange
  <2>7. AddressOnce'
    BY <1>4, <2>2, <2>4, <2>5 DEF AddressOnce
  <2>8. \A x \in LargeBlocks : x \in InUse' <=> x \in InUse \/ x = a
    <3>1. InUse' = { largeList_'[n].address : n \in 1..Len(largeList_) }
      BY <2>5 DEF InUse
    <3>2. \A x \in LargeBlocks : x # Null
      BY MemoryPoolAssumption
    <3>. QED BY <1>5, <2>2, <2>4, <2>5, <3>1, <3>2
  <2>. QED BY <1>2, <2>6, <2>7, <2>8
<1>7. CASE FreeNodes = {}
  <2>1. PICK r \in SmallMalloc(pool, LargeNodeSize) :
          /\ r.cell # Null
          /\ pool' = r.pool
          /\ largeList_' = <<[cell |-> r.cell, address |-> a]>> \o largeList_
    BY <1>1, <1>7
  <2>2. Granted(pool, pool', r.cell)
    <3>1. LargeNodeSize \in Nat \ {0} /\ LargeNodeSize <= PAGE_SIZE - NodeSize
      BY MemoryPoolAssumption
    <3>. QED BY <1>3, <2>1, <3>1, SmallMallocGrants
  <2>3. PoolInv'
    BY <1>2, <2>1, <2>2, NodeGrant
  <2> DEFINE node == [cell |-> r.cell, address |-> a]
  <2>4. node \in NodeType /\ node.address = a
    BY <2>2 DEF Granted, NodeType
  <2> HIDE DEF node
  <2>5. largeList_' = <<node>> \o largeList_
    BY <2>1 DEF node
  <2>6. /\ Len(largeList_') = Len(largeList_) + 1
        /\ largeList_'[1] = node
        /\ DOMAIN largeList_' = 1..(Len(largeList_) + 1)
        /\ \A n \in 1..Len(largeList_) :
             largeList_'[n + 1] = largeList_[n] /\ n + 1 \in 1..(Len(largeList_) + 1)
        /\ \A n \in 1..(Len(largeList_) + 1) :
             n = 1 \/ (n - 1 \in 1..Len(largeList_) /\ largeList_'[n] = largeList_[n - 1])
    <3>1. largeList_' \in Seq(NodeType) /\ Len(largeList_') = Len(largeList_) + 1
      BY <1>3, <2>4, <2>5, PrependFacts
    <3>. QED BY <1>3, <2>4, <2>5, <3>1, PrependFacts
  <2>7. AddressOnce'
    <3> SUFFICES ASSUME NEW i \in 1..(Len(largeList_) + 1),
                        NEW j \in 1..(Len(largeList_) + 1),
                        largeList_'[i].address = largeList_'[j].address,
                        i # j
                 PROVE  largeList_'[i].address = Null
      BY <2>6 DEF AddressOnce
    <3>1. i # 1 /\ j # 1
      BY <1>4, <2>4, <2>6
    <3>2. /\ i - 1 \in 1..Len(largeList_) /\ j - 1 \in 1..Len(largeList_)
          /\ largeList_'[i] = largeList_[i - 1] /\ largeList_'[j] = largeList_[j - 1]
          /\ i - 1 # j - 1
      BY <1>3, <2>6, <3>1
    <3>. QED BY <3>2 DEF AddressOnce
  <2>8. \A x \in LargeBlocks : x \in InUse' <=> x \in InUse \/ x = a
    <3>1. InUse' = { largeList_'[n].address : n \in 1..(Len(largeList_) + 1) }
      BY <2>6 DEF InUse
    <3>2. 1 \in 1..(Len(largeList_) + 1)
      BY <1>3
    <3>3. a \in InUse'
      BY <2>4, <2>6, <3>1, <3>2
    <3>4. ASSUME NEW x \in InUse PROVE x \in InUse'
      <4>1. PICK n \in 1..Len(largeList_) : x = largeList_[n].address
        BY <1>5
      <4>. QED BY <2>6, <3>1, <4>1
    <3>5. ASSUME NEW x \in InUse' PROVE x \in InUse \/ x = a
      <4>1. PICK n \in 1..(Len(largeList_) + 1) : x = largeList_'[n].address
        BY <3>1
      <4>. QED BY <1>5, <2>4, <2>6, <4>1
    <3>. QED BY <3>3, <3>4, <3>5
  <2>. QED BY <1>2, <2>3, <2>7, <2>8
<1>. QED BY <1>6, <1>7

\* freeMemory of a large block takes its address out of the list.
LEMMA UnlistKeeps ==
  ASSUME PoolInv, AddressOnce, NEW a \in LargeBlocks,
         largeList_' = Unlisted(largeList_, a), UNCHANGED <<pool, held>>,
         heldLarge' \in [Handles -> LargeBlocks \cup {Null}]
  PROVE  /\ PoolInv' /\ AddressOnce'
         /\ \A x \in LargeBlocks : x \in InUse' <=> x \in InUse /\ x # a
<1>1. largeList_ \in Seq(NodeType) /\ a # Null
  BY MemoryPoolAssumption DEF PoolInv, Shapes
<1>2. \A i, j \in 1..Len(largeList_) :
        largeList_[i].address = a /\ largeList_[j].address = a => i = j
  BY <1>1 DEF AddressOnce
<1>3. /\ largeList_' \in Seq(NodeType) /\ Len(largeList_') = Len(largeList_)
      /\ \A n \in 1..Len(largeList_) :
           /\ largeList_'[n].cell = largeList_[n].cell
           /\ largeList_'[n].address = IF largeList_[n].address = a
                                       THEN Null ELSE largeList_[n].address
  BY <1>1, <1>2, UnlistedFacts
<1>4. PoolInv'
  BY <1>3, AddressChange
<1>5. AddressOnce'
  BY <1>3 DEF AddressOnce
<1>6. /\ InUse = { largeList_[n].address : n \in 1..Len(largeList_) }
      /\ InUse' = { largeList_'[n].address : n \in 1..Len(largeList_) }
  BY <1>1, <1>3 DEF InUse
<1>7. \A x \in LargeBlocks : x \in InUse' <=> x \in InUse /\ x # a
  <2>1. \A x \in LargeBlocks : x # Null
    BY MemoryPoolAssumption
  <2>. QED BY <1>3, <1>6, <2>1
<1>. QED BY <1>4, <1>5, <1>7

------------------------------------------------------------------------------
\* The invariant of the large blocks.

DealType == [at : {"idle", "unlocked", "entered", "freed"},
             basePtr : LargeBlocks \cup {Null}]

\* The threads that have entered their address in largeDeal_.
Dealing == { t \in Threads : dealing[t].at \in {"entered", "freed"} }

DealShapes ==
  /\ dealing \in [Threads -> DealType]
  /\ \A t \in Threads : dealing[t].at = "idle" <=> dealing[t].basePtr = Null
  /\ pageOrMore \subseteq Handles
  /\ \A h \in pageOrMore : heldLarge[h] # Null

\* A block in the list has one node and one owner, a block that is not in the
\* list none.
OneOwner ==
  /\ \A a \in LargeBlocks :
       a \in InUse <=> \/ \E h \in Handles : heldLarge[h] = a
                       \/ \E t \in Freeing : dealing[t].basePtr = a
  /\ AddressOnce
  /\ \A g, h \in Handles :
       heldLarge[g] = heldLarge[h] => g = h \/ heldLarge[g] = Null
  /\ \A t, u \in Freeing : dealing[t].basePtr = dealing[u].basePtr => t = u
  /\ \A h \in Handles, t \in Freeing : heldLarge[h] # dealing[t].basePtr

\* largeDeal_ holds the addresses that are being freed, each of one thread; one
\* that was freed is not given out again before its thread unlocks.
DealEntered ==
  /\ largeDeal_ = { dealing[t].basePtr : t \in Dealing }
  /\ \A t, u \in Dealing : dealing[t].basePtr = dealing[u].basePtr => t = u
  /\ \A t \in Threads : dealing[t].at = "freed" => dealing[t].basePtr \notin InUse

DealInv == DealShapes /\ OneOwner /\ DealEntered

MemoryInv == PoolInv /\ DealInv

LEMMA DealInit == MemoryInit => MemoryInv
<1> SUFFICES ASSUME MemoryInit PROVE MemoryInv
  OBVIOUS
<1>1. PoolInv
  BY InitPool DEF MemoryInit
<1>2. /\ heldLarge = [h \in Handles |-> Null] /\ largeList_ = <<>>
      /\ pageOrMore = {} /\ dealing = [t \in Threads |-> Idle] /\ largeDeal_ = {}
  BY DEF MemoryInit, Init
<1>3. Idle \in DealType /\ Idle.at = "idle" /\ Idle.basePtr = Null
  BY DEF Idle, DealType
<1>4. Freeing = {} /\ Dealing = {} /\ InUse = {}
  BY <1>2, <1>3 DEF Freeing, Dealing, InUse
<1>5. \A a \in LargeBlocks : a # Null
  BY MemoryPoolAssumption
<1>6. DealShapes
  BY <1>2, <1>3 DEF DealShapes
<1>7. OneOwner
  BY <1>2, <1>4, <1>5 DEF OneOwner, AddressOnce
<1>8. DealEntered
  BY <1>2, <1>3, <1>4 DEF DealEntered
<1>. QED BY <1>1, <1>6, <1>7, <1>8 DEF MemoryInv, DealInv

\* What the invariant says of a thread in deallocate.
LEMMA ThreadFacts ==
  ASSUME DealInv, NEW t \in Threads
  PROVE  /\ dealing \in [Threads -> DealType]
         /\ dealing[t] = [at |-> dealing[t].at, basePtr |-> dealing[t].basePtr]
         /\ dealing[t].at \in {"idle", "unlocked", "entered", "freed"}
         /\ dealing[t].at = "idle" => dealing[t] = Idle
         /\ dealing[t].at # "idle" => dealing[t].basePtr \in LargeBlocks
         /\ dealing[t].at = "idle" <=> dealing[t].basePtr = Null
<1>1. dealing \in [Threads -> DealType] /\ dealing[t] \in DealType
  BY DEF DealInv, DealShapes
<1>2. /\ dealing[t] = [at |-> dealing[t].at, basePtr |-> dealing[t].basePtr]
      /\ dealing[t].at \in {"idle", "unlocked", "entered", "freed"}
      /\ dealing[t].basePtr \in LargeBlocks \cup {Null}
  BY <1>1 DEF DealType
<1>3. dealing[t].at = "idle" <=> dealing[t].basePtr = Null
  BY DEF DealInv, DealShapes
<1>. QED BY <1>1, <1>2, <1>3 DEF Idle

\* deallocate, at the end of every step that leaves the threads and the list of
\* large blocks alone.
LEMMA DealUnchanged ==
  ASSUME DealInv, UNCHANGED <<dealVars, largeList_, heldLarge>>,
         pageOrMore' = pageOrMore
  PROVE  DealInv'
<1>1. /\ Freeing' = Freeing /\ Dealing' = Dealing /\ InUse' = InUse
      /\ UNCHANGED <<dealing, largeDeal_>>
  BY DEF dealVars, Freeing, Dealing, InUse
<1>2. DealShapes'
  BY <1>1 DEF DealInv, DealShapes
<1>3. OneOwner'
  BY <1>1 DEF DealInv, OneOwner, AddressOnce
<1>4. DealEntered'
  BY <1>1 DEF DealInv, DealEntered
<1>. QED BY <1>2, <1>3, <1>4 DEF DealInv

LEMMA AllocateKeeps ==
  ASSUME MemoryInv, NEW h \in Handles, Allocate(h)
  PROVE  MemoryInv'
<1> USE DEF MemoryInv
<1>1. PICK size \in Sizes :
        /\ MallocBytes(h, size)
        /\ pageOrMore' = IF size >= PAGE_SIZE /\ heldLarge'[h] # Null
                         THEN pageOrMore \cup {h} ELSE pageOrMore
  BY DEF Allocate
<1>2. /\ ~SharedLocked /\ UNCHANGED dealVars /\ UNCHANGED <<dealing, largeDeal_>>
      /\ Open /\ held[h] = Null /\ heldLarge[h] = Null
  BY <1>1 DEF Allocate, MallocBytes, Free, dealVars
<1>3. size \in Nat \ {0}
  BY MemoryPoolAssumption
<1>4. CASE ~IsLarge(size)
  <2>1. MallocSmall(h, size)
    BY <1>1, <1>4 DEF MallocBytes
  <2>2. PoolInv' /\ UNCHANGED <<largeList_, heldLarge>>
    BY <1>2, <1>3, <1>4, <2>1, MallocSmallKeeps
  <2>3. pageOrMore' = pageOrMore
    BY <1>1, <1>2, <2>2
  <2>. QED BY <1>2, <2>2, <2>3, DealUnchanged
<1>5. CASE IsLarge(size)
  <2>1. AddressOnce
    BY DEF DealInv, OneOwner
  <2>2. MallocLarge(h)
    BY <1>1, <1>5 DEF MallocBytes
  <2>3. PoolInv' /\ AddressOnce'
    BY <1>2, <2>1, <2>2, MallocLargeKeeps
  <2>4. PICK a \in LargeBlocks :
          /\ a \notin InUse
          /\ heldLarge' = [heldLarge EXCEPT ![h] = a]
          /\ \A x \in LargeBlocks : x \in InUse' <=> x \in InUse \/ x = a
    BY <1>2, <2>1, <2>2, MallocLargeKeeps
  <2>5. /\ heldLarge \in [Handles -> LargeBlocks \cup {Null}]
        /\ heldLarge'[h] = a /\ a # Null
        /\ \A g \in Handles : g # h => heldLarge'[g] = heldLarge[g]
    BY <2>4, MemoryPoolAssumption DEF PoolInv
  <2>6. Freeing' = Freeing /\ Dealing' = Dealing
    BY <1>2 DEF Freeing, Dealing
  <2>7. DealShapes'
    <3>1. pageOrMore' \subseteq pageOrMore \cup {h}
      BY <1>1
    <3>. QED BY <1>2, <2>5, <3>1 DEF DealInv, DealShapes
  <2>8. /\ \A g \in Handles : heldLarge[g] # a
        /\ \A t \in Freeing : dealing[t].basePtr # a
    BY <2>4 DEF DealInv, OneOwner
  <2>9. OneOwner'
    <3>1. \A x \in LargeBlocks :
            x \in InUse' <=> \/ \E g \in Handles : heldLarge'[g] = x
                             \/ \E t \in Freeing : dealing[t].basePtr = x
      <4> SUFFICES ASSUME NEW x \in LargeBlocks
                   PROVE  x \in InUse' <=> \/ \E g \in Handles : heldLarge'[g] = x
                                           \/ \E t \in Freeing : dealing[t].basePtr = x
        OBVIOUS
      <4>1. x \in InUse <=> \/ \E g \in Handles : heldLarge[g] = x
                            \/ \E t \in Freeing : dealing[t].basePtr = x
        BY DEF DealInv, OneOwner
      <4>2. x # Null
        BY MemoryPoolAssumption
      <4>3. (\E g \in Handles : heldLarge'[g] = x)
              <=> x = a \/ \E g \in Handles : heldLarge[g] = x
        BY <1>2, <2>5, <4>2
      <4>. QED BY <2>4, <4>1, <4>3
    <3>2. \A f, g \in Handles :
            heldLarge'[f] = heldLarge'[g] => f = g \/ heldLarge'[f] = Null
      BY <2>5, <2>8 DEF DealInv, OneOwner
    <3>3. \A g \in Handles, t \in Freeing : heldLarge'[g] # dealing[t].basePtr
      BY <2>5, <2>8 DEF DealInv, OneOwner
    <3>4. \A t, u \in Freeing : dealing[t].basePtr = dealing[u].basePtr => t = u
      BY DEF DealInv, OneOwner
    <3>. QED BY <1>2, <2>3, <2>6, <3>1, <3>2, <3>3, <3>4 DEF OneOwner
  <2>10. DealEntered'
    <3>1. \A t \in Threads : dealing[t].at # "freed"
      BY <1>2 DEF SharedLocked
    <3>. QED BY <1>2, <2>6, <3>1 DEF DealInv, DealEntered
  <2>. QED BY <2>3, <2>7, <2>9, <2>10 DEF DealInv
<1>. QED BY <1>4, <1>5

LEMMA DeallocateSmallKeeps ==
  ASSUME MemoryInv, NEW h \in Handles, DeallocateSmall(h)
  PROVE  MemoryInv'
<1> USE DEF MemoryInv
<1>1. /\ h \notin pageOrMore /\ UNCHANGED <<pageOrMore, dealVars>>
      /\ UNCHANGED <<dealing, largeDeal_>> /\ ~SharedLocked
  BY DEF DeallocateSmall, dealVars
<1>2. CASE FreeSmall(h)
  <2>1. UNCHANGED <<largeList_, heldLarge>>
    BY <1>2 DEF FreeSmall
  <2>. QED BY <1>1, <1>2, <2>1, Release, DealUnchanged
<1>3. CASE FreeLarge(h)
  <2> DEFINE a == heldLarge[h]
  <2>1. /\ a \in LargeBlocks /\ a # Null
        /\ heldLarge \in [Handles -> LargeBlocks \cup {Null}]
    BY <1>3 DEF FreeLarge, PoolInv
  <2>2. /\ largeList_' = Unlisted(largeList_, a) /\ UNCHANGED <<pool, held>>
        /\ heldLarge' = [heldLarge EXCEPT ![h] = Null]
    BY <1>3 DEF FreeLarge
  <2> HIDE DEF a
  <2>3. /\ heldLarge' \in [Handles -> LargeBlocks \cup {Null}]
        /\ heldLarge'[h] = Null
        /\ \A g \in Handles : g # h => heldLarge'[g] = heldLarge[g]
    BY <2>1, <2>2
  <2>4. AddressOnce
    BY DEF DealInv, OneOwner
  <2>5. /\ PoolInv' /\ AddressOnce'
        /\ \A x \in LargeBlocks : x \in InUse' <=> x \in InUse /\ x # a
    BY <2>1, <2>2, <2>3, <2>4, UnlistKeeps
  <2>6. Freeing' = Freeing /\ Dealing' = Dealing
    BY <1>1 DEF Freeing, Dealing
  <2>7. DealShapes'
    BY <1>1, <2>3 DEF DealInv, DealShapes
  <2>8. /\ \A g \in Handles : heldLarge[g] = a => g = h
        /\ \A t \in Freeing : dealing[t].basePtr # a
    BY <2>1 DEF DealInv, OneOwner, a
  <2>9. OneOwner'
    <3>1. \A x \in LargeBlocks :
            x \in InUse' <=> \/ \E g \in Handles : heldLarge'[g] = x
                             \/ \E t \in Freeing : dealing[t].basePtr = x
      <4> SUFFICES ASSUME NEW x \in LargeBlocks
                   PROVE  x \in InUse' <=> \/ \E g \in Handles : heldLarge'[g] = x
                                           \/ \E t \in Freeing : dealing[t].basePtr = x
        OBVIOUS
      <4>1. x \in InUse <=> \/ \E g \in Handles : heldLarge[g] = x
                            \/ \E t \in Freeing : dealing[t].basePtr = x
        BY DEF DealInv, OneOwner
      <4>2. x # Null
        BY MemoryPoolAssumption
      <4>3. (\E g \in Handles : heldLarge'[g] = x)
              <=> x # a /\ \E g \in Handles : heldLarge[g] = x
        BY <2>3, <2>8, <4>2 DEF a
      <4>. QED BY <2>5, <2>8, <4>1, <4>3
    <3>2. \A f, g \in Handles :
            heldLarge'[f] = heldLarge'[g] => f = g \/ heldLarge'[f] = Null
      BY <2>3 DEF DealInv, OneOwner
    <3>3. \A g \in Handles, t \in Freeing : heldLarge'[g] # dealing[t].basePtr
      <4>1. \A t \in Freeing : dealing[t].basePtr # Null
        BY ThreadFacts DEF Freeing
      <4>. QED BY <2>3, <4>1 DEF DealInv, OneOwner
    <3>4. \A t, u \in Freeing : dealing[t].basePtr = dealing[u].basePtr => t = u
      BY DEF DealInv, OneOwner
    <3>. QED BY <1>1, <2>5, <2>6, <3>1, <3>2, <3>3, <3>4 DEF OneOwner
  <2>10. DealEntered'
    <3>1. \A t \in Threads : dealing[t].at # "freed"
      BY <1>1 DEF SharedLocked
    <3>. QED BY <1>1, <2>6, <3>1 DEF DealInv, DealEntered
  <2>. QED BY <2>5, <2>7, <2>9, <2>10 DEF DealInv
<1>. QED BY <1>2, <1>3 DEF DeallocateSmall

\* deallocate of a page or more: the block goes from the view to the thread.
LEMMA DeallocateLargeKeeps ==
  ASSUME MemoryInv, NEW t \in Threads, NEW h \in Handles, DeallocateLarge(t, h)
  PROVE  MemoryInv'
<1> USE DEF MemoryInv
<1> DEFINE a == heldLarge[h]
           d == [at |-> "unlocked", basePtr |-> a]
<1>1. /\ ~SharedLocked /\ h \in pageOrMore /\ dealing[t] = Idle
      /\ dealing' = [dealing EXCEPT ![t] = d]
      /\ heldLarge' = [heldLarge EXCEPT ![h] = Null]
      /\ pageOrMore' = pageOrMore \ {h}
      /\ UNCHANGED <<pool, largeList_, held, largeDeal_>>
  BY DEF DeallocateLarge
<1>2. /\ heldLarge \in [Handles -> LargeBlocks \cup {Null}]
      /\ a \in LargeBlocks /\ a # Null
  BY <1>1 DEF PoolInv, DealInv, DealShapes
<1>3. d \in DealType /\ d.at = "unlocked" /\ d.basePtr = a
  BY <1>2 DEF DealType
<1> HIDE DEF a, d
<1>4. /\ heldLarge' \in [Handles -> LargeBlocks \cup {Null}]
      /\ heldLarge'[h] = Null
      /\ \A g \in Handles : g # h => heldLarge'[g] = heldLarge[g]
  BY <1>1, <1>2
<1>5. /\ dealing' \in [Threads -> DealType] /\ dealing'[t] = d
      /\ \A u \in Threads : u # t => dealing'[u] = dealing[u]
  BY <1>1, <1>3, ThreadFacts
<1>6. PoolInv'
  BY <1>1, <1>4, AddressChange DEF PoolInv, Shapes
<1>7. /\ dealing[t].at = "idle"
      /\ Freeing' = Freeing \cup {t} /\ t \notin Freeing
      /\ Dealing' = Dealing /\ t \notin Dealing
      /\ InUse' = InUse
  <2>1. dealing[t].at = "idle"
    BY <1>1 DEF Idle
  <2>. QED BY <1>1, <1>3, <1>5, <2>1 DEF Freeing, Dealing, InUse
<1>8. DealShapes'
  <2>1. \A g \in pageOrMore' : heldLarge'[g] # Null
    BY <1>1, <1>4 DEF DealInv, DealShapes
  <2>2. \A u \in Threads : dealing'[u].at = "idle" <=> dealing'[u].basePtr = Null
    BY <1>2, <1>3, <1>5, ThreadFacts
  <2>. QED BY <1>1, <1>5, <2>1, <2>2 DEF DealInv, DealShapes
<1>9. /\ \A g \in Handles : heldLarge[g] = a => g = h
      /\ \A u \in Freeing : dealing[u].basePtr # a /\ dealing[u].basePtr # Null
      /\ heldLarge[h] = a
  <2>1. heldLarge[h] = a
    BY DEF a
  <2>2. \A u \in Freeing : dealing[u].basePtr # Null
    BY ThreadFacts DEF Freeing
  <2>. QED BY <1>2, <2>1, <2>2 DEF DealInv, OneOwner
<1>10. \A u \in Freeing : u \in Threads /\ dealing'[u] = dealing[u]
  BY <1>5, <1>7 DEF Freeing
<1>11. OneOwner'
  <2>1. \A x \in LargeBlocks :
          x \in InUse' <=> \/ \E g \in Handles : heldLarge'[g] = x
                           \/ \E u \in Freeing' : dealing'[u].basePtr = x
    <3> SUFFICES ASSUME NEW x \in LargeBlocks
                 PROVE  x \in InUse' <=> \/ \E g \in Handles : heldLarge'[g] = x
                                         \/ \E u \in Freeing' : dealing'[u].basePtr = x
      OBVIOUS
    <3>1. x \in InUse <=> \/ \E g \in Handles : heldLarge[g] = x
                          \/ \E u \in Freeing : dealing[u].basePtr = x
      BY DEF DealInv, OneOwner
    <3>2. x # Null
      BY MemoryPoolAssumption
    <3>3. (\E g \in Handles : heldLarge'[g] = x)
            <=> x # a /\ \E g \in Handles : heldLarge[g] = x
      BY <1>4, <1>9, <3>2
    <3>4. (\E u \in Freeing' : dealing'[u].basePtr = x)
            <=> x = a \/ \E u \in Freeing : dealing[u].basePtr = x
      BY <1>3, <1>5, <1>7, <1>10
    <3>5. x = a => x \in InUse
      BY <1>9, <3>1
    <3>. QED BY <1>7, <3>1, <3>3, <3>4, <3>5
  <2>2. \A f, g \in Handles :
          heldLarge'[f] = heldLarge'[g] => f = g \/ heldLarge'[f] = Null
    BY <1>4 DEF DealInv, OneOwner
  <2>3. \A u, v \in Freeing' : dealing'[u].basePtr = dealing'[v].basePtr => u = v
    BY <1>3, <1>5, <1>7, <1>9, <1>10 DEF DealInv, OneOwner
  <2>4. \A g \in Handles, u \in Freeing' : heldLarge'[g] # dealing'[u].basePtr
    BY <1>2, <1>3, <1>4, <1>5, <1>7, <1>9, <1>10 DEF DealInv, OneOwner
  <2>5. AddressOnce'
    BY <1>1 DEF DealInv, OneOwner, AddressOnce
  <2>. QED BY <2>1, <2>2, <2>3, <2>4, <2>5 DEF OneOwner
<1>12. DealEntered'
  <2>1. \A u \in Dealing : u \in Threads /\ dealing'[u] = dealing[u]
    BY <1>5, <1>7 DEF Dealing
  <2>2. \A u \in Threads : dealing'[u].at # "freed"
    BY <1>1, <1>3, <1>5 DEF SharedLocked
  <2>. QED BY <1>1, <1>7, <2>1, <2>2 DEF DealInv, DealEntered
<1>. QED BY <1>6, <1>8, <1>11, <1>12 DEF DealInv

\* An address that a thread is about to enter is not in largeDeal_: its block
\* is still listed, and no other thread is freeing it.
LEMMA NotEntered ==
  ASSUME DealInv, NEW t \in Threads, dealing[t].at = "unlocked"
  PROVE  dealing[t].basePtr \notin largeDeal_
<1> SUFFICES ASSUME dealing[t].basePtr \in largeDeal_ PROVE FALSE
  OBVIOUS
<1>1. t \in Freeing /\ dealing[t].basePtr \in LargeBlocks
  BY ThreadFacts DEF Freeing
<1>2. dealing[t].basePtr \in InUse
  BY <1>1 DEF DealInv, OneOwner
<1>3. PICK u \in Dealing : dealing[u].basePtr = dealing[t].basePtr
  BY DEF DealInv, DealEntered
<1>4. u \in Threads /\ dealing[u].at \in {"entered", "freed"}
  BY DEF Dealing
<1>5. CASE dealing[u].at = "entered"
  <2>1. u \in Freeing
    BY <1>4, <1>5 DEF Freeing
  <2>. QED BY <1>1, <1>3, <1>5, <2>1 DEF DealInv, OneOwner
<1>6. CASE dealing[u].at = "freed"
  BY <1>2, <1>3, <1>4, <1>6 DEF DealInv, DealEntered
<1>. QED BY <1>4, <1>5, <1>6

LEMMA EnterDealKeeps ==
  ASSUME MemoryInv, NEW t \in Threads, EnterDeal(t)
  PROVE  MemoryInv'
<1> USE DEF MemoryInv
<1> DEFINE a == dealing[t].basePtr
           d == [dealing[t] EXCEPT !.at = "entered"]
<1>1. /\ dealing[t].at = "unlocked" /\ UNCHANGED <<vars, pageOrMore>>
      /\ UNCHANGED <<pool, largeList_, held, heldLarge>>
      /\ largeDeal_' = largeDeal_ \cup {a}
      /\ a \notin largeDeal_
      /\ dealing' = [dealing EXCEPT ![t] = d]
  BY NotEntered DEF EnterDeal, vars
<1>2. dealing[t] \in DealType /\ a \in LargeBlocks /\ a # Null
  BY <1>1, ThreadFacts
<1>3. d \in DealType /\ d.at = "entered" /\ d.basePtr = a
  BY <1>2 DEF DealType
<1> HIDE DEF a, d
<1>4. /\ dealing' \in [Threads -> DealType] /\ dealing'[t] = d
      /\ \A u \in Threads : u # t => dealing'[u] = dealing[u]
      /\ \A u \in Threads : dealing'[u].basePtr = dealing[u].basePtr
  BY <1>1, <1>3, ThreadFacts DEF a
<1>5. PoolInv'
  BY <1>1, AddressChange DEF PoolInv, Shapes
<1>6. /\ Freeing' = Freeing /\ InUse' = InUse
      /\ Dealing' = Dealing \cup {t} /\ t \notin Dealing
  BY <1>1, <1>3, <1>4 DEF Freeing, Dealing, InUse
<1>7. Freeing \subseteq Threads /\ Dealing \subseteq Threads
  BY DEF Freeing, Dealing
<1>8. DealShapes'
  <2>1. \A u \in Threads : dealing'[u].at = "idle" <=> dealing'[u].basePtr = Null
    BY <1>2, <1>3, <1>4, ThreadFacts
  <2>. QED BY <1>1, <1>4, <2>1 DEF DealInv, DealShapes
<1>9. OneOwner'
  BY <1>1, <1>4, <1>6, <1>7 DEF DealInv, OneOwner, AddressOnce
<1>10. DealEntered'
  <2>1. largeDeal_ = { dealing[u].basePtr : u \in Dealing }
    BY DEF DealInv, DealEntered
  <2>2. largeDeal_' = { dealing'[u].basePtr : u \in Dealing' }
    BY <1>1, <1>3, <1>4, <1>6, <1>7, <2>1
  <2>3. \A u \in Dealing : dealing[u].basePtr # a
    BY <1>1, <2>1
  <2>4. \A u, v \in Dealing' : dealing'[u].basePtr = dealing'[v].basePtr => u = v
    BY <1>3, <1>4, <1>6, <1>7, <2>3 DEF DealInv, DealEntered
  <2>5. \A u \in Threads : dealing'[u].at = "freed" => dealing'[u].basePtr \notin InUse'
    BY <1>3, <1>4, <1>6 DEF DealInv, DealEntered
  <2>. QED BY <2>2, <2>4, <2>5 DEF DealEntered
<1>. QED BY <1>5, <1>8, <1>9, <1>10 DEF DealInv

\* freeMemory under the shared lock: the block goes from the thread and from
\* the list at once.
LEMMA FreeSharedKeeps ==
  ASSUME MemoryInv, NEW t \in Threads, FreeShared(t)
  PROVE  MemoryInv'
<1> USE DEF MemoryInv
<1> DEFINE a == dealing[t].basePtr
           d == [dealing[t] EXCEPT !.at = "freed"]
<1>1. /\ dealing[t].at = "entered"
      /\ UNCHANGED <<pool, held, heldLarge, pageOrMore, largeDeal_>>
      /\ largeList_' = Unlisted(largeList_, a)
      /\ dealing' = [dealing EXCEPT ![t] = d]
  BY DEF FreeShared
<1>2. dealing[t] \in DealType /\ a \in LargeBlocks /\ a # Null
  BY <1>1, ThreadFacts
<1>3. d \in DealType /\ d.at = "freed" /\ d.basePtr = a
  BY <1>2 DEF DealType
<1> HIDE DEF d
<1>4. /\ dealing' \in [Threads -> DealType] /\ dealing'[t] = d
      /\ \A u \in Threads : u # t => dealing'[u] = dealing[u]
      /\ \A u \in Threads : dealing'[u].basePtr = dealing[u].basePtr
  BY <1>1, <1>3, ThreadFacts
<1> HIDE DEF a
<1>5. /\ PoolInv' /\ AddressOnce'
      /\ \A x \in LargeBlocks : x \in InUse' <=> x \in InUse /\ x # a
  <2>1. AddressOnce /\ heldLarge' \in [Handles -> LargeBlocks \cup {Null}]
    BY <1>1 DEF DealInv, OneOwner, PoolInv
  <2>. QED BY <1>1, <1>2, <2>1, UnlistKeeps
<1>6. /\ Freeing' = Freeing \ {t} /\ t \in Freeing
      /\ Dealing' = Dealing
  BY <1>1, <1>3, <1>4 DEF Freeing, Dealing
<1>7. Freeing \subseteq Threads /\ Dealing \subseteq Threads
  BY DEF Freeing, Dealing
<1>8. DealShapes'
  <2>1. \A u \in Threads : dealing'[u].at = "idle" <=> dealing'[u].basePtr = Null
    BY <1>2, <1>3, <1>4, ThreadFacts
  <2>. QED BY <1>1, <1>4, <2>1 DEF DealInv, DealShapes
<1>9. /\ \A g \in Handles : heldLarge[g] # a
      /\ \A u \in Freeing : dealing[u].basePtr = a => u = t
      /\ dealing[t].basePtr = a
  BY <1>6 DEF DealInv, OneOwner, a
<1>10. OneOwner'
  <2>1. \A x \in LargeBlocks :
          x \in InUse' <=> \/ \E g \in Handles : heldLarge'[g] = x
                           \/ \E u \in Freeing' : dealing'[u].basePtr = x
    <3> SUFFICES ASSUME NEW x \in LargeBlocks
                 PROVE  x \in InUse' <=> \/ \E g \in Handles : heldLarge'[g] = x
                                         \/ \E u \in Freeing' : dealing'[u].basePtr = x
      OBVIOUS
    <3>1. x \in InUse <=> \/ \E g \in Handles : heldLarge[g] = x
                          \/ \E u \in Freeing : dealing[u].basePtr = x
      BY DEF DealInv, OneOwner
    <3>2. (\E u \in Freeing' : dealing'[u].basePtr = x)
            <=> x # a /\ \E u \in Freeing : dealing[u].basePtr = x
      BY <1>4, <1>6, <1>7, <1>9
    <3>. QED BY <1>1, <1>5, <1>9, <3>1, <3>2
  <2>2. \A f, g \in Handles :
          heldLarge'[f] = heldLarge'[g] => f = g \/ heldLarge'[f] = Null
    BY <1>1 DEF DealInv, OneOwner
  <2>3. \A u, v \in Freeing' : dealing'[u].basePtr = dealing'[v].basePtr => u = v
    BY <1>4, <1>6, <1>7 DEF DealInv, OneOwner
  <2>4. \A g \in Handles, u \in Freeing' : heldLarge'[g] # dealing'[u].basePtr
    BY <1>1, <1>4, <1>6, <1>7 DEF DealInv, OneOwner
  <2>. QED BY <1>5, <2>1, <2>2, <2>3, <2>4 DEF OneOwner
<1>11. DealEntered'
  <2>1. \A u \in Threads : dealing'[u].at = "freed" => dealing'[u].basePtr \notin InUse'
    <3> SUFFICES ASSUME NEW u \in Threads, dealing'[u].at = "freed"
                 PROVE  dealing'[u].basePtr \notin InUse'
      OBVIOUS
    <3>1. CASE u = t
      BY <1>2, <1>3, <1>4, <1>5, <3>1
    <3>2. CASE u # t
      <4>1. dealing[u].at = "freed" /\ dealing'[u].basePtr = dealing[u].basePtr
        BY <1>4, <3>2
      <4>2. dealing[u].basePtr \in LargeBlocks /\ dealing[u].basePtr \notin InUse
        BY <4>1, ThreadFacts DEF DealInv, DealEntered
      <4>. QED BY <1>5, <4>1, <4>2
    <3>. QED BY <3>1, <3>2
  <2>2. largeDeal_' = { dealing'[u].basePtr : u \in Dealing' }
    BY <1>1, <1>4, <1>6, <1>7 DEF DealInv, DealEntered
  <2>3. \A u, v \in Dealing' : dealing'[u].basePtr = dealing'[v].basePtr => u = v
    BY <1>4, <1>6, <1>7 DEF DealInv, DealEntered
  <2>. QED BY <2>1, <2>2, <2>3 DEF DealEntered
<1>. QED BY <1>5, <1>8, <1>10, <1>11 DEF DealInv

LEMMA LeaveDealKeeps ==
  ASSUME MemoryInv, NEW t \in Threads, LeaveDeal(t)
  PROVE  MemoryInv'
<1> USE DEF MemoryInv
<1> DEFINE a == dealing[t].basePtr
<1>1. /\ dealing[t].at = "freed" /\ UNCHANGED <<vars, pageOrMore>>
      /\ UNCHANGED <<pool, largeList_, held, heldLarge>>
      /\ largeDeal_' = largeDeal_ \ {a}
      /\ dealing' = [dealing EXCEPT ![t] = Idle]
  BY ThreadFacts DEF LeaveDeal, vars
<1>2. Idle \in DealType /\ Idle.at = "idle" /\ Idle.basePtr = Null
  BY DEF Idle, DealType
<1>3. /\ dealing' \in [Threads -> DealType] /\ dealing'[t] = Idle
      /\ \A u \in Threads : u # t => dealing'[u] = dealing[u]
  BY <1>1, <1>2, ThreadFacts
<1>4. PoolInv'
  BY <1>1, AddressChange DEF PoolInv, Shapes
<1>5. /\ Freeing' = Freeing /\ t \notin Freeing /\ InUse' = InUse
      /\ Dealing' = Dealing \ {t} /\ t \in Dealing
  BY <1>1, <1>2, <1>3 DEF Freeing, Dealing, InUse
<1>6. /\ \A u \in Freeing : u \in Threads /\ dealing'[u] = dealing[u]
      /\ \A u \in Dealing : u \in Threads
  BY <1>3, <1>5 DEF Freeing, Dealing
<1>7. DealShapes'
  <2>1. \A u \in Threads : dealing'[u].at = "idle" <=> dealing'[u].basePtr = Null
    BY <1>2, <1>3, ThreadFacts
  <2>. QED BY <1>1, <1>3, <2>1 DEF DealInv, DealShapes
<1>8. OneOwner'
  BY <1>1, <1>5, <1>6 DEF DealInv, OneOwner, AddressOnce
<1>9. DealEntered'
  <2>1. \A u \in Dealing : dealing[u].basePtr = a => u = t
    BY <1>5 DEF DealInv, DealEntered
  <2>2. largeDeal_ = { dealing[u].basePtr : u \in Dealing }
    BY DEF DealInv, DealEntered
  <2>3. \A u \in Dealing' : dealing'[u] = dealing[u]
    BY <1>3, <1>5, <1>6
  <2> HIDE DEF a
  <2>4. largeDeal_' = { dealing'[u].basePtr : u \in Dealing' }
    <3>1. { dealing'[u].basePtr : u \in Dealing' } = { dealing[u].basePtr : u \in Dealing \ {t} }
      BY <1>5, <2>3
    <3>2. a = dealing[t].basePtr
      BY DEF a
    <3>. QED BY <1>1, <2>1, <2>2, <3>1, <3>2
  <2>5. \A u, v \in Dealing' : dealing'[u].basePtr = dealing'[v].basePtr => u = v
    BY <1>5, <2>3 DEF DealInv, DealEntered
  <2>6. \A u \in Threads : dealing'[u].at = "freed" => dealing'[u].basePtr \notin InUse'
    BY <1>2, <1>3, <1>5 DEF DealInv, DealEntered
  <2>. QED BY <2>4, <2>5, <2>6 DEF DealEntered
<1>. QED BY <1>4, <1>7, <1>8, <1>9 DEF DealInv

\* resetPool and ~Memory
LEMMA ResetMemoryKeeps ==
  ASSUME MemoryInv, ResetMemory
  PROVE  MemoryInv'
<1> USE DEF MemoryInv
<1>1. PoolInv' /\ Unused'
  BY EmptiedPool DEF ResetMemory
<1>2. /\ \A t \in Threads : dealing[t] = Idle
      /\ pageOrMore' = {} /\ UNCHANGED <<dealing, largeDeal_>>
  BY DEF ResetMemory, dealVars
<1>3. Freeing = {} /\ Dealing = {} /\ Freeing' = {} /\ Dealing' = {}
  BY <1>2 DEF Freeing, Dealing, Idle
<1>4. InUse' = {} /\ AddressOnce' /\ \A g \in Handles : heldLarge'[g] = Null
  BY <1>1 DEF Unused, InUse, AddressOnce
<1>5. DealShapes'
  BY <1>2 DEF DealInv, DealShapes
<1>6. OneOwner'
  <2>1. \A x \in LargeBlocks : x # Null
    BY MemoryPoolAssumption
  <2>. QED BY <1>3, <1>4, <2>1 DEF OneOwner
<1>7. DealEntered'
  <2>1. \A t \in Threads : dealing[t].at # "freed"
    BY <1>2 DEF Idle
  <2>. QED BY <1>2, <1>3, <2>1 DEF DealInv, DealEntered
<1>. QED BY <1>1, <1>5, <1>6, <1>7 DEF DealInv

LEMMA MemoryStep == MemoryInv /\ [MemoryNext]_memoryVars => MemoryInv'
<1> SUFFICES ASSUME MemoryInv, [MemoryNext]_memoryVars PROVE MemoryInv'
  OBVIOUS
<1>1. ASSUME NEW h \in Handles, Allocate(h) PROVE MemoryInv'
  BY <1>1, AllocateKeeps
<1>2. ASSUME NEW h \in Handles, DeallocateSmall(h) PROVE MemoryInv'
  BY <1>2, DeallocateSmallKeeps
<1>3. ASSUME NEW t \in Threads, Deallocating(t) PROVE MemoryInv'
  BY <1>3, EnterDealKeeps, FreeSharedKeeps, LeaveDealKeeps DEF Deallocating
<1>4. ASSUME NEW t \in Threads, NEW h \in Handles, DeallocateLarge(t, h)
      PROVE  MemoryInv'
  BY <1>4, DeallocateLargeKeeps
<1>5. CASE ResetMemory
  BY <1>5, ResetMemoryKeeps
<1>6. CASE UNCHANGED memoryVars
  <2>1. UNCHANGED <<pool, largeList_, held, heldLarge, pageOrMore, dealVars>>
    BY <1>6 DEF memoryVars, vars
  <2>2. PoolInv'
    BY <2>1, AddressChange DEF MemoryInv, PoolInv, Shapes
  <2>. QED BY <2>1, <2>2, DealUnchanged DEF MemoryInv
<1>. QED BY <1>1, <1>2, <1>3, <1>4, <1>5, <1>6 DEF MemoryNext

------------------------------------------------------------------------------
\* What the invariant gives.

LEMMA InvTypeOK == PoolInv => TypeOK
<1> SUFFICES ASSUME PoolInv PROVE TypeOK
  OBVIOUS
<1>1. /\ pool \in PoolType /\ InBounds(pool)
      /\ heldLarge \in [Handles -> LargeBlocks \cup {Null}]
      /\ held \in [Handles -> Cells \cup {Null}]
  BY DEF PoolInv, Shapes
<1>2. /\ DOMAIN Blocks = 1..Len(pool.blocks) /\ Len(pool.blocks) \in Nat
      /\ PAGE_SIZE \in Nat
  BY <1>1, BlockFacts, HeaderFacts DEF Blocks
<1>3. ASSUME NEW c \in Cells, Placed(pool, c) PROVE c \in CellType
  <2>1. /\ c = [block |-> c.block, at |-> c.at, size |-> c.size]
        /\ c.block \in Nat /\ c.at \in Nat /\ c.size \in Nat
    BY DEF Cells
  <2>2. /\ c.block \in DOMAIN Blocks /\ c.at >= Start(c.block) /\ c.size >= 1
        /\ c.at + c.size <= PAGE_SIZE /\ c.at % MP_ALIGNMENT = 0
    BY <1>2, <1>3 DEF Placed
  <2>3. c.at \in 0..PAGE_SIZE /\ c.size \in 1..PAGE_SIZE
    BY <1>2, <2>1, <2>2
  <2>. QED BY <2>1, <2>2, <2>3 DEF CellType
<1>4. \A i \in DOMAIN Blocks :
        /\ Blocks[i].last \in Start(i)..PAGE_SIZE
        /\ Blocks[i].quote \in 0..(QuoteMod - 1)
        /\ Blocks[i].failed \in Nat
  BY <1>1, <1>2, BlockFacts DEF InBounds, Blocks
<1>5. Open => pool.current \in DOMAIN Blocks
  BY <1>1, <1>2 DEF Open, InBounds, Blocks
<1>6. \A h \in Handles : held[h] \in CellType \cup {Null}
  BY <1>3, CellFacts
<1>7. \A n \in DOMAIN largeList_ : /\ largeList_[n].cell \in CellType
                                   /\ largeList_[n].address \in LargeBlocks \cup {Null}
  BY <1>3, CellFacts
<1>. QED BY <1>1, <1>4, <1>5, <1>6, <1>7 DEF TypeOK

LEMMA InvLargeOwned == PoolInv /\ DealInv => LargeOwned
<1> SUFFICES ASSUME PoolInv, DealInv, NEW a \in LargeBlocks
             PROVE  LET listed == { i \in DOMAIN largeList_ : largeList_[i].address = a }
                    IN  /\ Cardinality(Owners(a)) = Cardinality(listed)
                        /\ Cardinality(listed) <= 1
  BY DEF LargeOwned
<1> DEFINE listed == { i \in DOMAIN largeList_ : largeList_[i].address = a }
<1>1. DOMAIN largeList_ = 1..Len(largeList_) /\ a # Null
  BY CellFacts, MemoryPoolAssumption
<1>2. CASE a \notin InUse
  <2>1. listed = {} /\ Owners(a) = {}
    BY <1>2 DEF InUse, Owners, DealInv, OneOwner
  <2>. QED BY <2>1, FS_EmptySet
<1>3. CASE a \in InUse
  <2>1. PICK i \in DOMAIN largeList_ : largeList_[i].address = a
    BY <1>3 DEF InUse
  <2>2. listed = {i}
    BY <1>1, <2>1 DEF DealInv, OneOwner, AddressOnce
  <2>3. \E x : Owners(a) = {x}
    <3>1. CASE \E h \in Handles : heldLarge[h] = a
      <4>1. PICK h \in Handles : heldLarge[h] = a
        BY <3>1
      <4>2. Owners(a) = {h}
        BY <1>1, <4>1 DEF Owners, DealInv, OneOwner
      <4>. QED BY <4>2
    <3>2. CASE \E t \in Freeing : dealing[t].basePtr = a
      <4>1. PICK t \in Freeing : dealing[t].basePtr = a
        BY <3>2
      <4>2. Owners(a) = {t}
        BY <1>1, <4>1 DEF Owners, DealInv, OneOwner
      <4>. QED BY <4>2
    <3>. QED BY <1>3, <3>1, <3>2 DEF DealInv, OneOwner
  <2>4. PICK x : Owners(a) = {x}
    BY <2>3
  <2>5. Cardinality({x}) = 1 /\ Cardinality({i}) = 1
    BY FS_Singleton
  <2>. QED BY <2>2, <2>4, <2>5
<1>. QED BY <1>2, <1>3

THEOREM MemoryInvariant == MemorySpec => []MemoryInv
<1>. QED BY DealInit, MemoryStep, PTL DEF MemorySpec

\* The pool's state keeps its shape, and every request that was granted lies
\* aligned in its block, behind the headers: malloc of MemoryPool.cpp, under
\* any calls of Memory by any threads.
THEOREM MemoryTypeCorrect == MemorySpec => []TypeOK
<1>1. MemoryInv => TypeOK
  BY InvTypeOK DEF MemoryInv
<1>. QED BY <1>1, MemoryInvariant, PTL

\* quote_ is the number of requests in use in its block (MemoryPool.h:13), as
\* long as every new block was zero.
THEOREM MemoryQuoteCounts == MemorySpec => []QuoteCounts
<1>1. MemoryInv => QuoteCounts
  BY DEF MemoryInv, PoolInv
<1>. QED BY <1>1, MemoryInvariant, PTL

\* No two requests that are in use share a byte, whenever freeMemory empties a
\* block and malloc fills it again, as long as every new block was zero.
THEOREM MemoryDisjoint == MemorySpec => []Disjoint
<1>1. MemoryInv => Disjoint
  BY DEF MemoryInv, PoolInv
<1>. QED BY <1>1, MemoryInvariant, PTL

\* A large block is listed exactly as long as one view, or one thread in
\* deallocate, owns it: the unlocked window of Memory::deallocate neither gives
\* a block out twice nor leaves one in the list.
THEOREM MemoryLargeOwned == MemorySpec => []LargeOwned
<1>1. MemoryInv => LargeOwned
  BY InvLargeOwned DEF MemoryInv
<1>. QED BY <1>1, MemoryInvariant, PTL
==============================================================================
