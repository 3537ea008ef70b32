-------------------------------- MODULE Memory --------------------------------
(***************************************************************************)
(* Memory (src/src/Memory/Memory.h, Memeory.cpp): the memory pool shared   *)
(* by several threads.  allocate, resetPool and the deallocate of a small  *)
(* block hold poolMutex_ exclusively and are one step each.  The           *)
(* deallocate of a large block lets go of it, enters the address into      *)
(* largeDeal_, frees the block under the shared lock together with other   *)
(* threads, and takes the address out again before it unlocks.             *)
(*                                                                         *)
(* A MemoryView is a handle of the pool, and views are not copied.  Its    *)
(* count is kept as whether its bytes come to a page: deallocate chooses   *)
(* the way by that, while the pool calls a request large that is longer    *)
(* than a page without its header.                                         *)
(***************************************************************************)
EXTENDS MemoryPool

CONSTANT Threads   \* the threads that may be in deallocate at once

VARIABLES
  pageOrMore,   \* the views with at least PAGE_SIZE bytes
  dealing,      \* how far each thread is with the large block it deallocates
  largeDeal_    \* Memory::largeDeal_

dealVars == <<dealing, largeDeal_>>
memoryVars == <<vars, pageOrMore, dealVars>>

Idle == [at |-> "idle", basePtr |-> Null]

\* poolMutex_ is held shared from line 87 to the end of deallocate, and
\* nobody gets it exclusively meanwhile.
SharedLocked == \E t \in Threads : dealing[t].at = "freed"

MemoryInit ==
  /\ Init
  /\ pageOrMore = {}
  /\ dealing = [t \in Threads |-> Idle]
  /\ largeDeal_ = {}

------------------------------------------------------------------------------
Allocate(h) ==
  /\ ~SharedLocked
  /\ \E size \in Sizes :
       /\ MallocBytes(h, size)
       /\ pageOrMore' = IF size >= PAGE_SIZE /\ heldLarge'[h] # Null
                        THEN pageOrMore \cup {h} ELSE pageOrMore
  /\ UNCHANGED dealVars

\* deallocate of less than a page.
DeallocateSmall(h) ==
  /\ ~SharedLocked
  /\ h \notin pageOrMore
  /\ FreeSmall(h) \/ FreeLarge(h)
  /\ UNCHANGED <<pageOrMore, dealVars>>

\* deallocate of a page or more: the view is emptied, and poolMutex_ released.
DeallocateLarge(t, h) ==
  /\ ~SharedLocked
  /\ Open
  /\ h \in pageOrMore
  /\ dealing[t] = Idle
  /\ dealing' = [dealing EXCEPT ![t] = [at |-> "unlocked",
                                        basePtr |-> heldLarge[h]]]
  /\ heldLarge' = [heldLarge EXCEPT ![h] = Null]
  /\ pageOrMore' = pageOrMore \ {h}
  /\ UNCHANGED <<pool, largeList_, held, largeDeal_>>

\* The address is entered, unless it is there already: then it is being freed
\* and there is nothing to do.
EnterDeal(t) ==
  /\ dealing[t].at = "unlocked"
  /\ IF dealing[t].basePtr \in largeDeal_
     THEN dealing' = [dealing EXCEPT ![t] = Idle]
     ELSE dealing' = [dealing EXCEPT ![t].at = "entered"]
  /\ largeDeal_' = largeDeal_ \cup {dealing[t].basePtr}
  /\ UNCHANGED <<vars, pageOrMore>>

\* Mutant: the lock is released as soon as the block is freed, before the
\* address is taken out of largeDeal_.
FreeShared_Unlocks(t) ==
  /\ dealing[t].at = "entered"
  /\ largeList_' = Unlisted(largeList_, dealing[t].basePtr)
  /\ dealing' = [dealing EXCEPT ![t].at = "unlockedEarly"]
  /\ UNCHANGED <<pool, held, heldLarge, pageOrMore, largeDeal_>>

\* freeMemory under the shared lock.
FreeShared(t) ==
  /\ dealing[t].at = "entered"
  /\ largeList_' = Unlisted(largeList_, dealing[t].basePtr)
  /\ dealing' = [dealing EXCEPT ![t].at = "freed"]
  /\ UNCHANGED <<pool, held, heldLarge, pageOrMore, largeDeal_>>

LeaveDeal(t) ==
  /\ dealing[t].at \notin {"idle", "unlocked", "entered"}
  /\ largeDeal_' = largeDeal_ \ {dealing[t].basePtr}
  /\ dealing' = [dealing EXCEPT ![t] = Idle]
  /\ UNCHANGED <<vars, pageOrMore>>

\* resetPool, and ~Memory: whoever calls them has no view left, and no thread
\* is in deallocate.
ResetMemory ==
  /\ \A t \in Threads : dealing[t] = Idle
  /\ ResetPool \/ DestroyPool
  /\ pageOrMore' = {}
  /\ UNCHANGED dealVars

Deallocating(t) == EnterDeal(t) \/ FreeShared(t) \/ LeaveDeal(t)

MemoryNext ==
  \/ \E h \in Handles : Allocate(h) \/ DeallocateSmall(h)
  \/ \E t \in Threads : Deallocating(t)
  \/ \E t \in Threads : \E h \in Handles : DeallocateLarge(t, h)
  \/ ResetMemory

MemorySpec == MemoryInit /\ [][MemoryNext]_memoryVars

------------------------------------------------------------------------------
\* The threads that still have to free a block, and the owners of block a.
Freeing == { t \in Threads : dealing[t].at \in {"unlocked", "entered"} }

Owners(a) ==
  { h \in Handles : heldLarge[h] = a }
    \cup { t \in Freeing : dealing[t].basePtr = a }

\* A large block is in the list of the pool exactly as long as one view, or
\* one thread on its way to free it, has its address: no block is given out
\* twice or freed under its user, and none is left in the list by a thread
\* that took an address in largeDeal_ for its own.
LargeOwned ==
  \A a \in LargeBlocks :
    LET listed == { i \in DOMAIN largeList_ : largeList_[i].address = a }
    IN  Cardinality(Owners(a)) = Cardinality(listed) /\ Cardinality(listed) <= 1
==============================================================================
