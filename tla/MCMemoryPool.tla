---------------------------- MODULE MCMemoryPool -----------------------------
(* A small pool for Memory, in units of eight bytes: the headers have their *)
(* true sizes, and a block has room for a few requests behind them.         *)
EXTENDS Memory, TLC

CONSTANTS h1, h2, l1, l2, t1, t2

MCHandles == {h1, h2}
MCLargeBlocks == {l1, l2}
MCSizes == {5, 12, 13, 16}
MCThreads == {t1, t2}
MCGarbage == {0, 31}
Symmetric == Permutations(MCHandles) \cup Permutations(MCLargeBlocks)
               \cup Permutations(MCThreads)
==============================================================================
