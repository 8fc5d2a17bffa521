------------------------------- MODULE MCHeap -------------------------------
EXTENDS Heap, TLC

\* Heaps are alike, and so are the livings.
Symm == Permutations(Heaps) \cup Permutations(Livings)
=============================================================================
