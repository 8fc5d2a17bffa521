------------------------------ MODULE MCCombat ------------------------------
EXTENDS Combat, TLC

CONSTANTS a, b, m

\* Rooms are alike, and so are the two players.
Symm == Permutations(Rooms) \cup Permutations({a, b})
=============================================================================
