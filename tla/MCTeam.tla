------------------------------- MODULE MCTeam -------------------------------
EXTENDS Team, TLC

\* Sites are alike, and so are the players that the bounds do not tell apart.
Symm == Permutations(Sites) \cup Permutations(Heroes \ (Inviters \cup Quitters \cup Terse))
=============================================================================
