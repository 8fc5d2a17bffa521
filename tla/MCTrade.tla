------------------------------ MODULE MCTrade -------------------------------
EXTENDS Trade

CONSTANTS Item1, Item2

\* Three kinds of coin.
MCValue == <<1, 2, 6>>

MCBuyPrice == [i \in Items |-> IF i = Item1 THEN 3 ELSE 5]
MCSellPrice == [i \in Items |-> IF i = Item1 THEN 1 ELSE 2]

\* The shop prefers small coins, like the default one; the bank gives anything.
MCShopTerms == [out |-> <<8, 4, 0>>, reduce |-> <<0, 1, 1>>, max |-> 6, buy |-> 100, change |-> 100]
MCBankTerms == [out |-> <<9, 9, 9>>, reduce |-> <<0, 0, 0>>, max |-> 9,
                buy |-> 100 + Fee, change |-> 100 + Fee]
=============================================================================
