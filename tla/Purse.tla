------------------------------- MODULE Purse --------------------------------
(***************************************************************************)
(* What trade promises to those who trade, whatever the coins: goods and   *)
(* money change hands in one step, nobody pays a whole coin too much or is *)
(* paid too much, the bank earns nobody a fortune, and money is lost in    *)
(* one way only, which Trade shows to be the death of heaps that were to   *)
(* die anyway.                                                             *)
(*                                                                         *)
(* The abstract specification of Trade: obj/lib/trade.c, shop.c, pub.c,    *)
(* bank.c and lib/language/money.c.                                        *)
(***************************************************************************)
EXTENDS Naturals, FiniteSetsExt

CONSTANTS
    Players, Items,
    Store,              \* who owns what is for sale
    BuyPrice,           \* BuyPrice[i]: query_buy_price of item i
    SellPrice,          \* SellPrice[i]: query_sell_price of item i
    MealPrice,          \* what the pub asks for one meal
    Dearest             \* the value of the dearest coin

VARIABLES
    owner,              \* owner[i]: the player that has item i, or Store
    meals,              \* meals[p]: what the pub has served to p
    sound,              \* sound[p]: the value of p's lasting coins
    doomed              \* doomed[p]: the value of the coins that will vanish

vars == <<owner, meals, sound, doomed>>

Wealth(p) == sound[p] + doomed[p]

Others(p) ==
    \A q \in Players \ {p} : sound'[q] = sound[q] /\ doomed'[q] = doomed[q]

Init ==
    /\ owner \in [Items -> Players \cup {Store}]
    /\ meals = [p \in Players |-> 0]
    /\ sound \in [Players -> Nat]
    /\ doomed = [p \in Players |-> 0]

\* An item for its price; what a customer leaves as change is less than the
\* dearest coin.  No coin is endangered by it.
Buy(p, i) ==
    /\ owner[i] = Store
    /\ owner' = [owner EXCEPT ![i] = p]
    /\ Wealth(p)' + BuyPrice[i] <= Wealth(p)
    /\ Wealth(p) < Wealth(p)' + BuyPrice[i] + Dearest
    /\ doomed'[p] <= doomed[p]
    /\ Others(p)
    /\ UNCHANGED meals

\* At most the prices: the shop has a limit on what it gives out, and it gives
\* nothing to those who ask for coins that there are not.
Sell(p) ==
    /\ \E sold \in SUBSET {i \in Items : owner[i] = p} :
          /\ owner' = [i \in Items |-> IF i \in sold THEN Store ELSE owner[i]]
          /\ sound[p] <= sound'[p]
          /\ sound'[p] <= sound[p] + SumFunctionOnSet(SellPrice, sold)
    /\ doomed'[p] = doomed[p]
    /\ Others(p)
    /\ UNCHANGED meals

\* Meals for exactly their price; take_money may put change at risk.
Order(p) ==
    \E n \in 1 .. Wealth(p) :
        /\ meals' = [meals EXCEPT ![p] = @ + n]
        /\ Wealth(p)' + n * MealPrice = Wealth(p)
        /\ Others(p)
        /\ UNCHANGED owner

Eat(p) ==
    /\ meals[p] > 0
    /\ meals' = [meals EXCEPT ![p] = @ - 1]
    /\ UNCHANGED <<owner, sound, doomed>>

\* The bank gives at most as much as it takes.
Change(p) ==
    /\ Wealth(p)' <= Wealth(p)
    /\ Others(p)
    /\ UNCHANGED <<owner, meals>>

\* So it does when it changes everything, but to those who have coins in heaps
\* that are to be destructed: the new coins may hide these, and then nothing is
\* taken for what was given.
Minimize(p) ==
    /\ Wealth(p)' <= (IF doomed[p] > 0 THEN 2 ELSE 1) * Wealth(p)
    /\ Others(p)
    /\ UNCHANGED <<owner, meals>>

\* What was doomed goes, and nothing else does.
Sweep ==
    /\ doomed' = [p \in Players |-> 0]
    /\ UNCHANGED <<owner, meals, sound>>

Next ==
    \/ \E p \in Players, i \in Items : Buy(p, i)
    \/ \E p \in Players : Sell(p) \/ Order(p) \/ Eat(p) \/ Change(p) \/ Minimize(p)
    \/ Sweep

Spec == Init /\ [][Next]_vars
=============================================================================
