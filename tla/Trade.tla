------------------------------- MODULE Trade --------------------------------
(***************************************************************************)
(* Paying with heaps of coins: lib/language/money.c, obj/lib/trade.c, and  *)
(* the shop, the pub and the bank that use them.                           *)
(*                                                                         *)
(* A purse holds, per kind of coin, a sequence of heaps, the newest first: *)
(* that is the order in which present() looks, so the functions of money.c *)
(* and trade.c see the first heap only.  A heap that is set to 0 coins is  *)
(* dying: it is destructed by a call-out, until when it can still be found *)
(* and written to.                                                         *)
(*                                                                         *)
(* Coins go to nowhere and come from nowhere in all trades (the argument   *)
(* for the other party is always 0).  Which coins and goods a player is    *)
(* too laden for is left open (heavy): one answer per kind and command.    *)
(***************************************************************************)
EXTENDS Integers, Sequences, FiniteSets, FiniteSetsExt, Functions

CONSTANTS
    Players, Items, Store,
    Value,      \* MONEY_VALUES: a sequence, the least kind first
    BuyPrice, SellPrice, MealPrice,
    ShopTerms,  \* [out, reduce, max, buy, change]: the set_money_... of a shop
    BankTerms,  \* the same for a bank
    Fee,        \* bank_fee
    MaxWorth,   \* bound: nobody sells what would make it richer
    MaxMeals,   \* bound: meals that a player has at a time
    MaxDying    \* bound: dying heaps per purse that wait for their call-out

Kinds == 1 .. Len(Value)

\* What customers say of the change they want comes to the dearest kind of coin
\* that they name, which is 0 when they name none that there is.
Words == 0 .. Len(Value)

Terms == [out: [Kinds -> Nat], reduce: [Kinds -> Nat], max: Nat,
          buy: Nat, change: Nat]

\* Every kind is a multiple of the one below it; the shop gives all change.
ASSUME TradeAssumption ==
    /\ Store \notin Players
    /\ Value \in Seq(Nat \ {0}) /\ Value # <<>> /\ Value[1] = 1
    /\ \A k \in Kinds \ {1} : Value[k] > Value[k - 1] /\ Value[k] % Value[k - 1] = 0
    /\ IsFiniteSet(Items)
    /\ BuyPrice \in [Items -> Nat \ {0}]
    /\ SellPrice \in [Items -> Nat]
    /\ MealPrice \in Nat \ {0}
    /\ Fee \in Nat
    /\ ShopTerms \in Terms /\ BankTerms \in Terms
    /\ ShopTerms.buy = 100 /\ ShopTerms.change = 100
    /\ ShopTerms.reduce[1] = 0 /\ ShopTerms.max >= Value[Len(Value)]
    /\ ShopTerms.out[1] >= ShopTerms.max
    /\ BankTerms.buy = 100 + Fee /\ BankTerms.change = 100 + Fee
    /\ MaxWorth \in Nat /\ MaxMeals \in Nat

VARIABLES
    purse,      \* purse[p][k]: the heaps of kind k on p, the newest first
    floor,      \* floor[p][k]: the coins of kind k that p has dropped
    owner,      \* owner[i]: where item i is
    meals       \* meals[p]: meals and drinks that p has

vars == <<purse, floor, owner, meals>>

Heap == [num: Nat, dying: BOOLEAN]

-----------------------------------------------------------------------------
(***************************************************************************)
(* Arithmetic of coins.  An array of coins is a function from kinds to     *)
(* numbers.                                                                *)
(***************************************************************************)

Lesser(a, b) == IF a < b THEN a ELSE b
Lack(a, b) == IF a < b THEN 0 ELSE a - b
Upwards(a, b) == (a + b - 1) \div b

Nothing == [k \in Kinds |-> 0]
Plus(c, d) == [k \in Kinds |-> c[k] + d[k]]
Only(c, ks) == [k \in Kinds |-> IF k \in ks THEN c[k] ELSE 0]

\* money_merge, merge_values: the value of coins.
Merge(c) == SumFunctionOnSet([k \in Kinds |-> c[k] * Value[k]], Kinds)

\* split_values: the fewest coins of value v.
Split(v) ==
    [k \in Kinds |-> (IF k = Len(Value) THEN v ELSE v % Value[k + 1]) \div Value[k]]

\* calc_change: coins for the sum, the dearest first, with the limits of the
\* shop on each kind and on the whole; top is the dearest kind asked for
\* (calc_change_str leaves those below it, so nothing is given if top is 0).
CalcChange(sum, terms, top) ==
    LET out == Only(terms.out, 1 .. top)
        give[k \in 1 .. Len(Value) + 1] ==
            IF k > Len(Value) THEN [coins |-> Nothing, due |-> sum, old |-> 0]
            ELSE LET up == give[k + 1]
                     most == Lesser(Lack(up.due \div Value[k], terms.reduce[k]), out[k])
                     n == Lesser(most, (terms.max - up.old) \div Value[k])
                 IN  [coins |-> [up.coins EXCEPT ![k] = n],
                      due |-> up.due - n * Value[k], old |-> up.old + n * Value[k]]
    IN  give[1].coins

\* What is still to be paid of a price when all coins c have been.
Unpaid(price, c) == Lack(price, Merge(c))
UpToKind(c, k) == Only(c, 1 .. k)
FromKind(c, k) == Only(c, k .. Len(Value))

\* The first pass of calc_coins: coins of c for the price, the least kinds first.
TakeCheap(price, c) ==
    [k \in Kinds |-> Lesser(c[k], Upwards(Unpaid(price, UpToKind(c, k - 1)), Value[k]))]

\* calc_coins: of those, the coins are left out again that the dearer ones make
\* unnecessary.
CalcCoins(price, c) ==
    LET take == TakeCheap(price, c)
    IN  [k \in Kinds |-> Lesser(take[k], Upwards(Unpaid(price, FromKind(take, k + 1)), Value[k]))]

-----------------------------------------------------------------------------
(***************************************************************************)
(* One kind of coin in one purse: the sequence s of its heaps.             *)
(***************************************************************************)

\* num_heap of the heap that present() finds.
Num(s) == IF s = <<>> THEN 0 ELSE Head(s).num

\* Mutant of SetHeapSize: an empty heap is not destructed.
SetHeapSizeOnly(s, n) == <<[Head(s) EXCEPT !.num = n]>> \o Tail(s)

\* set_heap_size on that heap: 0 dooms it, and nothing takes the doom back.
SetHeapSize(s, n) == <<[num |-> n, dying |-> Head(s).dying \/ n = 0]>> \o Tail(s)

\* Mutant of Arrive: the heaps do not merge.
ArriveApart(s, n) == IF n = 0 THEN s ELSE <<[num |-> n, dying |-> FALSE]>> \o s

\* A new heap of n coins moves in: enter_env merges it with one that will last.
Arrive(s, n) ==
    IF n = 0 THEN s
    ELSE IF \E i \in DOMAIN s : ~s[i].dying
    THEN [i \in DOMAIN s |-> IF s[i].dying THEN s[i] ELSE [s[i] EXCEPT !.num = @ + n]]
    ELSE <<[num |-> n, dying |-> FALSE]>> \o s

\* money_move of n coins to nowhere.
Leave(s, n) ==
    IF n = 0 THEN s
    ELSE IF n < Num(s) THEN SetHeapSize(s, Num(s) - n)
    ELSE Tail(s)

\* what_coins
WhatCoins(h) == [k \in Kinds |-> Num(h[k])]

\* Coins c come out of nowhere; the kinds in heavy fall to the ground.
Receive(h, c, heavy) == [k \in Kinds |-> IF k \in heavy THEN h[k] ELSE Arrive(h[k], c[k])]
Spill(fl, c, heavy) == Plus(fl, Only(c, heavy))
Some(c) == {k \in Kinds : c[k] > 0}
Surrender(h, c) == [k \in Kinds |-> Leave(h[k], c[k])]

\* The coins on hand after take_money(amount): the least kinds are taken first,
\* and what remains of a kind that is no whole coin passes to the kind below.
Remainder(c, amount) ==
    LET left == [k \in Kinds |-> Lack(c[k] * Value[k], Unpaid(amount, UpToKind(c, k - 1)))]
        sum(k) == SumFunctionOnSet(left, k .. Len(Value))
        rest(k) == IF k > Len(Value) THEN 0 ELSE sum(k) % Value[k]
    IN  [k \in Kinds |-> (left[k] + rest(k + 1)) \div Value[k]]

\* Mutant of Keep: coins of a kind that was not there before are not made.
KeepOld(h, c, heavy) == [k \in Kinds |-> IF h[k] # <<>> THEN SetHeapSize(h[k], c[k]) ELSE <<>>]

\* The end of take_money: the first heaps, dying or not, get their new sizes c;
\* what there is no heap for is made.
Keep(h, c, heavy) ==
    [k \in Kinds |-> IF h[k] # <<>> THEN SetHeapSize(h[k], c[k])
                     ELSE IF k \in heavy THEN <<>> ELSE Arrive(<<>>, c[k])]
Made(h, c) == {k \in Some(c) : h[k] = <<>>}

\* The coins of the kinds ks that p wants to pay with (want_to_pay, we_accept:
\* all kinds are accepted), and whether they will do (can_pay_arr).
Offered(h, ks) == Only(WhatCoins(h), ks)
CanPay(price, h, ks) == price <= Merge(Offered(h, ks))

\* pay: what leaves the purse, and the change that comes back.
PayCoins(price, h, ks) == CalcCoins(price, Offered(h, ks))
PayChange(price, h, ks, terms, top) ==
    CalcChange(((Merge(PayCoins(price, h, ks)) - price) * 100) \div terms.change, terms, top)

-----------------------------------------------------------------------------
(***************************************************************************)
(* The commands.                                                           *)
(***************************************************************************)

Dying(p) ==
    LET dying(k) == {i \in DOMAIN purse[p][k] : purse[p][k][i].dying}
    IN  SumFunctionOnSet([k \in Kinds |-> Cardinality(dying(k))], Kinds)

\* Bound: a purse holds few heaps that wait for their call-out.
Ready(p) == Dying(p) < MaxDying

\* The coins in those heaps of s that are dying, or in those that are not.
Coins(s, dying) ==
    SumFunctionOnSet([i \in DOMAIN s |-> IF s[i].dying = dying THEN s[i].num ELSE 0], DOMAIN s)

Sound(p) == Merge([k \in Kinds |-> Coins(purse[p][k], FALSE) + floor[p][k]])
Doomed(p) == Merge([k \in Kinds |-> Coins(purse[p][k], TRUE)])

\* What is left of s when those that are dying are destructed.
Lasting(s) ==
    LET kept[i \in 0 .. Len(s)] ==
            IF i = 0 THEN <<>>
            ELSE IF s[i].dying THEN kept[i - 1] ELSE Append(kept[i - 1], s[i])
    IN  kept[Len(s)]

\* buy_it: test whether p can pay, move the item, pay.
Buy(p, i, ks, top) ==
    LET price == (BuyPrice[i] * ShopTerms.buy) \div 100
        paid == Surrender(purse[p], PayCoins(price, purse[p], ks))
        change == PayChange(price, purse[p], ks, ShopTerms, top)
    IN  /\ Ready(p)
        /\ owner[i] = Store
        /\ CanPay(price, purse[p], ks)
        /\ owner' = [owner EXCEPT ![i] = p]
        /\ \E heavy \in SUBSET Some(change) :
              /\ purse' = [purse EXCEPT ![p] = Receive(paid, change, heavy)]
              /\ floor' = [floor EXCEPT ![p] = Spill(@, change, heavy)]
        /\ UNCHANGED meals

\* The coins for all items sold, each item's worked out by itself.
Takings(sold, top) ==
    [k \in Kinds |-> SumFunctionOnSet([i \in sold |-> CalcChange(SellPrice[i], ShopTerms, top)[k]], sold)]

\* sell_it: the items that have a price and are not stuck go, then all money comes.
Sell(p, sold, top) ==
    LET coins == Takings(sold, top)
    IN  /\ sold # {} /\ \A i \in sold : owner[i] = p /\ SellPrice[i] > 0
        /\ Sound(p) + Doomed(p) + SumFunctionOnSet(SellPrice, sold) <= MaxWorth
        /\ owner' = [i \in Items |-> IF i \in sold THEN Store ELSE owner[i]]
        /\ \E heavy \in SUBSET Some(coins) :
              /\ purse' = [purse EXCEPT ![p] = Receive(@, coins, heavy)]
              /\ floor' = [floor EXCEPT ![p] = Spill(@, coins, heavy)]
        /\ UNCHANGED meals

\* order: n meals; when take_money has taken the price, they come by force.
Order(p, n) ==
    LET rest == Remainder(WhatCoins(purse[p]), n * MealPrice)
    IN  /\ Ready(p)
        /\ meals[p] + n <= MaxMeals
        /\ n * MealPrice <= Merge(WhatCoins(purse[p]))
        /\ meals' = [meals EXCEPT ![p] = @ + n]
        /\ \E heavy \in SUBSET Made(purse[p], rest) :
              /\ purse' = [purse EXCEPT ![p] = Keep(@, rest, heavy)]
              /\ floor' = [floor EXCEPT ![p] = Spill(@, rest, heavy)]
        /\ UNCHANGED owner

Eat(p) ==
    /\ meals[p] > 0
    /\ meals' = [meals EXCEPT ![p] = @ - 1]
    /\ UNCHANGED <<purse, floor, owner>>

\* Mutant of ChangePrice: the bank forgets its fee.
ChangePriceFree(sum) == (sum * 90) \div 100

\* The price that pay makes of the sum that give is going to hand out.
ChangePrice(sum) == (sum * BankTerms.buy) \div 100

\* change: what n coins (0: all) of the first of the kinds ks are, if all are shown,
\* and how many coins of kind k they would give.
Held(all, ks, n) == IF n > 0 THEN [all EXCEPT ![Min(ks)] = n] ELSE all
Most(hold, k) == CalcChange((Merge(hold) * 100) \div BankTerms.change, BankTerms, k)[k]

\* The value of m coins (0: as many as possible) of kind k, within the bank's limit.
ChangeSum(all, ks, n, k, m) ==
    LET want == IF m > 0 THEN m ELSE Most(Held(all, ks, n), k)
    IN  Value[k] * IF ChangePrice(want * Value[k]) <= BankTerms.max THEN want
                   ELSE ((BankTerms.max * 100) \div BankTerms.buy) \div Value[k]

\* The sum is paid for, then it is given, whether or not pay failed.
Change(p, ks, n, k, m) ==
    LET all == Offered(purse[p], ks)
        hold == Held(all, ks, n)
        sum == ChangeSum(all, ks, n, k, m)
        price == ChangePrice(sum)
        pays == CanPay(price, purse[p], ks)
        paid == IF pays THEN Surrender(purse[p], PayCoins(price, purse[p], ks)) ELSE purse[p]
        back == IF pays THEN PayChange(price, purse[p], ks, BankTerms, k) ELSE Nothing
        given == CalcChange(sum, BankTerms, k)
    IN  /\ Ready(p)
        /\ n <= all[Min(ks)] /\ hold[Min(ks)] > 0
        /\ m <= Most(hold, k)
        /\ sum > 0
        /\ \E heavy \in SUBSET Some(Plus(back, given)) :
              /\ purse' = [purse EXCEPT ![p] = Receive(Receive(paid, back, heavy), given, heavy)]
              /\ floor' = [floor EXCEPT ![p] = Spill(@, Plus(back, given), heavy)]
        /\ UNCHANGED <<owner, meals>>

\* The value of the coins that have to be made to have v in the fewest coins.
Missing(v, c) == Merge([k \in Kinds |-> Lack(Split(v)[k], c[k])])

\* minimize: everything in the fewest coins, for a fee on what is changed.  The
\* new coins come first, then the old sum is taken.
Minimize(p) ==
    LET c == WhatCoins(purse[p])
        total == Merge(c)
        sum == Lack(total, (Fee * Missing(total, c)) \div 100)
    IN  /\ Ready(p)
        /\ Missing(total, c) > 0 /\ Missing(sum, c) > 0
        /\ \E heavy \in SUBSET Kinds :
              LET more == Receive(purse[p], Split(sum), heavy)
                  rest == Remainder(WhatCoins(more), total)
                  takes == total <= Merge(WhatCoins(more))
                  over == Made(more, rest)
              IN  /\ purse' = [purse EXCEPT ![p] = IF takes THEN Keep(more, rest, heavy) ELSE more]
                  /\ floor' = [floor EXCEPT ![p] =
                         Plus(Spill(@, Split(sum), heavy),
                              IF takes THEN Only(rest, over \cap heavy) ELSE Nothing)]
        /\ UNCHANGED <<owner, meals>>

\* The call-outs of remove_object that are due.
Sweep ==
    /\ \E p \in Players : Dying(p) > 0
    /\ purse' = [p \in Players |-> [k \in Kinds |-> Lasting(purse[p][k])]]
    /\ UNCHANGED <<floor, owner, meals>>

-----------------------------------------------------------------------------
Init ==
    /\ owner \in [Items -> Players \cup {Store}]
    /\ meals = [p \in Players |-> 0]
    /\ floor = [p \in Players |-> Nothing]
    /\ purse \in [Players -> [Kinds -> {<<>>} \cup
                                       {<<[num |-> n, dying |-> FALSE]>> : n \in 1 .. MaxWorth}]]
    /\ \A p \in Players : Sound(p) <= MaxWorth

Next ==
    \E p \in Players :
        \/ \E i \in Items, ks \in (SUBSET Kinds) \ {{}}, top \in Words : Buy(p, i, ks, top)
        \/ \E sold \in SUBSET Items, top \in Words : Sell(p, sold, top)
        \/ \E n \in 1 .. MaxMeals : Order(p, n)
        \/ \E ks \in (SUBSET Kinds) \ {{}}, k \in Kinds, n, m \in 0 .. 1 : Change(p, ks, n, k, m)
        \/ Minimize(p)
        \/ Eat(p)
        \/ Sweep

Spec == Init /\ [][Next]_vars

-----------------------------------------------------------------------------
(***************************************************************************)
(* Properties                                                              *)
(***************************************************************************)

\* Every heap has a number of coins that a heap can have, and only a heap that is
\* to be destructed can be empty: no payment takes more than there is.
TypeOK ==
    /\ purse \in [Players -> [Kinds -> Seq(Heap)]]
    /\ \A p \in Players, k \in Kinds : \A i \in DOMAIN purse[p][k] :
          purse[p][k][i].num = 0 => purse[p][k][i].dying
    /\ floor \in [Players -> [Kinds -> Nat]]
    /\ owner \in [Items -> Players \cup {Store}]
    /\ meals \in [Players -> 0 .. MaxMeals]

\* What a player can go on paying with is the heap that present() finds: there is
\* at most one lasting heap of a kind, and it is ahead of the dying ones.
LastingIsFound ==
    \A p \in Players, k \in Kinds : \A i \in DOMAIN purse[p][k] :
        ~purse[p][k][i].dying => i = 1

PaysOther(p, i) == Sound(p)' + Doomed(p)' + BuyPrice[i] # Sound(p) + Doomed(p)

\* Nobody who asks for change in coins that there are pays anything but the price:
\* calc_coins and calc_change leave nothing over.
ExactPrice ==
    [][\A p \in Players, i \in Items : owner'[i] # owner[i] /\ PaysOther(p, i) =>
          \A ks \in (SUBSET Kinds) \ {{}}, top \in Kinds : ~Buy(p, i, ks, top)]_vars

\* Goods change hands for their price whatever coins there are, change is given back
\* in full but for those who ask for it in no coin that there is, the bank never gives
\* more than it takes, but to somebody who minimizes while coins wait for their end,
\* and no other coins are ever lost.
P == INSTANCE Purse WITH sound <- [p \in Players |-> Sound(p)],
                         doomed <- [p \in Players |-> Doomed(p)],
                         Dearest <- Value[Len(Value)]
FairTrade == P!Spec /\ ExactPrice

\* money.c on take_money: "reduces the money of someone with a given amount, also
\* handles giving back money": nobody is poorer after the call-outs.
ChangeLasts == [][Sweep => \A p \in Players : Sound(p)' = Sound(p) + Doomed(p)]_vars
=============================================================================
