---------------------------- MODULE TradeProofs ----------------------------
(***************************************************************************)
(* Trade keeps what Purse promises, for any values of coins, any prices    *)
(* and any heaps of coins.                                                 *)
(***************************************************************************)
EXTENDS Trade, Sums, SequenceTheorems

-----------------------------------------------------------------------------
(***************************************************************************)
(* Numbers.                                                                *)
(***************************************************************************)
LEMMA Upward ==
  ASSUME NEW n \in Nat, NEW T \in SUBSET (0 .. n), 0 \in T,
         \A k \in 1 .. n : k - 1 \in T => k \in T
  PROVE  T = 0 .. n
<1> DEFINE X == {k \in 0 .. n : k \notin T}
<1> SUFFICES ASSUME X # {} PROVE FALSE
  OBVIOUS
<1>1. X \in SUBSET Nat
  OBVIOUS
<1>2. PICK m \in X : \A k \in X : m <= k
  <2> HIDE DEF X
  <2> QED BY <1>1, SmallestNumber
<1>3. m \in 1 .. n /\ m - 1 \in 0 .. n /\ m - 1 \notin X
  BY <1>2
<1> QED BY <1>2, <1>3

LEMMA Downward ==
  ASSUME NEW n \in Nat, NEW T \in SUBSET (1 .. n + 1), n + 1 \in T,
         \A k \in 1 .. n : k + 1 \in T => k \in T
  PROVE  T = 1 .. n + 1
<1> DEFINE X == {k \in 0 .. n : n + 1 - k \notin T}
<1>1. ASSUME X = {} PROVE T = 1 .. n + 1
  <2>1. ASSUME NEW k \in 1 .. n + 1 PROVE k \in T
    <3>1. PICK j : j = n + 1 - k
      OBVIOUS
    <3>2. j \in 0 .. n /\ n + 1 - j = k
      BY <3>1
    <3> QED BY <1>1, <3>2
  <2> QED BY <2>1
<1>2. ASSUME X # {} PROVE FALSE
  <2>1. X \in SUBSET Nat
    OBVIOUS
  <2>2. PICK m \in X : \A k \in X : m <= k
    <3> HIDE DEF X
    <3> QED BY <1>2, <2>1, SmallestNumber
  <2>3. m \in Nat /\ m # 0
    BY <2>2
  <2>4. m - 1 \in 0 .. n /\ m - 1 \notin X /\ n + 1 - (m - 1) = (n + 1 - m) + 1
    BY <2>2, <2>3
  <2>5. n + 1 - m \in 1 .. n
    BY <2>2, <2>3
  <2> QED BY <2>2, <2>4, <2>5
<1> QED BY <1>1, <1>2

LEMMA DivInt ==
  ASSUME NEW a \in Int, NEW b \in Nat \ {0}
  PROVE  a = b * (a \div b) + (a % b) /\ a \div b \in Int
OBVIOUS

LEMMA DivMod ==
  ASSUME NEW a \in Nat, NEW b \in Nat \ {0}
  PROVE  /\ a \div b \in Nat /\ a % b \in Nat /\ a % b < b
         /\ a = (a \div b) * b + (a % b)
<1>1. a = b * (a \div b) + (a % b) /\ a \div b \in Int
  <2>1. a \in Int
    OBVIOUS
  <2> QED BY <2>1, DivInt, Zenon
<1>2. a % b \in Nat /\ a % b < b
  OBVIOUS
<1>3. a \div b >= 0
  OBVIOUS
<1>4. PICK q : q = a \div b
  OBVIOUS
<1>5. PICK r : r = a % b
  OBVIOUS
<1>6. a = b * q + r /\ q \in Int /\ q >= 0 /\ r \in Nat /\ r < b
  BY <1>1, <1>2, <1>3, <1>4, <1>5
<1>7. a = q * b + r /\ q \in Nat
  BY <1>6
<1> QED BY <1>4, <1>5, <1>6, <1>7, Zenon

\* A quotient and a rest are known by what they are.
LEMMA DivModIs ==
  ASSUME NEW a \in Nat, NEW b \in Nat \ {0}, NEW q \in Int, NEW r \in Nat,
         r < b, a = q * b + r
  PROVE  a \div b = q /\ a % b = r
<1> PICK p : p = a \div b
  OBVIOUS
<1> PICK t : t = a % b
  OBVIOUS
<1>1. p \in Nat /\ t \in Nat /\ t < b /\ a = p * b + t
  BY DivMod
<1>2. p = q
  <2>1. (p - q) * b = r - t
    BY <1>1
  <2>2. CASE p > q
    <3>1. p - q >= 1
      BY <1>1, <2>2
    <3>2. (p - q) * b >= b
      BY <1>1, <3>1
    <3> QED BY <1>1, <2>1, <3>2
  <2>3. CASE p < q
    <3>1. q - p >= 1
      BY <1>1, <2>3
    <3>2. (q - p) * b >= b
      BY <1>1, <3>1
    <3>3. (p - q) * b = -((q - p) * b)
      BY <1>1
    <3> QED BY <1>1, <2>1, <3>2, <3>3
  <2> QED BY <1>1, <2>2, <2>3
<1>3. t = r
  BY <1>1, <1>2
<1> QED BY <1>2, <1>3

LEMMA MulMono ==
  ASSUME NEW a \in Int, NEW b \in Int, NEW c \in Nat, a <= b
  PROVE  a * c <= b * c
OBVIOUS

-----------------------------------------------------------------------------
(***************************************************************************)
(* The value of coins.                                                     *)
(***************************************************************************)
Coinage == [Kinds -> Nat]
Last == Len(Value)

\* What the assumption says of the values of coins.
Minted ==
    /\ Last \in Nat \ {0} /\ Kinds = 1 .. Last /\ IsFiniteSet(Kinds)
    /\ \A k \in Kinds : Value[k] \in Nat \ {0} /\ Value[k] <= Value[Last]
    /\ \A k \in Kinds \ {Last} : Value[k + 1] % Value[k] = 0
    /\ Value[1] = 1

LEMMA ValueFacts == Minted
<1>1. Value \in Seq(Nat \ {0}) /\ Value # <<>>
  BY TradeAssumption
<1>2. Last \in Nat \ {0} /\ Kinds = 1 .. Last /\ IsFiniteSet(Kinds)
  <2>1. Last \in Nat \ {0}
    BY <1>1, EmptySeq DEF Last
  <2>2. IsFiniteSet(1 .. Last)
    BY <2>1, FS_Interval
  <2> QED BY <2>1, <2>2 DEF Kinds, Last
<1>3. \A k \in Kinds : Value[k] \in Nat \ {0}
  BY <1>1, ElementOfSeq DEF Kinds
<1>4. \A k \in Kinds \ {1} : Value[k] > Value[k - 1] /\ Value[k] % Value[k - 1] = 0
  BY TradeAssumption
<1>5. \A k \in Kinds \ {Last} : Value[k + 1] > Value[k] /\ Value[k + 1] % Value[k] = 0
  <2> TAKE k \in Kinds \ {Last}
  <2>1. k + 1 \in Kinds \ {1} /\ (k + 1) - 1 = k
    BY <1>2
  <2> QED BY <1>4, <2>1
<1>6. \A k \in Kinds : Value[k] <= Value[Last]
  <2> DEFINE T == {k \in 1 .. Last + 1 : k = Last + 1 \/ Value[k] <= Value[Last]}
  <2>1. \A k \in 1 .. Last : k + 1 \in T => k \in T
    BY <1>2, <1>3, <1>5
  <2>2. Last + 1 \in T /\ T \in SUBSET (1 .. Last + 1)
    BY <1>2
  <2>3. T = 1 .. Last + 1
    <3> HIDE DEF T
    <3> QED BY <1>2, <2>1, <2>2, Downward
  <2> QED BY <1>2, <2>3
<1> QED BY <1>2, <1>3, <1>5, <1>6, TradeAssumption DEF Minted

Worths(c) == [k \in Kinds |-> c[k] * Value[k]]

LEMMA MergeIsSum ==
  ASSUME NEW c \in Coinage
  PROVE  /\ Merge(c) = Sum(Worths(c), Kinds)
         /\ IsFiniteSet(Kinds)
         /\ Natural(Worths(c), Kinds) /\ Integral(Worths(c), Kinds)
<1>1. Merge(c) = Sum(Worths(c), Kinds)
  BY DEF Merge, Sum, Worths
<1>2. \A k \in Kinds : c[k] \in Nat /\ Value[k] \in Nat
  BY ValueFacts DEF Minted, Coinage
<1>3. \A k \in Kinds : c[k] * Value[k] \in Nat
  BY <1>2
<1>4. Natural(Worths(c), Kinds) /\ Integral(Worths(c), Kinds)
  BY <1>3 DEF Natural, Integral, Worths
<1> QED BY <1>1, <1>4, ValueFacts DEF Minted

LEMMA MergeNat ==
  ASSUME NEW c \in Coinage
  PROVE  Merge(c) \in Nat
BY MergeIsSum, SumNat

LEMMA MergePlus ==
  ASSUME NEW c \in Coinage, NEW d \in Coinage
  PROVE  /\ Plus(c, d) \in Coinage
         /\ Merge(Plus(c, d)) = Merge(c) + Merge(d)
<1>1. Plus(c, d) \in Coinage
  BY DEF Plus, Coinage
<1>2. Termwise(Worths(c), Worths(d), Worths(Plus(c, d)), Kinds)
  <2>1. ASSUME NEW k \in Kinds PROVE (c[k] + d[k]) * Value[k] = c[k] * Value[k] + d[k] * Value[k]
    <3>1. c[k] \in Nat /\ d[k] \in Nat /\ Value[k] \in Nat
      BY ValueFacts DEF Minted, Coinage
    <3> QED BY <3>1
  <2> QED BY <2>1 DEF Termwise, Worths, Plus
<1> QED BY <1>1, <1>2, MergeIsSum, SumPlus

LEMMA MergeAtMost ==
  ASSUME NEW c \in Coinage, NEW d \in Coinage, \A k \in Kinds : c[k] <= d[k]
  PROVE  Merge(c) <= Merge(d)
<1>1. AtMost(Worths(c), Worths(d), Kinds)
  <2>1. ASSUME NEW k \in Kinds PROVE c[k] * Value[k] <= d[k] * Value[k]
    <3>1. c[k] \in Nat /\ d[k] \in Nat /\ Value[k] \in Nat
      BY ValueFacts DEF Minted, Coinage
    <3> QED BY <3>1, MulMono
  <2> QED BY <2>1 DEF AtMost, Worths
<1> QED BY <1>1, MergeIsSum, SumAtMost

LEMMA MergeTerm ==
  ASSUME NEW c \in Coinage, NEW k \in Kinds
  PROVE  c[k] * Value[k] <= Merge(c)
<1>1. Worths(c)[k] <= Merge(c)
  BY MergeIsSum, SumBounds
<1> QED BY <1>1 DEF Worths

LEMMA MergeNothing ==
  Nothing \in Coinage /\ Merge(Nothing) = 0
<1>1. Nothing \in Coinage
  BY DEF Nothing, Coinage
<1>2. Zero(Worths(Nothing), Kinds)
  BY ValueFacts DEF Zero, Worths, Nothing, Minted
<1> QED BY <1>1, <1>2, MergeIsSum, SumZero

\* Coins of one more kind are worth more by what these are worth.
LEMMA MergeOneMore ==
  ASSUME NEW c \in Coinage, NEW ks, NEW k \in Kinds \ ks
  PROVE  /\ Only(c, ks) \in Coinage /\ Only(c, ks \cup {k}) \in Coinage
         /\ Merge(Only(c, ks \cup {k})) = Merge(Only(c, ks)) + c[k] * Value[k]
<1>1. Only(c, ks) \in Coinage /\ Only(c, ks \cup {k}) \in Coinage
  BY DEF Only, Coinage
<1>2. Coincide(Worths(Only(c, ks)), Worths(Only(c, ks \cup {k})), Kinds \ {k})
  BY DEF Coincide, Worths, Only
<1>3. c[k] \in Nat /\ Value[k] \in Nat
  BY ValueFacts DEF Minted, Coinage
<1>4. Worths(Only(c, ks))[k] = 0 /\ Worths(Only(c, ks \cup {k}))[k] = c[k] * Value[k]
  BY <1>3 DEF Worths, Only
<1>5. Merge(Only(c, ks \cup {k})) = Merge(Only(c, ks)) + (c[k] * Value[k] - 0)
  BY <1>1, <1>2, <1>4, MergeIsSum, SumChange
<1>6. c[k] * Value[k] \in Nat
  BY <1>3
<1> QED BY <1>1, <1>5, <1>6

LEMMA MergeUp ==
  ASSUME NEW c \in Coinage
  PROVE  /\ \A k \in Int : UpToKind(c, k) \in Coinage /\ Merge(UpToKind(c, k)) \in Nat
         /\ Merge(UpToKind(c, 0)) = 0
         /\ \A k \in Kinds : Merge(UpToKind(c, k)) = Merge(UpToKind(c, k - 1)) + c[k] * Value[k]
         /\ Merge(UpToKind(c, Last)) = Merge(c)
<1>1. \A k \in Int : UpToKind(c, k) \in Coinage
  BY DEF UpToKind, Only, Coinage
<1>2. \A k \in Int : Merge(UpToKind(c, k)) \in Nat
  BY <1>1, MergeNat
<1>3. UpToKind(c, 0) = Nothing
  BY DEF UpToKind, Only, Nothing
<1>4. ASSUME NEW k \in Kinds
      PROVE  Merge(UpToKind(c, k)) = Merge(UpToKind(c, k - 1)) + c[k] * Value[k]
  <2>1. k \in Nat \ {0} /\ k \in Kinds \ (1 .. k - 1) /\ 1 .. k = (1 .. k - 1) \cup {k}
    BY ValueFacts DEF Minted
  <2> QED BY <2>1, MergeOneMore DEF UpToKind
<1>5. UpToKind(c, Last) = c
  BY ValueFacts DEF UpToKind, Only, Minted, Coinage
<1> QED BY <1>1, <1>2, <1>3, <1>4, <1>5, MergeNothing

LEMMA MergeFrom ==
  ASSUME NEW c \in Coinage
  PROVE  /\ \A k \in Int : FromKind(c, k) \in Coinage /\ Merge(FromKind(c, k)) \in Nat
         /\ Merge(FromKind(c, Last + 1)) = 0
         /\ \A k \in Kinds : Merge(FromKind(c, k)) = Merge(FromKind(c, k + 1)) + c[k] * Value[k]
         /\ Merge(FromKind(c, 1)) = Merge(c)
<1>1. \A k \in Int : FromKind(c, k) \in Coinage
  BY DEF FromKind, Only, Coinage
<1>2. \A k \in Int : Merge(FromKind(c, k)) \in Nat
  BY <1>1, MergeNat
<1>3. FromKind(c, Last + 1) = Nothing
  BY ValueFacts DEF FromKind, Only, Nothing, Minted, Last
<1>4. ASSUME NEW k \in Kinds
      PROVE  Merge(FromKind(c, k)) = Merge(FromKind(c, k + 1)) + c[k] * Value[k]
  <2>1. /\ k \in Nat \ {0} /\ k \in Kinds \ (k + 1 .. Last)
        /\ k .. Last = (k + 1 .. Last) \cup {k}
    BY ValueFacts DEF Minted
  <2> QED BY <2>1, MergeOneMore DEF FromKind, Last
<1>5. FromKind(c, 1) = c
  BY ValueFacts DEF FromKind, Only, Minted, Coinage, Last
<1> QED BY <1>1, <1>2, <1>3, <1>4, <1>5, MergeNothing

-----------------------------------------------------------------------------
(***************************************************************************)
(* Paying.                                                                 *)
(***************************************************************************)
\* The fewest coins of value v that are worth u.
LEMMA UpwardsFacts ==
  ASSUME NEW u \in Nat, NEW v \in Nat \ {0}
  PROVE  /\ Upwards(u, v) \in Nat
         /\ u <= Upwards(u, v) * v
         /\ Upwards(u, v) * v < u + v
         /\ u = 0 => Upwards(u, v) = 0
         /\ \A n \in Nat : n < Upwards(u, v) => n * v < u
<1>1. u + v - 1 \in Nat
  OBVIOUS
<1>2. PICK q : q = Upwards(u, v)
  OBVIOUS
<1>3. PICK r : r = (u + v - 1) % v
  OBVIOUS
<1>4. q \in Nat /\ r \in Nat /\ r < v /\ u + v - 1 = q * v + r
  BY <1>1, <1>2, <1>3, DivMod DEF Upwards
<1>5. PICK x : x = q * v
  OBVIOUS
<1>6. x \in Nat /\ u <= x /\ x < u + v
  BY <1>4, <1>5
<1>7. u = 0 => q = 0
  <2>1. SUFFICES ASSUME u = 0, q >= 1 PROVE FALSE
    BY <1>4
  <2>2. 1 * v <= q * v
    BY <1>4, <2>1, MulMono
  <2> QED BY <1>5, <1>6, <2>1, <2>2
<1>8. ASSUME NEW n \in Nat, n < q PROVE n * v < u
  <2>1. (n + 1) * v <= q * v
    BY <1>4, <1>8, MulMono
  <2>2. (n + 1) * v = n * v + v /\ n * v \in Nat
    OBVIOUS
  <2> QED BY <1>5, <1>6, <2>1, <2>2
<1> QED BY <1>2, <1>4, <1>5, <1>6, <1>7, <1>8

LEMMA LesserFacts ==
  ASSUME NEW a \in Nat, NEW b \in Nat
  PROVE  /\ Lesser(a, b) \in Nat /\ Lesser(a, b) <= a /\ Lesser(a, b) <= b
         /\ Lesser(a, b) = a \/ Lesser(a, b) = b
BY DEF Lesser

LEMMA UnpaidFacts ==
  ASSUME NEW price \in Nat, NEW c \in Coinage
  PROVE  /\ Unpaid(price, c) \in Nat
         /\ Merge(c) <= price => Unpaid(price, c) = price - Merge(c)
         /\ Merge(c) >= price => Unpaid(price, c) = 0
BY MergeNat DEF Unpaid, Lack

\* The first pass takes enough if there is enough.
LEMMA TakeCheapFacts ==
  ASSUME NEW price \in Nat, NEW c \in Coinage
  PROVE  /\ TakeCheap(price, c) \in Coinage
         /\ \A k \in Kinds : TakeCheap(price, c)[k] <= c[k]
         /\ price <= Merge(c) => price <= Merge(TakeCheap(price, c))
<1> DEFINE take == TakeCheap(price, c)
           due(k) == Unpaid(price, UpToKind(c, k - 1))
           U(k) == Upwards(due(k), Value[k])
           C(k) == Merge(UpToKind(c, k))
           T(k) == Merge(UpToKind(take, k))
<1>1. Minted
  BY ValueFacts
<1>2. ASSUME NEW k \in Kinds
      PROVE  /\ due(k) \in Nat /\ c[k] \in Nat /\ Value[k] \in Nat \ {0}
             /\ U(k) \in Nat /\ due(k) <= U(k) * Value[k]
             /\ take[k] = Lesser(c[k], U(k))
             /\ take[k] \in Nat /\ take[k] <= c[k]
             /\ take[k] = c[k] \/ take[k] = U(k)
  <2>1. c[k] \in Nat /\ Value[k] \in Nat \ {0} /\ k - 1 \in Int
    BY <1>1 DEF Minted, Coinage
  <2>2. UpToKind(c, k - 1) \in Coinage
    BY <2>1, MergeUp
  <2>3. due(k) \in Nat
    BY <2>2, UnpaidFacts
  <2>4. take[k] = Lesser(c[k], U(k))
    BY DEF TakeCheap
  <2> HIDE DEF take, due
  <2>5. U(k) \in Nat /\ due(k) <= U(k) * Value[k]
    BY <2>1, <2>3, UpwardsFacts
  <2> HIDE DEF U
  <2> QED BY <2>1, <2>3, <2>4, <2>5, LesserFacts
<1>3. take \in Coinage
  <2>1. take = [k \in Kinds |-> take[k]]
    BY DEF TakeCheap
  <2> HIDE DEF take, due, U
  <2> QED BY <1>2, <2>1 DEF Coinage
<1>4. ASSUME price <= Merge(c)
      PROVE  price <= Merge(take)
  <2> DEFINE X == {k \in 0 .. Last : price <= T(k) \/ C(k) <= T(k)}
  <2> HIDE DEF take
  <2>1. /\ \A k \in Int : C(k) \in Nat /\ T(k) \in Nat
        /\ C(0) = 0 /\ T(0) = 0 /\ C(Last) = Merge(c) /\ T(Last) = Merge(take)
    BY <1>3, MergeUp
  <2>2. ASSUME NEW k \in 1 .. Last, k - 1 \in X PROVE k \in X
    <3>1. k \in Kinds /\ k \in 0 .. Last /\ k - 1 \in Int /\ k \in Int
      BY <1>1 DEF Minted
    <3>2. C(k) = C(k - 1) + c[k] * Value[k] /\ T(k) = T(k - 1) + take[k] * Value[k]
      BY <1>3, <3>1, MergeUp
    <3>3. C(k) \in Nat /\ T(k) \in Nat /\ C(k - 1) \in Nat /\ T(k - 1) \in Nat
      BY <2>1, <3>1
    <3>4. due(k) = IF C(k - 1) < price THEN price - C(k - 1) ELSE 0
      <4>1. UpToKind(c, k - 1) \in Coinage
        BY <3>1, MergeUp
      <4> QED BY <3>3, <4>1, UnpaidFacts
    <3>5. take[k] \in Nat /\ Value[k] \in Nat /\ (price <= T(k - 1) \/ C(k - 1) <= T(k - 1))
      BY <1>2, <2>2, <3>1
    <3>6. take[k] * Value[k] \in Nat
      BY <3>5
    <3>7. take[k] = c[k] \/ take[k] = U(k)
      BY <1>2, <3>1
    <3>8. due(k) <= U(k) * Value[k]
      BY <1>2, <3>1
    <3>9. price <= T(k) \/ C(k) <= T(k)
      <4> HIDE DEF X, C, T, U, due
      <4>1. CASE price <= T(k - 1)
        BY <3>2, <3>3, <3>6, <4>1
      <4>2. CASE take[k] = c[k] /\ C(k - 1) <= T(k - 1)
        BY <3>2, <3>3, <3>6, <4>2
      <4>3. CASE take[k] = U(k) /\ C(k - 1) <= T(k - 1)
        BY <3>2, <3>3, <3>4, <3>6, <3>8, <4>3
      <4> QED BY <3>5, <3>7, <4>1, <4>2, <4>3
    <3> QED BY <3>1, <3>9
  <2>3. 0 \in X /\ X \in SUBSET (0 .. Last) /\ Last \in Nat
    BY <1>1, <2>1 DEF Minted
  <2>4. X = 0 .. Last
    <3> HIDE DEF X
    <3> QED BY <2>2, <2>3, Upward
  <2>5. Last \in X
    BY <2>3, <2>4
  <2> HIDE DEF C, T
  <2> QED BY <1>4, <2>1, <2>3, <2>5
<1> QED BY <1>2, <1>3, <1>4

\* The second pass leaves less than the dearest coin too many.
LEMMA CalcCoinsFacts ==
  ASSUME NEW price \in Nat, NEW c \in Coinage
  PROVE  /\ CalcCoins(price, c) \in Coinage
         /\ \A k \in Kinds : CalcCoins(price, c)[k] <= c[k]
         /\ price <= Merge(c) => /\ price <= Merge(CalcCoins(price, c))
                                 /\ Merge(CalcCoins(price, c)) < price + Value[Last]
<1>1. PICK take : take = TakeCheap(price, c)
  OBVIOUS
<1>2. /\ take \in Coinage /\ \A k \in Kinds : take[k] <= c[k]
      /\ price <= Merge(c) => price <= Merge(take)
  BY <1>1, TakeCheapFacts
<1> DEFINE pay == CalcCoins(price, c)
           due(k) == Unpaid(price, FromKind(take, k + 1))
           U(k) == Upwards(due(k), Value[k])
           T(k) == Merge(FromKind(take, k))
           Paid(k) == Merge(FromKind(pay, k))
<1>3. Minted
  BY ValueFacts
<1>4. pay = [k \in Kinds |-> Lesser(take[k], U(k))]
  BY <1>1 DEF CalcCoins
<1> HIDE DEF pay
<1>5. ASSUME NEW k \in Kinds
      PROVE  /\ due(k) \in Nat /\ take[k] \in Nat /\ Value[k] \in Nat \ {0}
             /\ U(k) \in Nat /\ due(k) <= U(k) * Value[k]
             /\ U(k) * Value[k] < due(k) + Value[k]
             /\ due(k) = 0 => U(k) = 0
             /\ \A n \in Nat : n < U(k) => n * Value[k] < due(k)
             /\ pay[k] = Lesser(take[k], U(k))
             /\ pay[k] \in Nat /\ pay[k] <= take[k] /\ pay[k] <= U(k)
             /\ pay[k] = take[k] \/ pay[k] = U(k)
  <2>1. take[k] \in Nat /\ Value[k] \in Nat \ {0} /\ k + 1 \in Int
    BY <1>2, <1>3 DEF Minted, Coinage
  <2>2. FromKind(take, k + 1) \in Coinage
    BY <1>2, <2>1, MergeFrom
  <2>3. due(k) \in Nat
    BY <2>2, UnpaidFacts
  <2>4. pay[k] = Lesser(take[k], U(k))
    BY <1>4
  <2> HIDE DEF due
  <2>5. /\ U(k) \in Nat /\ due(k) <= U(k) * Value[k]
        /\ U(k) * Value[k] < due(k) + Value[k]
        /\ due(k) = 0 => U(k) = 0
        /\ \A n \in Nat : n < U(k) => n * Value[k] < due(k)
    BY <2>1, <2>3, UpwardsFacts
  <2> HIDE DEF U
  <2> QED BY <2>1, <2>3, <2>4, <2>5, LesserFacts
<1>6. pay \in Coinage /\ \A k \in Kinds : pay[k] <= c[k]
  <2>1. pay = [k \in Kinds |-> pay[k]]
    BY <1>4
  <2>2. \A k \in Kinds : pay[k] \in Nat /\ pay[k] <= take[k] /\ take[k] <= c[k]
                         /\ take[k] \in Nat /\ c[k] \in Nat
    BY <1>2, <1>5 DEF Coinage
  <2> QED BY <2>1, <2>2 DEF Coinage
<1>7. ASSUME price <= Merge(c)
      PROVE  price <= Merge(pay) /\ Merge(pay) < price + Value[Last]
  <2> DEFINE Short(k) == T(k) < price /\ Paid(k) = T(k)
             Done(k) == price <= Paid(k) /\ Paid(k) < price + Value[Last] /\ price <= T(k)
             X == {k \in 1 .. Last + 1 : Short(k) \/ Done(k)}
  <2>1. /\ \A k \in Int : T(k) \in Nat /\ Paid(k) \in Nat
        /\ T(Last + 1) = 0 /\ Paid(Last + 1) = 0 /\ T(1) = Merge(take) /\ Paid(1) = Merge(pay)
    BY <1>2, <1>6, MergeFrom
  <2>2. ASSUME NEW k \in 1 .. Last, k + 1 \in X PROVE k \in X
    <3>1. k \in Kinds /\ k \in 1 .. Last + 1 /\ k + 1 \in Int /\ k \in Int
      BY <1>3 DEF Minted
    <3>2. T(k) = T(k + 1) + take[k] * Value[k] /\ Paid(k) = Paid(k + 1) + pay[k] * Value[k]
      BY <1>2, <1>6, <3>1, MergeFrom
    <3>3. T(k) \in Nat /\ Paid(k) \in Nat /\ T(k + 1) \in Nat /\ Paid(k + 1) \in Nat
      BY <2>1, <3>1
    <3>4. due(k) = IF T(k + 1) < price THEN price - T(k + 1) ELSE 0
      <4>1. FromKind(take, k + 1) \in Coinage
        BY <1>2, <3>1, MergeFrom
      <4> QED BY <3>3, <4>1, UnpaidFacts
    <3>5. Short(k + 1) \/ Done(k + 1)
      BY <2>2
    <3>6. /\ take[k] \in Nat /\ pay[k] \in Nat /\ Value[k] \in Nat /\ U(k) \in Nat
          /\ Value[Last] \in Nat /\ Value[k] <= Value[Last]
      BY <1>3, <1>5, <3>1 DEF Minted
    <3>7. take[k] * Value[k] \in Nat /\ pay[k] * Value[k] \in Nat /\ U(k) * Value[k] \in Nat
      BY <3>6
    <3>8. /\ due(k) <= U(k) * Value[k] /\ U(k) * Value[k] < due(k) + Value[k]
          /\ due(k) = 0 => U(k) = 0
          /\ \A n \in Nat : n < U(k) => n * Value[k] < due(k)
          /\ pay[k] <= take[k] /\ pay[k] <= U(k)
          /\ pay[k] = take[k] \/ pay[k] = U(k)
      BY <1>5, <3>1
    <3>9. Short(k) \/ Done(k)
      <4> HIDE DEF X, T, Paid, U, due
      <4>1. CASE Done(k + 1)
        <5>1. due(k) = 0
          BY <3>3, <3>4, <4>1
        <5>2. pay[k] = 0 /\ pay[k] * Value[k] = 0
          BY <3>6, <3>8, <5>1
        <5> QED BY <3>2, <3>3, <3>7, <4>1, <5>2
      <4>2. CASE Short(k + 1) /\ take[k] < U(k)
        <5>1. pay[k] = take[k] /\ take[k] * Value[k] < due(k)
          BY <3>6, <3>8, <4>2
        <5> QED BY <3>2, <3>3, <3>4, <3>7, <4>2, <5>1
      <4>3. CASE Short(k + 1) /\ take[k] >= U(k)
        <5>1. pay[k] = U(k) /\ U(k) * Value[k] <= take[k] * Value[k]
          BY <3>6, <3>8, <4>3, MulMono
        <5> QED BY <3>2, <3>3, <3>4, <3>6, <3>7, <3>8, <4>3, <5>1
      <4> QED BY <3>5, <3>6, <4>1, <4>2, <4>3
    <3> QED BY <3>1, <3>9
  <2>3. Last + 1 \in X /\ X \in SUBSET (1 .. Last + 1) /\ Last \in Nat /\ 1 \in 1 .. Last + 1
    <3>1. Last \in Kinds /\ Value[Last] \in Nat \ {0} /\ Last \in Nat \ {0}
      BY <1>3 DEF Minted
    <3>2. Last + 1 \in 1 .. Last + 1 /\ 1 \in 1 .. Last + 1
      BY <3>1
    <3> HIDE DEF T, Paid
    <3> QED BY <2>1, <3>1, <3>2
  <2>4. X = 1 .. Last + 1
    <3> HIDE DEF X
    <3> QED BY <2>2, <2>3, Downward
  <2>5. 1 \in X
    BY <2>3, <2>4
  <2> HIDE DEF Paid, T
  <2>6. price <= T(1)
    BY <1>2, <1>7, <2>1
  <2> QED BY <2>1, <2>5, <2>6
<1> QED BY <1>6, <1>7 DEF pay

-----------------------------------------------------------------------------
(***************************************************************************)
(* Giving change.                                                          *)
(***************************************************************************)
Fitting(up, k, terms, top) ==
  LET most == Lesser(Lack(up.due \div Value[k], terms.reduce[k]), Only(terms.out, 1 .. top)[k])
  IN  Lesser(most, (terms.max - up.old) \div Value[k])

Given(up, k, terms, top) ==
  LET n == Fitting(up, k, terms, top)
  IN  [coins |-> [up.coins EXCEPT ![k] = n],
       due |-> up.due - n * Value[k], old |-> up.old + n * Value[k]]

Asked(x) == [coins |-> Nothing, due |-> x, old |-> 0]

\* g is what is given from the dearest kind down to j.
Giving(g, x, terms, top, j) ==
  g = [k \in j .. Last + 1 |-> IF k > Last THEN Asked(x) ELSE Given(g[k + 1], k, terms, top)]

LEMMA GivingExists ==
  ASSUME NEW x, NEW terms, NEW top
  PROVE  \E g : Giving(g, x, terms, top, 1)
<1> DEFINE X == {j \in 1 .. Last + 1 : \E g : Giving(g, x, terms, top, j)}
<1>1. Last \in Nat
  BY ValueFacts DEF Minted
<1>2. Last + 1 \in X
  <2>1. \A k \in Last + 1 .. Last + 1 : k > Last
    BY <1>1
  <2>2. Giving([k \in Last + 1 .. Last + 1 |-> Asked(x)], x, terms, top, Last + 1)
    BY <2>1 DEF Giving
  <2> QED BY <1>1, <2>2
<1>3. ASSUME NEW j \in 1 .. Last, j + 1 \in X PROVE j \in X
  <2>1. PICK g : Giving(g, x, terms, top, j + 1)
    BY <1>3
  <2> DEFINE h == [k \in j .. Last + 1 |->
                     IF k > Last THEN Asked(x) ELSE Given(g[k + 1], k, terms, top)]
  <2>2. \A k \in j + 1 .. Last + 1 : k \in j .. Last + 1
    BY <1>1
  <2>3. \A k \in j + 1 .. Last + 1 : g[k] = h[k]
    BY <2>1, <2>2 DEF Giving
  <2>4. \A k \in j .. Last + 1 : k > Last \/ k + 1 \in j + 1 .. Last + 1
    BY <1>1
  <2>5. h = [k \in j .. Last + 1 |->
               IF k > Last THEN Asked(x) ELSE Given(h[k + 1], k, terms, top)]
    BY <2>3, <2>4
  <2> HIDE DEF h
  <2>6. Giving(h, x, terms, top, j)
    BY <2>5 DEF Giving
  <2>7. j \in 1 .. Last + 1
    BY <1>1
  <2> QED BY <2>6, <2>7
<1>4. X \in SUBSET (1 .. Last + 1) /\ 1 \in 1 .. Last + 1
  BY <1>1
<1>5. X = 1 .. Last + 1
  <2> HIDE DEF X
  <2> QED BY <1>1, <1>2, <1>3, <1>4, Downward
<1>6. 1 \in X
  BY <1>4, <1>5
<1> QED BY <1>6

LEMMA CalcChangeGives ==
  ASSUME NEW x, NEW terms, NEW top
  PROVE  \E g : Giving(g, x, terms, top, 1) /\ CalcChange(x, terms, top) = g[1].coins
<1> DEFINE g == CHOOSE h : Giving(h, x, terms, top, 1)
<1>1. CalcChange(x, terms, top) = g[1].coins
  BY DEF CalcChange, Giving, Given, Fitting, Asked, Last
<1>2. Giving(g, x, terms, top, 1)
  BY GivingExists
<1> HIDE DEF g
<1> QED BY <1>1, <1>2

LEMMA MergeExcept ==
  ASSUME NEW c \in Coinage, NEW k \in Kinds, NEW n \in Nat
  PROVE  /\ [c EXCEPT ![k] = n] \in Coinage
         /\ Merge([c EXCEPT ![k] = n]) = Merge(c) + (n * Value[k] - c[k] * Value[k])
<1> DEFINE d == [c EXCEPT ![k] = n]
<1>1. d \in Coinage
  BY DEF Coinage
<1>2. Coincide(Worths(c), Worths(d), Kinds \ {k})
  BY DEF Coincide, Worths, Coinage
<1>3. Worths(c)[k] = c[k] * Value[k] /\ Worths(d)[k] = n * Value[k]
  BY DEF Worths, Coinage
<1> HIDE DEF d
<1>4. Merge(d) = Merge(c) + (n * Value[k] - c[k] * Value[k])
  BY <1>1, <1>2, <1>3, MergeIsSum, SumChange
<1> QED BY <1>1, <1>4 DEF d

\* What has been given down to kind k, of x at most.
Fair(s, x, terms, k) ==
  /\ s.coins \in Coinage /\ \A j \in Kinds : j < k => s.coins[j] = 0
  /\ s.old \in Nat /\ s.old <= terms.max /\ s.due \in Int /\ s.due + s.old = x
  /\ Merge(s.coins) = s.old
  /\ x >= 0 => s.due >= 0

LEMMA FittingFacts ==
  ASSUME NEW k \in Kinds, NEW terms \in Terms, NEW top, NEW x \in Int,
         NEW up, Fair(up, x, terms, k + 1)
  PROVE  /\ Fitting(up, k, terms, top) \in Nat
         /\ up.old + Fitting(up, k, terms, top) * Value[k] <= terms.max
         /\ x >= 0 => Fitting(up, k, terms, top) * Value[k] <= up.due
<1>1. PICK v : v = Value[k]
  OBVIOUS
<1>2. PICK r : r = terms.reduce[k]
  OBVIOUS
<1>3. PICK o : o = Only(terms.out, 1 .. top)[k]
  OBVIOUS
<1>4. PICK m : m = terms.max
  OBVIOUS
<1>5. v \in Nat \ {0} /\ r \in Nat /\ o \in Nat /\ m \in Nat
  BY <1>1, <1>2, <1>3, <1>4, ValueFacts DEF Minted, Terms, Only
<1>6. PICK due : due = up.due
  OBVIOUS
<1>7. PICK old : old = up.old
  OBVIOUS
<1>8. due \in Int /\ old \in Nat /\ old <= m /\ (x >= 0 => due >= 0)
  BY <1>4, <1>6, <1>7 DEF Fair
<1>9. PICK a : a = due \div v
  OBVIOUS
<1>10. PICK b : b = (m - old) \div v
  OBVIOUS
<1>11. a \in Int /\ b \in Nat /\ b * v <= m - old /\ (due >= 0 => a \in Nat /\ a * v <= due)
  <2>1. m - old \in Nat
    BY <1>5, <1>8
  <2>2. b \in Nat /\ m - old = b * v + ((m - old) % v) /\ (m - old) % v \in Nat
    BY <1>5, <1>10, <2>1, DivMod
  <2>3. a \in Int
    BY <1>5, <1>8, <1>9, DivInt
  <2>4. ASSUME due >= 0 PROVE a \in Nat /\ a * v <= due
    <3>1. due \in Nat
      BY <1>8, <2>4
    <3>2. a \in Nat /\ due = a * v + (due % v) /\ due % v \in Nat
      BY <1>5, <1>9, <3>1, DivMod
    <3>3. PICK q : q = due % v
      OBVIOUS
    <3>4. a * v \in Nat
      BY <1>5, <3>2
    <3> QED BY <3>2, <3>3, <3>4
  <2>5. PICK q : q = (m - old) % v
    OBVIOUS
  <2>6. b * v \in Nat
    BY <1>5, <2>2
  <2> QED BY <2>1, <2>2, <2>3, <2>4, <2>5, <2>6
<1>12. PICK n : n = Fitting(up, k, terms, top)
  OBVIOUS
<1>13. n = Lesser(Lesser(Lack(a, r), o), b)
  BY <1>1, <1>2, <1>3, <1>4, <1>6, <1>7, <1>9, <1>10, <1>12 DEF Fitting
<1>14. n \in Nat /\ n <= b /\ (n = 0 \/ n <= a)
  BY <1>5, <1>11, <1>13 DEF Lesser, Lack
<1>15. n * v <= b * v /\ n * v \in Nat /\ b * v \in Nat
  BY <1>5, <1>11, <1>14, MulMono
<1>16. old + n * v <= m
  BY <1>5, <1>8, <1>11, <1>15
<1>17. ASSUME x >= 0 PROVE n * v <= due
  <2>1. a \in Nat /\ a * v <= due /\ due >= 0
    BY <1>8, <1>11, <1>17
  <2>2. CASE n = 0
    BY <1>5, <2>1, <2>2
  <2>3. CASE n <= a
    <3>1. n * v <= a * v /\ a * v \in Nat
      BY <1>5, <1>14, <2>1, <2>3, MulMono
    <3> QED BY <1>8, <1>15, <2>1, <3>1
  <2> QED BY <1>14, <2>2, <2>3
<1> QED BY <1>1, <1>4, <1>6, <1>7, <1>12, <1>14, <1>16, <1>17

LEMMA GivenFacts ==
  ASSUME NEW k \in Kinds, NEW terms \in Terms, NEW top, NEW x \in Int,
         NEW up, Fair(up, x, terms, k + 1)
  PROVE  Fair(Given(up, k, terms, top), x, terms, k)
<1>1. PICK n : n = Fitting(up, k, terms, top)
  OBVIOUS
<1>2. PICK s : s = Given(up, k, terms, top)
  OBVIOUS
<1>3. /\ s.coins = [up.coins EXCEPT ![k] = n]
      /\ s.due = up.due - n * Value[k] /\ s.old = up.old + n * Value[k]
  BY <1>1, <1>2 DEF Given
<1>4. n \in Nat /\ up.old + n * Value[k] <= terms.max /\ (x >= 0 => n * Value[k] <= up.due)
  BY <1>1, FittingFacts
<1>5. /\ up.coins \in Coinage /\ \A j \in Kinds : j < k + 1 => up.coins[j] = 0
      /\ up.old \in Nat /\ up.due \in Int /\ up.due + up.old = x
      /\ Merge(up.coins) = up.old /\ (x >= 0 => up.due >= 0)
  BY DEF Fair
<1>6. k \in Nat /\ Value[k] \in Nat /\ Kinds \subseteq Nat
  BY ValueFacts DEF Minted
<1>7. up.coins[k] = 0
  BY <1>5, <1>6
<1>8. s.coins \in Coinage /\ Merge(s.coins) = Merge(up.coins) + (n * Value[k] - 0 * Value[k])
  BY <1>3, <1>4, <1>5, <1>7, MergeExcept
<1>9. \A j \in Kinds : j < k => s.coins[j] = 0
  BY <1>3, <1>5, <1>6 DEF Coinage
<1>10. PICK w : w = n * Value[k]
  OBVIOUS
<1>11. w \in Nat /\ 0 * Value[k] = 0
  BY <1>4, <1>6, <1>10
<1>12. Merge(s.coins) = s.old
  BY <1>3, <1>5, <1>8, <1>10, <1>11
<1>13. s.old \in Nat /\ s.old <= terms.max /\ s.due \in Int /\ s.due + s.old = x
       /\ (x >= 0 => s.due >= 0)
  BY <1>3, <1>4, <1>5, <1>10, <1>11
<1> QED BY <1>2, <1>8, <1>9, <1>12, <1>13 DEF Fair

LEMMA GivingFair ==
  ASSUME NEW terms \in Terms, NEW top, NEW x \in Int,
         NEW g, Giving(g, x, terms, top, 1)
  PROVE  \A k \in 1 .. Last + 1 : Fair(g[k], x, terms, k)
<1> DEFINE X == {k \in 1 .. Last + 1 : Fair(g[k], x, terms, k)}
<1>1. Last \in Nat /\ Kinds = 1 .. Last
  BY ValueFacts DEF Minted
<1>2. Last + 1 \in X
  <2>1. Last + 1 \in 1 .. Last + 1 /\ Last + 1 > Last
    BY <1>1
  <2>2. g[Last + 1] = Asked(x)
    BY <2>1 DEF Giving
  <2>3. Fair(Asked(x), x, terms, Last + 1)
    <3>1. Nothing \in Coinage /\ Merge(Nothing) = 0 /\ \A j \in Kinds : Nothing[j] = 0
      BY MergeNothing DEF Nothing
    <3>2. terms.max \in Nat
      BY DEF Terms
    <3> QED BY <3>1, <3>2 DEF Fair, Asked
  <2> QED BY <2>1, <2>2, <2>3
<1>3. ASSUME NEW k \in 1 .. Last, k + 1 \in X PROVE k \in X
  <2>1. k \in Kinds /\ k \in 1 .. Last + 1 /\ ~(k > Last)
    BY <1>1
  <2>2. g[k] = Given(g[k + 1], k, terms, top)
    BY <2>1 DEF Giving
  <2>3. Fair(g[k + 1], x, terms, k + 1)
    BY <1>3
  <2> QED BY <2>1, <2>2, <2>3, GivenFacts
<1>4. X \in SUBSET (1 .. Last + 1)
  OBVIOUS
<1>5. X = 1 .. Last + 1
  <2> HIDE DEF X
  <2> QED BY <1>1, <1>2, <1>3, <1>4, Downward
<1> QED BY <1>5

\* Who gives enough of the cheapest coins can give any sum that is allowed.
LEMMA LastGiven ==
  ASSUME NEW terms \in Terms, NEW top \in Kinds, NEW x \in Nat,
         terms.reduce[1] = 0, terms.out[1] >= terms.max, x <= terms.max,
         NEW up, Fair(up, x, terms, 2)
  PROVE  Given(up, 1, terms, top).old = x
<1>1. /\ up.old \in Nat /\ up.old <= terms.max /\ up.due \in Int
      /\ up.due + up.old = x /\ up.due >= 0
  BY DEF Fair
<1>2. Value[1] = 1 /\ 1 \in Kinds /\ 1 \in 1 .. top /\ terms.max \in Nat
  BY ValueFacts DEF Minted, Terms
<1>3. Only(terms.out, 1 .. top)[1] = terms.out[1] /\ terms.out[1] \in Nat
  BY <1>2 DEF Only, Terms
<1>4. Lack(up.due \div Value[1], terms.reduce[1]) = up.due
  <2>1. up.due \div 1 = up.due
    BY <1>1
  <2> QED BY <1>1, <1>2, <2>1 DEF Lack
<1>5. (terms.max - up.old) \div Value[1] = terms.max - up.old
  BY <1>1, <1>2
<1>6. Fitting(up, 1, terms, top) = up.due
  <2>1. Fitting(up, 1, terms, top)
          = Lesser(Lesser(up.due, terms.out[1]), terms.max - up.old)
    BY <1>3, <1>4, <1>5 DEF Fitting
  <2> QED BY <1>1, <1>2, <1>3, <2>1 DEF Lesser
<1>7. Given(up, 1, terms, top).old = up.old + up.due * Value[1]
  BY <1>6 DEF Given
<1> QED BY <1>1, <1>2, <1>7

LEMMA CalcChangeFacts ==
  ASSUME NEW terms \in Terms, NEW top, NEW x \in Int
  PROVE  /\ CalcChange(x, terms, top) \in Coinage
         /\ x \in Nat => Merge(CalcChange(x, terms, top)) <= x
         /\ x \in Nat /\ top \in Kinds /\ terms.reduce[1] = 0 /\ terms.out[1] >= terms.max /\ x <= terms.max
              => Merge(CalcChange(x, terms, top)) = x
<1>1. PICK g : Giving(g, x, terms, top, 1) /\ CalcChange(x, terms, top) = g[1].coins
  BY CalcChangeGives
<1>2. Last \in Nat \ {0}
  BY ValueFacts DEF Minted
<1>3. Fair(g[1], x, terms, 1) /\ Fair(g[2], x, terms, 2)
  BY <1>1, <1>2, GivingFair
<1>4. g[1] = Given(g[2], 1, terms, top)
  BY <1>1, <1>2 DEF Giving
<1>5. ASSUME x \in Nat, top \in Kinds, terms.reduce[1] = 0, terms.out[1] >= terms.max, x <= terms.max
      PROVE  Merge(g[1].coins) = x
  <2>1. g[1].old = x
    BY <1>3, <1>4, <1>5, LastGiven
  <2> QED BY <1>3, <2>1 DEF Fair
<1>6. g[1].coins \in Coinage /\ (x \in Nat => Merge(g[1].coins) <= x)
  BY <1>3 DEF Fair
<1> QED BY <1>1, <1>5, <1>6

-----------------------------------------------------------------------------
(***************************************************************************)
(* Taking money, and the fewest coins.                                     *)
(***************************************************************************)
SameRest(a, s, d, b) == (a + (s % d)) % b = (a + s) % b

LEMMA RestOfRest ==
  ASSUME NEW a \in Nat, NEW s \in Nat, NEW b \in Nat \ {0}, NEW d \in Nat \ {0}, d % b = 0
  PROVE  SameRest(a, s, d, b)
<1>1. PICK p : p = s \div d
  OBVIOUS
<1>2. PICK r : r = s % d
  OBVIOUS
<1>3. p \in Nat /\ r \in Nat /\ s = p * d + r
  BY <1>1, <1>2, DivMod
<1>4. PICK e : e = d \div b
  OBVIOUS
<1>5. e \in Nat /\ d = e * b
  <2>1. e \in Nat /\ d = e * b + (d % b)
    BY <1>4, DivMod
  <2> QED BY <2>1
<1>6. PICK q : q = (a + r) \div b
  OBVIOUS
<1>7. PICK t : t = (a + r) % b
  OBVIOUS
<1>8. q \in Nat /\ t \in Nat /\ t < b /\ a + r = q * b + t
  <2>1. a + r \in Nat
    BY <1>3
  <2> QED BY <1>6, <1>7, <2>1, DivMod
<1>9. p * d = (p * e) * b /\ (p * e + q) * b = (p * e) * b + q * b
  BY <1>3, <1>5, <1>8
<1>10. a + s = (p * e + q) * b + t
  <2>1. PICK y : y = p * d
    OBVIOUS
  <2>2. PICK z : z = q * b
    OBVIOUS
  <2>3. y \in Nat /\ z \in Nat
    BY <1>3, <1>8, <2>1, <2>2
  <2>4. PICK u : u = (p * e + q) * b
    OBVIOUS
  <2>5. u = y + z
    BY <1>9, <2>1, <2>2, <2>4, Zenon
  <2>6. s = y + r /\ a + r = z + t
    BY <1>3, <1>8, <2>1, <2>2, Zenon
  <2>7. a + s = u + t
    BY <1>3, <1>8, <2>3, <2>5, <2>6
  <2> QED BY <2>4, <2>7, Zenon
<1>11. p * e + q \in Int /\ a + s \in Nat
  BY <1>3, <1>5, <1>8
<1>12. (a + s) % b = t
  BY <1>8, <1>10, <1>11, DivModIs
<1> QED BY <1>2, <1>7, <1>12 DEF SameRest

LEMMA SplitFacts ==
  ASSUME NEW v \in Nat
  PROVE  Split(v) \in Coinage /\ Merge(Split(v)) = v
<1> DEFINE rest(k) == IF k = Last THEN v ELSE v % Value[k + 1]
           c == Split(v)
           C(k) == Merge(UpToKind(c, k))
           X == {k \in 0 .. Last : k = 0 \/ C(k) = rest(k)}
<1>1. Minted
  BY ValueFacts
<1>2. ASSUME NEW k \in Kinds
      PROVE  /\ rest(k) \in Nat /\ Value[k] \in Nat \ {0}
             /\ c[k] = rest(k) \div Value[k] /\ c[k] \in Nat
             /\ c[k] * Value[k] + (rest(k) % Value[k]) = rest(k)
  <2>1. rest(k) \in Nat /\ Value[k] \in Nat \ {0}
    <3>1. CASE k = Last
      BY <1>1, <3>1 DEF Minted
    <3>2. CASE k # Last
      <4>1. k + 1 \in Kinds /\ k \in Kinds
        BY <1>1, <3>2 DEF Minted
      <4>2. Value[k + 1] \in Nat \ {0} /\ Value[k] \in Nat \ {0}
        BY <1>1, <4>1 DEF Minted
      <4>3. v % Value[k + 1] \in Nat
        BY <4>2, DivMod
      <4> QED BY <3>2, <4>2, <4>3
    <3> QED BY <3>1, <3>2
  <2>2. c[k] = rest(k) \div Value[k]
    BY DEF Split, Last
  <2> HIDE DEF rest, c
  <2> QED BY <2>1, <2>2, DivMod
<1>3. c \in Coinage
  <2>1. c = [k \in Kinds |-> c[k]]
    BY DEF Split
  <2> HIDE DEF c, rest
  <2> QED BY <1>2, <2>1 DEF Coinage
<1> HIDE DEF c
<1>4. ASSUME NEW k \in 1 .. Last, k - 1 \in X PROVE k \in X
  <2>1. k \in Kinds /\ k \in 0 .. Last
    BY <1>1 DEF Minted
  <2>2. C(k) = C(k - 1) + c[k] * Value[k] /\ C(k - 1) \in Nat /\ C(k) \in Nat
    <3>1. k - 1 \in Int /\ k \in Int
      BY <2>1, <1>1
    <3> QED BY <1>3, <2>1, <3>1, MergeUp
  <2>3. C(k - 1) = rest(k) % Value[k]
    <3>1. CASE k = 1
      <4>1. C(0) = 0 /\ Value[1] = 1
        BY <1>1, <1>3, MergeUp DEF Minted
      <4>2. rest(1) % 1 = 0
        <5>1. rest(1) \in Nat
          BY <1>2, <2>1, <3>1
        <5> HIDE DEF rest
        <5> QED BY <5>1
      <4> HIDE DEF C, rest
      <4> QED BY <3>1, <4>1, <4>2
    <3>2. CASE k # 1
      <4>1. k - 1 # 0 /\ k - 1 # Last /\ (k - 1) + 1 = k
        BY <1>1, <2>1, <3>2 DEF Minted
      <4>2. C(k - 1) = v % Value[k]
        <5>1. C(k - 1) = rest(k - 1)
          BY <1>4, <4>1
        <5> HIDE DEF C
        <5> QED BY <4>1, <5>1
      <4>3. CASE k = Last
        BY <4>2, <4>3
      <4>4. CASE k # Last
        <5>1. /\ Value[k] \in Nat \ {0} /\ Value[k + 1] \in Nat \ {0}
              /\ Value[k + 1] % Value[k] = 0
          <6>1. k \in Kinds \ {Last} /\ k + 1 \in Kinds
            BY <1>1, <2>1, <4>4 DEF Minted
          <6> QED BY <1>1, <6>1 DEF Minted
        <5>2. (0 + (v % Value[k + 1])) % Value[k] = (0 + v) % Value[k]
          <6> HIDE DEF C, X, rest
          <6>1. PICK z : z = 0
            OBVIOUS
          <6>2. PICK m : m = Value[k]
            OBVIOUS
          <6>3. PICK n : n = Value[k + 1]
            OBVIOUS
          <6>4. z \in Nat /\ v \in Nat /\ m \in Nat \ {0} /\ n \in Nat \ {0} /\ n % m = 0
            BY <5>1, <6>1, <6>2, <6>3
          <6>5. SameRest(z, v, n, m)
            BY <6>4, RestOfRest
          <6> QED BY <6>1, <6>2, <6>3, <6>5, Zenon DEF SameRest
        <5>3. v % Value[k + 1] \in Nat
          BY <5>1, DivMod
        <5>4. 0 + (v % Value[k + 1]) = v % Value[k + 1] /\ 0 + v = v
          BY <5>3
        <5> HIDE DEF C
        <5> QED BY <4>2, <4>4, <5>2, <5>4
      <4> QED BY <4>3, <4>4
    <3> QED BY <3>1, <3>2
  <2>4. C(k) = rest(k)
    <3>1. /\ c[k] * Value[k] + (rest(k) % Value[k]) = rest(k) /\ rest(k) \in Nat
          /\ c[k] \in Nat /\ Value[k] \in Nat
      BY <1>2, <2>1
    <3>2. PICK y : y = c[k] * Value[k]
      OBVIOUS
    <3>3. PICK z : z = rest(k) % Value[k]
      OBVIOUS
    <3>4. y \in Nat
      BY <3>1, <3>2
    <3> HIDE DEF C, rest
    <3> QED BY <2>2, <2>3, <3>1, <3>2, <3>3, <3>4
  <2> QED BY <2>1, <2>4
<1>5. Last \in Nat \ {0} /\ X \in SUBSET (0 .. Last) /\ 0 \in X
  BY <1>1 DEF Minted
<1>6. X = 0 .. Last
  <2> HIDE DEF X
  <2> QED BY <1>4, <1>5, Upward
<1>7. C(Last) = rest(Last)
  <2>1. Last \in X /\ Last # 0
    BY <1>5, <1>6
  <2> QED BY <2>1
<1>8. C(Last) = Merge(c)
  BY <1>3, MergeUp
<1> QED BY <1>3, <1>7, <1>8 DEF c

Left(c, amount) == [k \in Kinds |-> Lack(c[k] * Value[k], Unpaid(amount, UpToKind(c, k - 1)))]

LEMMA LeftSums ==
  ASSUME NEW f, Natural(f, Kinds)
  PROVE  /\ \A k \in 0 .. Last : Sum(f, 1 .. k) \in Nat
         /\ \A k \in 1 .. Last + 1 : Sum(f, k .. Last) \in Nat
         /\ Sum(f, 1 .. 0) = 0 /\ Sum(f, Last + 1 .. Last) = 0
         /\ \A k \in Kinds : /\ Sum(f, 1 .. k) = f[k] + Sum(f, 1 .. k - 1)
                             /\ Sum(f, k .. Last) = f[k] + Sum(f, k + 1 .. Last)
<1>1. Last \in Nat \ {0} /\ Kinds = 1 .. Last /\ IsFiniteSet(Kinds)
  BY ValueFacts DEF Minted
<1>2. ASSUME NEW S \in SUBSET Kinds
      PROVE  IsFiniteSet(S) /\ Natural(f, S) /\ Integral(f, S) /\ Sum(f, S) \in Nat
  <2>1. IsFiniteSet(S)
    BY <1>1, FS_Subset
  <2>2. Natural(f, S) /\ Integral(f, S)
    BY DEF Natural, Integral
  <2> QED BY <2>1, <2>2, SumNat
<1>3. \A k \in 0 .. Last : 1 .. k \in SUBSET Kinds
  BY <1>1
<1>4. \A k \in 1 .. Last + 1 : k .. Last \in SUBSET Kinds
  BY <1>1
<1>5. 1 .. 0 = {} /\ Last + 1 .. Last = {}
  BY <1>1
<1>6. ASSUME NEW k \in Kinds
      PROVE  /\ Sum(f, 1 .. k) = f[k] + Sum(f, 1 .. k - 1)
             /\ Sum(f, k .. Last) = f[k] + Sum(f, k + 1 .. Last)
  <2>1. /\ (1 .. k) \ {k} = 1 .. k - 1 /\ (k .. Last) \ {k} = k + 1 .. Last
        /\ k \in 1 .. k /\ k \in k .. Last /\ 1 .. k \in SUBSET Kinds /\ k .. Last \in SUBSET Kinds
    BY <1>1
  <2>2. PICK A : A = 1 .. k
    OBVIOUS
  <2>3. PICK B : B = k .. Last
    OBVIOUS
  <2>4. Sum(f, A) = f[k] + Sum(f, A \ {k}) /\ Sum(f, B) = f[k] + Sum(f, B \ {k})
    BY <1>2, <2>1, <2>2, <2>3, SumWithout
  <2> QED BY <2>1, <2>2, <2>3, <2>4
<1> QED BY <1>2, <1>3, <1>4, <1>5, <1>6, SumEmpty

\* What is left of the coins, the cheapest being taken first, is what is not taken.
LEMMA LeftFacts ==
  ASSUME NEW c \in Coinage, NEW amount \in Nat
  PROVE  /\ Natural(Left(c, amount), Kinds)
         /\ amount <= Merge(c) => Sum(Left(c, amount), 1 .. Last) = Merge(c) - amount
<1> DEFINE left == Left(c, amount)
           C(k) == Merge(UpToKind(c, k))
           L(k) == Sum(left, 1 .. k)
           due(k) == Unpaid(amount, UpToKind(c, k - 1))
           X == {k \in 0 .. Last : L(k) = Lack(C(k), amount)}
<1>1. Minted
  BY ValueFacts
<1>2. ASSUME NEW k \in Kinds
      PROVE  /\ left[k] = Lack(c[k] * Value[k], due(k)) /\ left[k] \in Nat
             /\ c[k] * Value[k] \in Nat
             /\ due(k) = IF C(k - 1) < amount THEN amount - C(k - 1) ELSE 0
  <2>1. c[k] \in Nat /\ Value[k] \in Nat /\ k - 1 \in Int
    BY <1>1 DEF Minted, Coinage
  <2>2. UpToKind(c, k - 1) \in Coinage /\ C(k - 1) \in Nat
    BY <2>1, MergeUp
  <2>3. due(k) \in Nat /\ due(k) = IF C(k - 1) < amount THEN amount - C(k - 1) ELSE 0
    BY <2>2, UnpaidFacts
  <2>4. c[k] * Value[k] \in Nat
    BY <2>1
  <2>5. left[k] = Lack(c[k] * Value[k], due(k))
    BY DEF Left
  <2> HIDE DEF left, due
  <2> QED BY <2>3, <2>4, <2>5 DEF Lack
<1> HIDE DEF left
<1>3. Natural(left, Kinds)
  BY <1>2 DEF Natural
<1>4. ASSUME NEW k \in 1 .. Last, k - 1 \in X PROVE k \in X
  <2>1. k \in Kinds /\ k \in 0 .. Last /\ k \in Int /\ k - 1 \in Int /\ k - 1 \in 0 .. Last
    BY <1>1 DEF Minted
  <2>2. C(k) = C(k - 1) + c[k] * Value[k] /\ C(k) \in Nat /\ C(k - 1) \in Nat
    BY <2>1, MergeUp
  <2>3. L(k) = left[k] + L(k - 1)
    BY <1>3, <2>1, LeftSums
  <2>4. L(k - 1) = Lack(C(k - 1), amount)
    BY <1>4
  <2>5. /\ left[k] = Lack(c[k] * Value[k], due(k)) /\ c[k] * Value[k] \in Nat
        /\ due(k) = IF C(k - 1) < amount THEN amount - C(k - 1) ELSE 0
    BY <1>2, <2>1
  <2> HIDE DEF C, L, due
  <2>6. L(k) = Lack(C(k), amount)
    BY <2>2, <2>3, <2>4, <2>5 DEF Lack
  <2> QED BY <2>1, <2>6 DEF L, C
<1>5. Last \in Nat \ {0} /\ X \in SUBSET (0 .. Last) /\ 0 \in X
  <2>1. L(0) = 0 /\ C(0) = 0
    BY <1>3, MergeUp, LeftSums
  <2>2. L(0) = Lack(C(0), amount)
    BY <2>1 DEF Lack
  <2>3. Last \in Nat \ {0}
    BY <1>1 DEF Minted
  <2> QED BY <2>2, <2>3
<1>6. X = 0 .. Last
  <2> HIDE DEF X
  <2> QED BY <1>4, <1>5, Upward
<1>7. L(Last) = Lack(Merge(c), amount)
  <2>1. Last \in X
    BY <1>5, <1>6
  <2>2. C(Last) = Merge(c)
    BY MergeUp
  <2> QED BY <2>1, <2>2
<1>8. Merge(c) \in Nat
  BY MergeNat
<1> QED BY <1>3, <1>7, <1>8 DEF left, Lack

\* No coin that is left is lost on the way down to the cheapest.
LEMMA RemainderFacts ==
  ASSUME NEW c \in Coinage, NEW amount \in Nat
  PROVE  /\ Remainder(c, amount) \in Coinage
         /\ amount <= Merge(c) => Merge(Remainder(c, amount)) = Merge(c) - amount
<1>1. PICK left : left = Left(c, amount)
  OBVIOUS
<1> DEFINE S(k) == Sum(left, k .. Last)
           rest(k) == IF k > Last THEN 0 ELSE S(k) % Value[k]
           r == Remainder(c, amount)
           R(k) == Merge(FromKind(r, k))
           X == {k \in 1 .. Last + 1 : R(k) + rest(k) = S(k)}
<1>2. Minted
  BY ValueFacts
<1>3. Natural(left, Kinds)
  BY <1>1, LeftFacts
<1>4. r = [k \in Kinds |-> (left[k] + rest(k + 1)) \div Value[k]]
  BY <1>1 DEF Remainder, Left, Sum, Last
<1> HIDE DEF r
<1>5. ASSUME NEW k \in Kinds
      PROVE  /\ left[k] \in Nat /\ S(k + 1) \in Nat /\ S(k) = left[k] + S(k + 1)
             /\ rest(k + 1) \in Nat /\ Value[k] \in Nat \ {0} /\ r[k] \in Nat
             /\ r[k] * Value[k] + rest(k) = left[k] + rest(k + 1)
  <2>1. /\ k \in 1 .. Last /\ k + 1 \in 1 .. Last + 1 /\ Last \in Nat /\ ~(k > Last)
        /\ Value[k] \in Nat \ {0} /\ left[k] \in Nat
    BY <1>2, <1>3 DEF Minted, Natural
  <2>2. S(k + 1) \in Nat /\ S(k) = left[k] + S(k + 1)
    BY <1>3, <2>1, LeftSums
  <2>3. rest(k + 1) \in Nat /\ rest(k) = (left[k] + rest(k + 1)) % Value[k]
    <3>1. rest(k) = (left[k] + S(k + 1)) % Value[k]
      BY <2>1, <2>2
    <3>2. CASE k = Last
      <4>1. rest(k + 1) = 0 /\ S(k + 1) = 0
        <5>1. Last + 1 > Last
          BY <2>1
        <5>2. Sum(left, Last + 1 .. Last) = 0
          BY <1>3, LeftSums
        <5> QED BY <3>2, <5>1, <5>2
      <4> HIDE DEF rest, S
      <4> QED BY <3>1, <4>1
    <3>3. CASE k # Last
      <4>1. /\ ~(k + 1 > Last)
            /\ Value[k + 1] \in Nat \ {0} /\ Value[k + 1] % Value[k] = 0
        <5>1. k \in Kinds \ {Last} /\ k + 1 \in Kinds /\ ~(k + 1 > Last)
          BY <1>2, <2>1, <3>3 DEF Minted
        <5> QED BY <1>2, <5>1 DEF Minted
      <4>2. rest(k + 1) = S(k + 1) % Value[k + 1]
        BY <4>1
      <4>3. PICK d : d = Value[k + 1]
        OBVIOUS
      <4>4. PICK b : b = Value[k]
        OBVIOUS
      <4> HIDE DEF S
      <4>5. d \in Nat \ {0} /\ b \in Nat \ {0} /\ d % b = 0
        BY <2>1, <4>1, <4>3, <4>4, Zenon
      <4>6. (left[k] + (S(k + 1) % d)) % b = (left[k] + S(k + 1)) % b
        <5>1. PICK x : x = left[k]
          OBVIOUS
        <5>2. PICK y : y = S(k + 1)
          OBVIOUS
        <5>3. x \in Nat /\ y \in Nat
          BY <2>1, <2>2, <5>1, <5>2, Zenon
        <5>4. (x + (y % d)) % b = (x + y) % b
          BY <4>5, <5>3, RestOfRest DEF SameRest
        <5> QED BY <5>1, <5>2, <5>4, Zenon
      <4>7. S(k + 1) % d \in Nat
        BY <2>2, <4>5, DivMod, Zenon
      <4> HIDE DEF rest
      <4> QED BY <3>1, <4>2, <4>3, <4>4, <4>6, <4>7, Zenon
    <3> QED BY <3>2, <3>3
  <2>4. r[k] = (left[k] + rest(k + 1)) \div Value[k]
    BY <1>4
  <2> HIDE DEF rest, S
  <2>5. left[k] + rest(k + 1) \in Nat
    BY <2>1, <2>3
  <2>6. PICK a : a = left[k] + rest(k + 1)
    OBVIOUS
  <2>7. a \div Value[k] \in Nat /\ a = (a \div Value[k]) * Value[k] + (a % Value[k])
    BY <2>1, <2>5, <2>6, DivMod
  <2> QED BY <2>1, <2>2, <2>3, <2>4, <2>6, <2>7, Zenon
<1>6. r \in Coinage
  <2>1. r = [k \in Kinds |-> r[k]]
    BY <1>4
  <2> HIDE DEF rest, S
  <2> QED BY <1>5, <2>1 DEF Coinage
<1>7. ASSUME NEW k \in 1 .. Last, k + 1 \in X PROVE k \in X
  <2>1. k \in Kinds /\ k \in 1 .. Last + 1 /\ k + 1 \in Int /\ k \in Int /\ ~(k > Last)
    BY <1>2 DEF Minted
  <2>2. R(k) = R(k + 1) + r[k] * Value[k] /\ R(k + 1) \in Nat
    BY <1>6, <2>1, MergeFrom
  <2>3. R(k + 1) + rest(k + 1) = S(k + 1)
    BY <1>7
  <2>4. /\ left[k] \in Nat /\ S(k + 1) \in Nat /\ S(k) = left[k] + S(k + 1)
        /\ rest(k + 1) \in Nat /\ r[k] \in Nat /\ Value[k] \in Nat
        /\ r[k] * Value[k] + rest(k) = left[k] + rest(k + 1)
    BY <1>5, <2>1
  <2>5. rest(k) \in Nat
    <3>1. S(k) \in Nat /\ Value[k] \in Nat \ {0}
      BY <1>5, <2>1, <2>4
    <3>2. rest(k) = S(k) % Value[k]
      BY <2>1
    <3> HIDE DEF S, rest
    <3>3. S(k) % Value[k] \in Nat
      BY <3>1, DivMod
    <3> QED BY <3>2, <3>3, Zenon
  <2>6. PICK y : y = r[k] * Value[k]
    OBVIOUS
  <2>7. y \in Nat
    BY <2>4, <2>6
  <2> HIDE DEF R, S, rest
  <2>8. R(k) + rest(k) = S(k)
    <3>1. R(k) = R(k + 1) + y /\ y + rest(k) = left[k] + rest(k + 1)
      BY <2>2, <2>4, <2>6
    <3> QED BY <2>2, <2>3, <2>4, <2>5, <2>7, <3>1
  <2> QED BY <2>1, <2>8 DEF R, S, rest
<1>8. Last \in Nat \ {0} /\ X \in SUBSET (1 .. Last + 1) /\ Last + 1 \in X
  <2>1. Last \in Nat \ {0} /\ Last + 1 > Last /\ Last + 1 \in 1 .. Last + 1
    BY <1>2 DEF Minted
  <2>2. R(Last + 1) = 0 /\ S(Last + 1) = 0
    BY <1>3, <1>6, MergeFrom, LeftSums
  <2> HIDE DEF R, S
  <2> QED BY <2>1, <2>2
<1>9. X = 1 .. Last + 1
  <2> HIDE DEF X
  <2> QED BY <1>7, <1>8, Downward
<1>10. Merge(r) = S(1)
  <2>1. R(1) + rest(1) = S(1) /\ ~(1 > Last)
    BY <1>8, <1>9
  <2>2. S(1) \in Nat /\ R(1) = Merge(r) /\ R(1) \in Nat /\ Value[1] = 1
    <3>1. 1 \in 1 .. Last + 1
      BY <1>8
    <3> QED BY <1>2, <1>3, <1>6, <3>1, LeftSums, MergeFrom DEF Minted
  <2>3. rest(1) = 0
    <3> HIDE DEF S
    <3> QED BY <2>1, <2>2
  <2> HIDE DEF R, S, rest
  <2> QED BY <2>1, <2>2, <2>3
<1>11. amount <= Merge(c) => S(1) = Merge(c) - amount
  BY <1>1, LeftFacts
<1> QED BY <1>6, <1>10, <1>11 DEF r

-----------------------------------------------------------------------------
(***************************************************************************)
(* One kind of coin in one purse.                                          *)
(***************************************************************************)
\* The first term of a sum and the others.
LEMMA SumShift ==
  ASSUME NEW n \in Nat, NEW f, NEW g, Natural(f, 1 .. n + 1), \A i \in 1 .. n : g[i] = f[i + 1]
  PROVE  Sum(f, 1 .. n + 1) = f[1] + Sum(g, 1 .. n)
<1> DEFINE X == {m \in 0 .. n : Sum(f, 1 .. m + 1) = f[1] + Sum(g, 1 .. m)}
<1>1. ASSUME NEW m \in 0 .. n
      PROVE  /\ IsFiniteSet(1 .. m + 1) /\ Integral(f, 1 .. m + 1)
             /\ IsFiniteSet(1 .. m) /\ Integral(g, 1 .. m)
             /\ Sum(f, 1 .. m + 1) \in Int /\ Sum(g, 1 .. m) \in Int
  <2>1. IsFiniteSet(1 .. m + 1) /\ IsFiniteSet(1 .. m)
    <3>1. 1 \in Int /\ m + 1 \in Int /\ m \in Int
      OBVIOUS
    <3> QED BY <3>1, FS_Interval
  <2>2. Integral(f, 1 .. m + 1) /\ Integral(g, 1 .. m)
    BY DEF Integral, Natural
  <2> QED BY <2>1, <2>2, SumInt
<1>2. 0 \in X
  <2>1. 1 .. 0 = {} /\ 1 .. 0 + 1 = {1} /\ 0 \in 0 .. n
    OBVIOUS
  <2>2. IsFiniteSet({1}) /\ Integral(f, {1})
    BY <1>1, <2>1
  <2>3. Sum(f, {1}) = f[1] + Sum(f, {1} \ {1}) /\ f[1] \in Int
    <3>1. PICK A : A = {1}
      OBVIOUS
    <3> QED BY <2>2, <3>1, SumWithout
  <2>4. {1} \ {1} = {}
    OBVIOUS
  <2> QED BY <2>1, <2>3, <2>4, SumEmpty
<1>3. ASSUME NEW m \in 1 .. n, m - 1 \in X PROVE m \in X
  <2>1. Sum(f, 1 .. m) = f[1] + Sum(g, 1 .. m - 1) /\ m \in 0 .. n /\ m - 1 \in 0 .. n
    <3>1. (m - 1) + 1 = m
      OBVIOUS
    <3> QED BY <1>3, <3>1
  <2>2. /\ (1 .. m + 1) \ {m + 1} = 1 .. m /\ m + 1 \in 1 .. m + 1
        /\ (1 .. m) \ {m} = 1 .. m - 1 /\ m \in 1 .. m
    OBVIOUS
  <2>3. PICK A : A = 1 .. m + 1
    OBVIOUS
  <2>4. PICK B : B = 1 .. m
    OBVIOUS
  <2>5. /\ Sum(f, A) = f[m + 1] + Sum(f, A \ {m + 1})
        /\ Sum(g, B) = g[m] + Sum(g, B \ {m})
    <3>1. /\ IsFiniteSet(A) /\ Integral(f, A) /\ m + 1 \in A
          /\ IsFiniteSet(B) /\ Integral(g, B) /\ m \in B
      <4>1. m \in 0 .. n
        OBVIOUS
      <4> QED BY <1>1, <2>2, <2>3, <2>4, <4>1, Zenon
    <3> QED BY <3>1, SumWithout
  <2>6. g[m] = f[m + 1] /\ f[m + 1] \in Int /\ f[1] \in Int
    BY DEF Natural
  <2>7. Sum(g, 1 .. m - 1) \in Int
    BY <1>1, <2>1
  <2>8. Sum(f, 1 .. m + 1) = f[m + 1] + Sum(f, 1 .. m)
    BY <2>2, <2>3, <2>5, Zenon
  <2>9. Sum(g, 1 .. m) = g[m] + Sum(g, 1 .. m - 1)
    BY <2>2, <2>4, <2>5, Zenon
  <2>10. Sum(f, 1 .. m + 1) = f[1] + Sum(g, 1 .. m)
    BY <2>1, <2>6, <2>7, <2>8, <2>9
  <2> QED BY <2>1, <2>10
<1>4. X = 0 .. n
  <2>1. X \in SUBSET (0 .. n)
    OBVIOUS
  <2> HIDE DEF X
  <2> QED BY <1>2, <1>3, <2>1, Upward
<1>5. n \in X
  BY <1>4
<1> QED BY <1>5

\* The coins that last, and those that vanish.
Firm(s) == Coins(s, FALSE)
Fading(s) == Coins(s, TRUE)

LEMMA CoinsNat ==
  ASSUME NEW s \in Seq(Heap), NEW d \in BOOLEAN
  PROVE  Coins(s, d) \in Nat
<1> DEFINE f == [i \in DOMAIN s |-> IF s[i].dying = d THEN s[i].num ELSE 0]
<1>1. Len(s) \in Nat /\ DOMAIN s = 1 .. Len(s) /\ \A i \in DOMAIN s : s[i] \in Heap
  BY LenProperties, ElementOfSeq
<1>2. IsFiniteSet(DOMAIN s)
  BY <1>1, FS_Interval
<1>3. Natural(f, DOMAIN s)
  BY <1>1 DEF Natural, Heap
<1> QED BY <1>2, <1>3, SumNat DEF Coins, Sum

LEMMA CoinsNone ==
  ASSUME NEW d
  PROVE  Coins(<<>>, d) = 0
<1>1. DOMAIN <<>> = {}
  OBVIOUS
<1> QED BY <1>1, SumEmpty DEF Coins, Sum

\* s is the sequence of the heap h and then those of t.
Consed(s, h, t) ==
  /\ s \in Seq(Heap) /\ s # <<>> /\ Len(t) \in Nat
  /\ Len(s) = Len(t) + 1 /\ DOMAIN s = 1 .. Len(t) + 1
  /\ s[1] = h /\ \A i \in 1 .. Len(t) : s[i + 1] = t[i]
  /\ DOMAIN t = 1 .. Len(t) /\ \A i \in 1 .. Len(t) : t[i] \in Heap
  /\ Head(s) = h /\ Tail(s) = t
  /\ Fading(s) = (IF h.dying THEN h.num ELSE 0) + Fading(t)
  /\ Firm(s) = (IF h.dying THEN 0 ELSE h.num) + Firm(t)

LEMMA Cons ==
  ASSUME NEW h \in Heap, NEW t \in Seq(Heap)
  PROVE  Consed(<<h>> \o t, h, t)
<1> DEFINE s == <<h>> \o t
<1>1. Len(t) \in Nat /\ DOMAIN t = 1 .. Len(t) /\ \A i \in 1 .. Len(t) : t[i] \in Heap
  BY LenProperties, ElementOfSeq
<1>2. <<h>> \in Seq(Heap) /\ Len(<<h>>) = 1 /\ <<h>>[1] = h
  OBVIOUS
<1>3. s \in Seq(Heap) /\ Len(s) = Len(t) + 1
  BY <1>1, <1>2, ConcatProperties
<1>4. DOMAIN s = 1 .. Len(t) + 1 /\ s # <<>>
  BY <1>1, <1>3, LenProperties, EmptySeq
<1>5. s[1] = h /\ \A i \in 1 .. Len(t) : s[i + 1] = t[i]
  <2>1. \A i \in 1 .. 1 + Len(t) : s[i] = IF i <= 1 THEN <<h>>[i] ELSE t[i - 1]
    BY <1>2, ConcatProperties
  <2>2. 1 \in 1 .. 1 + Len(t)
    BY <1>1
  <2>3. \A i \in 1 .. Len(t) : i + 1 \in 1 .. 1 + Len(t) /\ ~(i + 1 <= 1) /\ (i + 1) - 1 = i
    BY <1>1
  <2> HIDE DEF s
  <2> QED BY <1>2, <2>1, <2>2, <2>3
<1>6. Head(s) = h /\ Tail(s) = t
  <2>1. Head(s) = s[1]
    BY <1>3, <1>4
  <2>2. /\ Tail(s) \in Seq(Heap) /\ Len(Tail(s)) = Len(s) - 1
        /\ \A i \in 1 .. Len(Tail(s)) : Tail(s)[i] = s[i + 1]
    BY <1>3, <1>4, HeadTailProperties
  <2> HIDE DEF s
  <2>3. Len(Tail(s)) = Len(t)
    BY <1>1, <1>3, <2>2
  <2>4. \A i \in 1 .. Len(Tail(s)) : Tail(s)[i] = t[i]
    BY <1>5, <2>2, <2>3
  <2>5. Tail(s) = t
    BY <2>2, <2>3, <2>4, SeqEqual
  <2> QED BY <1>5, <2>1, <2>5
<1>7. ASSUME NEW d \in BOOLEAN
      PROVE  Coins(s, d) = (IF h.dying = d THEN h.num ELSE 0) + Coins(t, d)
  <2> DEFINE f == [i \in DOMAIN s |-> IF s[i].dying = d THEN s[i].num ELSE 0]
             g == [i \in DOMAIN t |-> IF t[i].dying = d THEN t[i].num ELSE 0]
  <2>1. Coins(s, d) = Sum(f, DOMAIN s) /\ Coins(t, d) = Sum(g, DOMAIN t)
    BY DEF Coins, Sum
  <2> HIDE DEF s
  <2>2. \A i \in 1 .. Len(t) + 1 : s[i] \in Heap
    BY <1>3, <1>4, ElementOfSeq
  <2>3. Natural(f, 1 .. Len(t) + 1)
    BY <1>4, <2>2 DEF Natural, Heap
  <2>4. \A i \in 1 .. Len(t) : g[i] = f[i + 1]
    <3>1. \A i \in 1 .. Len(t) : i + 1 \in 1 .. Len(t) + 1
      BY <1>1
    <3> QED BY <1>1, <1>4, <1>5, <3>1
  <2>5. f[1] = IF h.dying = d THEN h.num ELSE 0
    <3>1. 1 \in DOMAIN s
      BY <1>1, <1>4
    <3> QED BY <1>5, <3>1
  <2>6. Sum(f, 1 .. Len(t) + 1) = f[1] + Sum(g, 1 .. Len(t))
    <3> HIDE DEF f, g
    <3> QED BY <1>1, <2>3, <2>4, SumShift
  <2> HIDE DEF f, g
  <2> QED BY <1>1, <1>4, <2>1, <2>5, <2>6
<1> HIDE DEF s
<1>8. h.dying \in BOOLEAN
  BY DEF Heap
<1>9. Fading(s) = (IF h.dying THEN h.num ELSE 0) + Fading(t)
  BY <1>7, <1>8, Zenon DEF Fading
<1>10. Firm(s) = (IF h.dying THEN 0 ELSE h.num) + Firm(t)
  BY <1>7, <1>8, Zenon DEF Firm
<1>11. Consed(s, h, t)
  BY <1>1, <1>3, <1>4, <1>5, <1>6, <1>9, <1>10 DEF Consed
<1> QED BY <1>11 DEF s

Passing(t) == t \in Seq(Heap) /\ \A i \in DOMAIN t : t[i].dying

\* What the invariants say of one sequence of heaps.
Good(s) ==
  /\ s \in Seq(Heap)
  /\ \A i \in DOMAIN s : s[i].num = 0 => s[i].dying
  /\ \A i \in DOMAIN s : ~s[i].dying => i = 1

LEMMA GoodCoins ==
  ASSUME NEW s, Good(s)
  PROVE  Fading(s) \in Nat /\ Firm(s) \in Nat
BY CoinsNat DEF Good, Firm, Fading

LEMMA GoodEmpty ==
  Good(<<>>) /\ Fading(<<>>) = 0 /\ Firm(<<>>) = 0 /\ Num(<<>>) = 0
<1>1. <<>> \in Seq(Heap) /\ DOMAIN <<>> = {}
  OBVIOUS
<1>2. Good(<<>>)
  BY <1>1 DEF Good
<1> QED BY <1>2, CoinsNone DEF Num, Firm, Fading

LEMMA PassingFacts ==
  ASSUME NEW t, Passing(t)
  PROVE  Good(t) /\ Firm(t) = 0 /\ Fading(t) \in Nat
<1> DEFINE f == [i \in DOMAIN t |-> IF t[i].dying = FALSE THEN t[i].num ELSE 0]
<1>1. Good(t)
  BY DEF Good, Passing
<1>2. Len(t) \in Nat /\ DOMAIN t = 1 .. Len(t)
  BY LenProperties DEF Passing
<1>3. IsFiniteSet(DOMAIN t)
  BY <1>2, FS_Interval
<1>4. Zero(f, DOMAIN t)
  BY DEF Zero, Passing
<1>5. Firm(t) = Sum(f, DOMAIN t)
  BY DEF Coins, Sum, Firm
<1> HIDE DEF f
<1> QED BY <1>1, <1>3, <1>4, <1>5, SumZero, GoodCoins

LEMMA GoodCons ==
  ASSUME NEW h \in Heap, NEW t, Passing(t), h.num = 0 => h.dying
  PROVE  LET s == <<h>> \o t
         IN  /\ Good(s) /\ s # <<>> /\ Head(s) = h /\ Tail(s) = t /\ Num(s) = h.num
             /\ Firm(s) = IF h.dying THEN 0 ELSE h.num
             /\ Fading(s) = IF h.dying THEN h.num + Fading(t) ELSE Fading(t)
<1>1. PICK s : s = <<h>> \o t
  OBVIOUS
<1>2. t \in Seq(Heap)
  BY DEF Passing
<1>3. Consed(s, h, t)
  BY <1>1, <1>2, Cons, Zenon
<1>4. \A i \in DOMAIN s : i = 1 \/ s[i].dying
  <2> TAKE i \in DOMAIN s
  <2>1. i = 1 \/ i - 1 \in 1 .. Len(t)
    BY <1>3 DEF Consed
  <2>2. ASSUME i - 1 \in 1 .. Len(t) PROVE s[i].dying
    <3>1. s[(i - 1) + 1] = t[i - 1] /\ (i - 1) + 1 = i
      BY <1>3, <2>2 DEF Consed
    <3> QED BY <1>3, <2>2, <3>1 DEF Passing, Consed
  <2> QED BY <2>1, <2>2
<1>5. Good(s)
  BY <1>3, <1>4 DEF Good, Consed
<1>6. Firm(t) = 0 /\ Fading(t) \in Nat
  BY PassingFacts
<1>7. h.num \in Nat /\ h.dying \in BOOLEAN
  BY DEF Heap
<1>8. /\ Firm(s) = IF h.dying THEN 0 ELSE h.num
      /\ Fading(s) = IF h.dying THEN h.num + Fading(t) ELSE Fading(t)
  BY <1>3, <1>6, <1>7 DEF Consed
<1>9. Num(s) = h.num
  BY <1>3 DEF Num, Consed
<1> QED BY <1>1, <1>3, <1>5, <1>8, <1>9 DEF Consed

LEMMA GoodIsCons ==
  ASSUME NEW s, Good(s), s # <<>>
  PROVE  /\ Head(s) \in Heap /\ Passing(Tail(s)) /\ s = <<Head(s)>> \o Tail(s)
         /\ Head(s) = s[1] /\ Len(s) \in Nat \ {0} /\ DOMAIN s = 1 .. Len(s)
         /\ Head(s).num = 0 => Head(s).dying
<1>1. s \in Seq(Heap)
  BY DEF Good
<1>2. Len(s) \in Nat \ {0} /\ DOMAIN s = 1 .. Len(s) /\ Head(s) = s[1]
  BY <1>1, LenProperties, EmptySeq
<1>3. /\ Head(s) \in Heap /\ Tail(s) \in Seq(Heap) /\ Len(Tail(s)) = Len(s) - 1
      /\ \A i \in 1 .. Len(Tail(s)) : Tail(s)[i] = s[i + 1]
  BY <1>1, HeadTailProperties
<1>4. PICK t : t = Tail(s)
  OBVIOUS
<1>5. PICK h : h = Head(s)
  OBVIOUS
<1>6. t \in Seq(Heap) /\ Len(t) = Len(s) - 1 /\ DOMAIN t = 1 .. Len(t)
  BY <1>3, <1>4, LenProperties
<1>7. \A i \in 1 .. Len(t) : t[i] = s[i + 1] /\ i + 1 \in DOMAIN s /\ i + 1 # 1
  BY <1>2, <1>3, <1>4, <1>6
<1>8. Passing(t)
  BY <1>6, <1>7 DEF Passing, Good
<1>9. s = <<h>> \o t
  <2>1. PICK r : r = <<h>> \o t
    OBVIOUS
  <2>2. /\ r \in Seq(Heap) /\ Len(r) = Len(t) + 1
        /\ r[1] = h /\ \A i \in 1 .. Len(t) : r[i + 1] = t[i]
    <3>1. Consed(r, h, t)
      BY <1>3, <1>5, <1>6, <2>1, Cons, Zenon
    <3> QED BY <3>1 DEF Consed
  <2>3. Len(r) = Len(s)
    BY <1>2, <1>6, <2>2
  <2>4. ASSUME NEW i \in 1 .. Len(s) PROVE s[i] = r[i]
    <3>1. i = 1 \/ i - 1 \in 1 .. Len(t)
      BY <1>2, <1>6
    <3>2. ASSUME i - 1 \in 1 .. Len(t) PROVE s[i] = r[i]
      <4>1. r[(i - 1) + 1] = t[i - 1] /\ t[i - 1] = s[(i - 1) + 1] /\ (i - 1) + 1 = i
        BY <1>7, <2>2, <3>2
      <4> QED BY <4>1
    <3> QED BY <1>2, <1>5, <2>2, <3>1, <3>2
  <2>5. s = r
    BY <1>1, <2>2, <2>3, <2>4, SeqEqual
  <2> QED BY <2>1, <2>5
<1>10. h.num = 0 => h.dying
  BY <1>2, <1>5 DEF Good
<1> QED BY <1>2, <1>3, <1>4, <1>5, <1>8, <1>9, <1>10

\* What a sequence of heaps holds, by its first heap.
LEMMA HeadCoins ==
  ASSUME NEW s, Good(s), s # <<>>
  PROVE  /\ Head(s).num \in Nat /\ Head(s).dying \in BOOLEAN /\ Num(s) = Head(s).num
         /\ Fading(Tail(s)) \in Nat
         /\ Firm(s) = IF Head(s).dying THEN 0 ELSE Num(s)
         /\ Fading(s) = IF Head(s).dying THEN Num(s) + Fading(Tail(s)) ELSE Fading(Tail(s))
<1>1. PICK h : h = Head(s)
  OBVIOUS
<1>2. PICK t : t = Tail(s)
  OBVIOUS
<1>3. h \in Heap /\ Passing(t) /\ s = <<h>> \o t /\ (h.num = 0 => h.dying)
  BY <1>1, <1>2, GoodIsCons, Zenon
<1>4. /\ Num(s) = h.num
      /\ Firm(s) = IF h.dying THEN 0 ELSE h.num
      /\ Fading(s) = IF h.dying THEN h.num + Fading(t) ELSE Fading(t)
  BY <1>3, GoodCons, Zenon
<1>5. Fading(t) \in Nat
  BY <1>3, PassingFacts
<1>6. h.num \in Nat /\ h.dying \in BOOLEAN
  BY <1>3 DEF Heap
<1> QED BY <1>1, <1>2, <1>4, <1>5, <1>6, Zenon

LEMMA NumFacts ==
  ASSUME NEW s, Good(s)
  PROVE  /\ Num(s) \in Nat /\ Num(s) <= Firm(s) + Fading(s)
         /\ Firm(s) <= Num(s)
         /\ Fading(s) = 0 => Num(s) = Firm(s)
<1>1. CASE s = <<>>
  BY <1>1, GoodEmpty
<1>2. CASE s # <<>>
  <2>1. /\ Head(s).num \in Nat /\ Head(s).dying \in BOOLEAN /\ Num(s) = Head(s).num
        /\ Fading(Tail(s)) \in Nat
        /\ Firm(s) = IF Head(s).dying THEN 0 ELSE Num(s)
        /\ Fading(s) = IF Head(s).dying THEN Num(s) + Fading(Tail(s)) ELSE Fading(Tail(s))
    BY <1>2, HeadCoins
  <2> QED BY <2>1
<1> QED BY <1>1, <1>2

LEMMA SetHeapSizeFacts ==
  ASSUME NEW s, Good(s), s # <<>>, NEW n \in Nat
  PROVE  /\ Good(SetHeapSize(s, n))
         /\ Firm(SetHeapSize(s, n)) = IF Head(s).dying \/ n = 0 THEN 0 ELSE n
         /\ Fading(SetHeapSize(s, n)) = IF Head(s).dying \/ n = 0 THEN n + Fading(Tail(s))
                                        ELSE Fading(Tail(s))
<1>1. PICK d \in BOOLEAN : d = (Head(s).dying \/ n = 0)
  OBVIOUS
<1>2. PICK h : h = [num |-> n, dying |-> d]
  OBVIOUS
<1>3. PICK t : t = Tail(s)
  OBVIOUS
<1>4. h \in Heap /\ h.num = n /\ h.dying = d
  BY <1>2 DEF Heap
<1>5. h.num = 0 => h.dying
  BY <1>1, <1>4
<1>6. Passing(t)
  BY <1>3, GoodIsCons
<1>7. SetHeapSize(s, n) = <<h>> \o t
  BY <1>1, <1>2, <1>3, Zenon DEF SetHeapSize
<1>8. /\ Good(<<h>> \o t)
      /\ Firm(<<h>> \o t) = IF h.dying THEN 0 ELSE h.num
      /\ Fading(<<h>> \o t) = IF h.dying THEN h.num + Fading(t) ELSE Fading(t)
  BY <1>4, <1>5, <1>6, GoodCons, Zenon
<1> QED BY <1>1, <1>3, <1>4, <1>7, <1>8, Zenon

\* Coins that leave are gone, and none of those that stay is put at risk.
LEMMA LeaveFacts ==
  ASSUME NEW s, Good(s), NEW n \in Nat, n <= Num(s)
  PROVE  /\ Good(Leave(s, n)) /\ Fading(Leave(s, n)) <= Fading(s)
         /\ Firm(Leave(s, n)) + Fading(Leave(s, n)) + n = Firm(s) + Fading(s)
<1>1. CASE n = 0
  <2>1. Leave(s, n) = s
    BY <1>1 DEF Leave
  <2>2. Firm(s) \in Nat /\ Fading(s) \in Nat
    BY GoodCoins DEF Firm, Fading
  <2> QED BY <1>1, <2>1, <2>2
<1>2. CASE n # 0
  <2>1. s # <<>> /\ Num(s) \in Nat
    BY <1>2, NumFacts, GoodEmpty
  <2>2. /\ Head(s).dying \in BOOLEAN /\ Fading(Tail(s)) \in Nat
        /\ Firm(s) = IF Head(s).dying THEN 0 ELSE Num(s)
        /\ Fading(s) = IF Head(s).dying THEN Num(s) + Fading(Tail(s)) ELSE Fading(Tail(s))
    BY <2>1, HeadCoins
  <2>3. CASE n < Num(s)
    <3>1. PICK m \in Nat : m = Num(s) - n /\ m # 0
      BY <2>1, <2>3
    <3>2. Leave(s, n) = SetHeapSize(s, m)
      BY <1>2, <2>3, <3>1 DEF Leave
    <3>3. /\ Good(SetHeapSize(s, m))
          /\ Firm(SetHeapSize(s, m)) = IF Head(s).dying \/ m = 0 THEN 0 ELSE m
          /\ Fading(SetHeapSize(s, m)) = IF Head(s).dying \/ m = 0 THEN m + Fading(Tail(s))
                                         ELSE Fading(Tail(s))
      BY <2>1, SetHeapSizeFacts
    <3> QED BY <2>1, <2>2, <3>1, <3>2, <3>3
  <2>4. CASE n = Num(s)
    <3>1. Leave(s, n) = Tail(s)
      BY <1>2, <2>1, <2>4 DEF Leave
    <3>2. Passing(Tail(s))
      BY <2>1, GoodIsCons
    <3>3. Good(Tail(s)) /\ Firm(Tail(s)) = 0
      BY <3>2, PassingFacts
    <3> QED BY <2>1, <2>2, <2>4, <3>1, <3>3
  <2> QED BY <2>1, <2>3, <2>4
<1> QED BY <1>1, <1>2

\* Coins that arrive last.
LEMMA ArriveFacts ==
  ASSUME NEW s, Good(s), NEW n \in Nat
  PROVE  /\ Good(Arrive(s, n)) /\ Firm(Arrive(s, n)) = Firm(s) + n
         /\ Fading(Arrive(s, n)) = Fading(s)
<1>1. Firm(s) \in Nat /\ Fading(s) \in Nat
  BY GoodCoins DEF Firm, Fading
<1>2. CASE n = 0
  <2>1. Arrive(s, n) = s
    BY <1>2 DEF Arrive
  <2> QED BY <1>1, <1>2, <2>1
<1>3. ASSUME n # 0, NEW j \in DOMAIN s, ~s[j].dying
      PROVE  /\ Good(Arrive(s, n)) /\ Firm(Arrive(s, n)) = Firm(s) + n
             /\ Fading(Arrive(s, n)) = Fading(s)
  <2>1. s # <<>> /\ j = 1
    BY <1>3 DEF Good
  <2>2. PICK t : t = Tail(s)
    OBVIOUS
  <2>3. PICK h : h = [Head(s) EXCEPT !.num = @ + n]
    OBVIOUS
  <2>4. /\ Head(s) \in Heap /\ Passing(t) /\ s = <<Head(s)>> \o t
        /\ Head(s) = s[1] /\ Len(s) \in Nat \ {0} /\ DOMAIN s = 1 .. Len(s)
    BY <2>1, <2>2, GoodIsCons, Zenon
  <2>5. h \in Heap /\ h.num = Head(s).num + n /\ h.dying = Head(s).dying /\ h.num # 0
    <3>1. PICK o \in Heap : o = Head(s)
      BY <2>4
    <3>2. h = [o EXCEPT !.num = @ + n] /\ o.num \in Nat
      BY <2>3, <3>1 DEF Heap
    <3>3. h \in Heap /\ h.num = o.num + n /\ h.dying = o.dying /\ h.num # 0
      BY <1>3, <3>2 DEF Heap
    <3> QED BY <3>1, <3>3, Zenon
  <2>6. ~h.dying
    BY <1>3, <2>1, <2>4, <2>5
  <2>7. Consed(s, Head(s), t)
    <3>1. t \in Seq(Heap)
      BY <2>4 DEF Passing
    <3>2. Consed(<<Head(s)>> \o t, Head(s), t)
      BY <2>4, <3>1, Cons
    <3> QED BY <2>4, <3>2, Zenon
  <2>8. PICK r : r = <<h>> \o t
    OBVIOUS
  <2>9. Consed(r, h, t)
    <3>1. t \in Seq(Heap)
      BY <2>4 DEF Passing
    <3> QED BY <2>5, <2>8, <3>1, Cons, Zenon
  <2>10. Arrive(s, n) = r
    <3>1. Arrive(s, n) = [i \in DOMAIN s |-> IF s[i].dying THEN s[i] ELSE [s[i] EXCEPT !.num = @ + n]]
      BY <1>3, Zenon DEF Arrive
    <3>2. DOMAIN s = 1 .. Len(t) + 1 /\ DOMAIN r = 1 .. Len(t) + 1 /\ Len(t) \in Nat
      BY <2>7, <2>9 DEF Consed
    <3>3. ASSUME NEW i \in DOMAIN s
          PROVE  r[i] = IF s[i].dying THEN s[i] ELSE [s[i] EXCEPT !.num = @ + n]
      <4>1. CASE i = 1
        <5>1. r[1] = h /\ s[1] = Head(s) /\ ~s[1].dying
          BY <1>3, <2>1, <2>4, <2>9 DEF Consed
        <5> QED BY <2>3, <4>1, <5>1
      <4>2. CASE i # 1
        <5>1. i - 1 \in 1 .. Len(t) /\ (i - 1) + 1 = i
          BY <3>2, <4>2
        <5>2. r[(i - 1) + 1] = t[i - 1] /\ s[(i - 1) + 1] = t[i - 1]
          BY <2>7, <2>9, <5>1 DEF Consed
        <5>3. s[i].dying
          BY <4>2 DEF Good
        <5> QED BY <5>1, <5>2, <5>3
      <4> QED BY <4>1, <4>2
    <3>4. r = [i \in 1 .. Len(t) + 1 |-> r[i]]
      <4>1. r \in Seq(Heap)
        BY <2>9 DEF Consed
      <4>2. r \in [1 .. Len(r) -> Heap] /\ Len(r) = Len(t) + 1
        BY <2>9, <4>1, LenProperties DEF Consed
      <4> QED BY <4>2
    <3> QED BY <3>1, <3>2, <3>3, <3>4
  <2>11. /\ Good(r) /\ Firm(r) = IF h.dying THEN 0 ELSE h.num
         /\ Fading(r) = IF h.dying THEN h.num + Fading(t) ELSE Fading(t)
    BY <2>4, <2>5, <2>8, GoodCons, Zenon
  <2>12. /\ Head(s).num \in Nat /\ Num(s) = Head(s).num
         /\ Firm(s) = (IF Head(s).dying THEN 0 ELSE Num(s))
         /\ Fading(s) = IF Head(s).dying THEN Num(s) + Fading(t) ELSE Fading(t)
    BY <2>1, <2>2, HeadCoins, Zenon
  <2>13. Firm(r) = h.num /\ Fading(r) = Fading(t) /\ Firm(s) = Num(s) /\ Fading(s) = Fading(t)
    BY <2>5, <2>6, <2>11, <2>12, Zenon
  <2> QED BY <2>5, <2>10, <2>11, <2>12, <2>13, Zenon
<1>4. ASSUME n # 0, \A j \in DOMAIN s : s[j].dying
      PROVE  /\ Good(Arrive(s, n)) /\ Firm(Arrive(s, n)) = Firm(s) + n
             /\ Fading(Arrive(s, n)) = Fading(s)
  <2>1. PICK h : h = [num |-> n, dying |-> FALSE]
    OBVIOUS
  <2>2. h \in Heap /\ h.num = n /\ h.dying = FALSE
    BY <2>1 DEF Heap
  <2>3. Passing(s)
    BY <1>4 DEF Passing, Good
  <2>4. Arrive(s, n) = <<h>> \o s
    BY <1>4, <2>1, Zenon DEF Arrive
  <2>5. h.num = 0 => h.dying
    BY <1>4, <2>2
  <2>6. /\ Good(<<h>> \o s) /\ Firm(<<h>> \o s) = IF h.dying THEN 0 ELSE h.num
        /\ Fading(<<h>> \o s) = IF h.dying THEN h.num + Fading(s) ELSE Fading(s)
    BY <2>2, <2>3, <2>5, GoodCons, Zenon
  <2>7. Firm(<<h>> \o s) = n /\ Fading(<<h>> \o s) = Fading(s) /\ Firm(s) = 0
    BY <2>2, <2>3, <2>6, PassingFacts, Zenon
  <2>8. Firm(s) + n = n
    BY <2>7
  <2> QED BY <2>4, <2>6, <2>7, <2>8, Zenon
<1> QED BY <1>2, <1>3, <1>4

\* g keeps the lasting heaps among the first n of s.
Keeping(g, s, n) ==
  g = [i \in 0 .. n |-> IF i = 0 THEN <<>>
                        ELSE IF s[i].dying THEN g[i - 1] ELSE Append(g[i - 1], s[i])]

LEMMA KeepingExists ==
  ASSUME NEW s, NEW n \in Nat
  PROVE  \E g : Keeping(g, s, n)
<1> DEFINE X == {m \in 0 .. n : \E g : Keeping(g, s, m)}
<1>1. 0 \in X
  <2>1. 0 .. 0 = {0} /\ 0 \in 0 .. n
    OBVIOUS
  <2>2. Keeping([i \in {0} |-> <<>>], s, 0)
    BY <2>1 DEF Keeping
  <2> QED BY <2>1, <2>2
<1>2. ASSUME NEW m \in 1 .. n, m - 1 \in X PROVE m \in X
  <2>1. PICK g : Keeping(g, s, m - 1)
    BY <1>2
  <2> DEFINE h == [i \in 0 .. m |-> IF i = 0 THEN <<>>
                                    ELSE IF s[i].dying THEN g[i - 1] ELSE Append(g[i - 1], s[i])]
  <2>2. \A i \in 0 .. m - 1 : i \in 0 .. m
    OBVIOUS
  <2>3. \A i \in 0 .. m - 1 : g[i] = h[i]
    BY <2>1, <2>2 DEF Keeping
  <2>4. \A i \in 0 .. m : i = 0 \/ i - 1 \in 0 .. m - 1
    OBVIOUS
  <2>5. h = [i \in 0 .. m |-> IF i = 0 THEN <<>>
                              ELSE IF s[i].dying THEN h[i - 1] ELSE Append(h[i - 1], s[i])]
    BY <2>3, <2>4
  <2> HIDE DEF h
  <2>6. Keeping(h, s, m)
    BY <2>5 DEF Keeping
  <2> QED BY <2>6
<1>3. X = 0 .. n
  <2>1. X \in SUBSET (0 .. n)
    OBVIOUS
  <2> HIDE DEF X
  <2> QED BY <1>1, <1>2, <2>1, Upward
<1> QED BY <1>3

\* When the dying heaps are gone, the lasting coins are still there.
LEMMA LastingFacts ==
  ASSUME NEW s, Good(s)
  PROVE  Good(Lasting(s)) /\ Firm(Lasting(s)) = Firm(s) /\ Fading(Lasting(s)) = 0
<1> DEFINE g == CHOOSE f : Keeping(f, s, Len(s))
           K(i) == IF i = 0 \/ s[1].dying THEN <<>> ELSE <<s[1]>>
           X == {i \in 0 .. Len(s) : g[i] = K(i)}
<1>1. Len(s) \in Nat /\ DOMAIN s = 1 .. Len(s) /\ \A i \in DOMAIN s : s[i] \in Heap
  BY LenProperties, ElementOfSeq DEF Good
<1>2. Lasting(s) = g[Len(s)]
  BY DEF Lasting, Keeping
<1>3. Keeping(g, s, Len(s))
  BY <1>1, KeepingExists
<1> HIDE DEF g
<1>4. 0 \in X
  BY <1>1, <1>3 DEF Keeping
<1>5. ASSUME NEW i \in 1 .. Len(s), i - 1 \in X PROVE i \in X
  <2>1. /\ i \in 0 .. Len(s) /\ i # 0 /\ i \in DOMAIN s
        /\ g[i] = IF s[i].dying THEN g[i - 1] ELSE Append(g[i - 1], s[i])
    <3>1. i \in 0 .. Len(s) /\ i # 0 /\ i \in DOMAIN s
      BY <1>1
    <3> QED BY <1>3, <3>1, Zenon DEF Keeping
  <2>2. g[i - 1] = K(i - 1)
    BY <1>5
  <2>3. CASE s[i].dying
    <3>1. g[i] = g[i - 1]
      BY <2>1, <2>3
    <3>2. K(i - 1) = K(i)
      BY <1>1, <2>1, <2>3
    <3> QED BY <2>1, <2>2, <3>1, <3>2
  <2>4. CASE ~s[i].dying
    <3>1. i = 1
      BY <2>1, <2>4 DEF Good
    <3>2. g[i] = Append(<<>>, s[1])
      BY <2>1, <2>2, <2>4, <3>1
    <3>3. Append(<<>>, s[1]) = <<s[1]>>
      OBVIOUS
    <3>4. K(1) = <<s[1]>>
      BY <2>4, <3>1
    <3> QED BY <2>1, <3>1, <3>2, <3>3, <3>4
  <2> QED BY <2>3, <2>4
<1>6. X = 0 .. Len(s)
  <2>1. X \in SUBSET (0 .. Len(s))
    OBVIOUS
  <2> HIDE DEF X
  <2> QED BY <1>1, <1>4, <1>5, <2>1, Upward
<1>7. Lasting(s) = K(Len(s))
  <2>1. Len(s) \in X
    BY <1>1, <1>6
  <2> QED BY <1>2, <2>1
<1>8. CASE s = <<>>
  <2>1. Lasting(s) = <<>>
    BY <1>7, <1>8
  <2> QED BY <1>8, <2>1, GoodEmpty
<1>9. CASE s # <<>>
  <2>1. /\ Head(s) \in Heap /\ Head(s) = s[1] /\ Len(s) # 0
        /\ Head(s).num = 0 => Head(s).dying
    BY <1>9, GoodIsCons
  <2>2. Firm(s) = (IF Head(s).dying THEN 0 ELSE Num(s)) /\ Num(s) = Head(s).num
    BY <1>9, HeadCoins
  <2>3. CASE s[1].dying
    <3>1. Lasting(s) = <<>> /\ Firm(s) = 0
      BY <1>7, <2>1, <2>2, <2>3
    <3> QED BY <3>1, GoodEmpty
  <2>4. CASE ~s[1].dying
    <3>1. PICK h : h = s[1]
      OBVIOUS
    <3>2. h \in Heap /\ ~h.dying /\ (h.num = 0 => h.dying) /\ Firm(s) = h.num
      BY <2>1, <2>2, <2>4, <3>1, Zenon
    <3>3. Lasting(s) = <<h>>
      BY <1>7, <2>1, <2>4, <3>1
    <3>4. <<h>> = <<h>> \o <<>>
      OBVIOUS
    <3>5. Passing(<<>>)
      <4>1. <<>> \in Seq(Heap) /\ DOMAIN <<>> = {}
        OBVIOUS
      <4> QED BY <4>1 DEF Passing
    <3>6. /\ Good(<<h>> \o <<>>)
          /\ Firm(<<h>> \o <<>>) = IF h.dying THEN 0 ELSE h.num
          /\ Fading(<<h>> \o <<>>) = IF h.dying THEN h.num + Fading(<<>>) ELSE Fading(<<>>)
      BY <3>2, <3>5, GoodCons, Zenon
    <3> QED BY <3>2, <3>3, <3>4, <3>6, GoodEmpty, Zenon
  <2> QED BY <2>3, <2>4
<1> QED BY <1>8, <1>9

-----------------------------------------------------------------------------
(***************************************************************************)
(* A purse and what its owner has dropped.                                 *)
(***************************************************************************)
Fit(h) == h \in [Kinds -> Seq(Heap)] /\ \A k \in Kinds : Good(h[k])

Firmly(h) == [k \in Kinds |-> Firm(h[k])]
Risked(h) == [k \in Kinds |-> Fading(h[k])]

\* What is safe, and all there is.
Safe(h, fl) == Plus(Firmly(h), fl)
Whole(h, fl) == Plus(Safe(h, fl), Risked(h))

LEMMA MergeBalance ==
  ASSUME NEW a \in Coinage, NEW b \in Coinage, NEW c \in Coinage, NEW d \in Coinage,
         \A k \in Kinds : a[k] + b[k] = c[k] + d[k]
  PROVE  Merge(a) + Merge(b) = Merge(c) + Merge(d)
<1>1. Plus(a, b) = Plus(c, d)
  BY DEF Plus
<1> QED BY <1>1, MergePlus

LEMMA FitFacts ==
  ASSUME NEW h, Fit(h), NEW fl \in Coinage
  PROVE  /\ Firmly(h) \in Coinage /\ Risked(h) \in Coinage
         /\ Safe(h, fl) \in Coinage /\ Whole(h, fl) \in Coinage
         /\ WhatCoins(h) \in Coinage
         /\ Merge(Whole(h, fl)) = Merge(Safe(h, fl)) + Merge(Risked(h))
         /\ \A k \in Kinds : /\ Firmly(h)[k] = Firm(h[k]) /\ Risked(h)[k] = Fading(h[k])
                             /\ Safe(h, fl)[k] = Firm(h[k]) + fl[k]
                             /\ Whole(h, fl)[k] = Firm(h[k]) + fl[k] + Fading(h[k])
                             /\ WhatCoins(h)[k] = Num(h[k])
                             /\ Firm(h[k]) \in Nat /\ Fading(h[k]) \in Nat
                             /\ Num(h[k]) \in Nat /\ fl[k] \in Nat
<1>1. \A k \in Kinds : Firm(h[k]) \in Nat /\ Fading(h[k]) \in Nat /\ Num(h[k]) \in Nat
  BY GoodCoins, NumFacts DEF Fit
<1>2. Firmly(h) \in Coinage /\ Risked(h) \in Coinage /\ WhatCoins(h) \in Coinage
  BY <1>1 DEF Firmly, Risked, WhatCoins, Coinage
<1>3. Safe(h, fl) \in Coinage
  BY <1>2, MergePlus DEF Safe
<1>4. Whole(h, fl) \in Coinage /\ Merge(Whole(h, fl)) = Merge(Safe(h, fl)) + Merge(Risked(h))
  BY <1>2, <1>3, MergePlus DEF Whole
<1>5. \A k \in Kinds : /\ Firmly(h)[k] = Firm(h[k]) /\ Risked(h)[k] = Fading(h[k])
                       /\ WhatCoins(h)[k] = Num(h[k]) /\ fl[k] \in Nat
  BY DEF Firmly, Risked, WhatCoins, Coinage
<1>6. \A k \in Kinds : Safe(h, fl)[k] = Firm(h[k]) + fl[k]
  BY <1>5 DEF Safe, Plus
<1>7. \A k \in Kinds : Whole(h, fl)[k] = Firm(h[k]) + fl[k] + Fading(h[k])
  BY <1>5, <1>6 DEF Whole, Plus
<1> QED BY <1>1, <1>2, <1>3, <1>4, <1>5, <1>6, <1>7

\* Who sees coins has them.
LEMMA SeenFacts ==
  ASSUME NEW h, Fit(h), NEW fl \in Coinage, NEW ks
  PROVE  /\ Offered(h, ks) \in Coinage
         /\ \A k \in Kinds : Offered(h, ks)[k] <= Num(h[k])
         /\ Merge(Offered(h, ks)) <= Merge(WhatCoins(h))
         /\ Merge(WhatCoins(h)) <= Merge(Whole(h, fl))
<1>1. \A k \in Kinds : /\ WhatCoins(h)[k] = Num(h[k]) /\ Num(h[k]) \in Nat
                       /\ Whole(h, fl)[k] = Firm(h[k]) + fl[k] + Fading(h[k])
                       /\ Firm(h[k]) \in Nat /\ Fading(h[k]) \in Nat /\ fl[k] \in Nat
  BY FitFacts
<1>2. WhatCoins(h) \in Coinage /\ Whole(h, fl) \in Coinage
  BY FitFacts
<1>3. Offered(h, ks) \in Coinage /\ \A k \in Kinds : Offered(h, ks)[k] <= WhatCoins(h)[k]
  BY <1>1, <1>2 DEF Offered, Only, Coinage
<1>4. \A k \in Kinds : WhatCoins(h)[k] <= Whole(h, fl)[k]
  <2> TAKE k \in Kinds
  <2>1. Num(h[k]) <= Firm(h[k]) + Fading(h[k])
    BY NumFacts DEF Fit
  <2> QED BY <1>1, <2>1
<1> QED BY <1>1, <1>2, <1>3, <1>4, MergeAtMost

\* Coins paid are gone from the purse, and no others.
LEMMA SurrenderFacts ==
  ASSUME NEW h, Fit(h), NEW fl \in Coinage, NEW c \in Coinage,
         \A k \in Kinds : c[k] <= Num(h[k])
  PROVE  /\ Fit(Surrender(h, c))
         /\ Merge(Risked(Surrender(h, c))) <= Merge(Risked(h))
         /\ Merge(Whole(Surrender(h, c), fl)) + Merge(c) = Merge(Whole(h, fl))
<1>1. PICK r : r = Surrender(h, c)
  OBVIOUS
<1>2. ASSUME NEW k \in Kinds
      PROVE  /\ r[k] = Leave(h[k], c[k]) /\ Good(r[k]) /\ c[k] \in Nat
             /\ Fading(r[k]) <= Fading(h[k])
             /\ Firm(r[k]) + Fading(r[k]) + c[k] = Firm(h[k]) + Fading(h[k])
  <2>1. r[k] = Leave(h[k], c[k])
    BY <1>1 DEF Surrender
  <2>2. Good(h[k]) /\ c[k] \in Nat /\ c[k] <= Num(h[k])
    BY DEF Fit, Coinage
  <2> QED BY <2>1, <2>2, LeaveFacts
<1>3. Fit(r)
  <2>1. r = [k \in Kinds |-> r[k]]
    BY <1>1 DEF Surrender
  <2> QED BY <1>2, <2>1 DEF Fit, Good
<1>4. Nothing \in Coinage /\ Merge(Nothing) = 0 /\ \A k \in Kinds : Nothing[k] = 0
  BY MergeNothing DEF Nothing
<1>5. Whole(h, fl) \in Coinage /\ Whole(r, fl) \in Coinage
  BY <1>3, FitFacts
<1>6. Risked(h) \in Coinage /\ Risked(r) \in Coinage
  BY <1>3, FitFacts
<1>7. ASSUME NEW k \in Kinds
      PROVE  /\ Whole(r, fl)[k] + c[k] = Whole(h, fl)[k] + Nothing[k]
             /\ Risked(r)[k] <= Risked(h)[k]
  <2>1. /\ Whole(r, fl)[k] = Firm(r[k]) + fl[k] + Fading(r[k])
        /\ Risked(r)[k] = Fading(r[k]) /\ Firm(r[k]) \in Nat /\ Fading(r[k]) \in Nat
    BY <1>3, FitFacts
  <2>2. /\ Whole(h, fl)[k] = Firm(h[k]) + fl[k] + Fading(h[k])
        /\ Risked(h)[k] = Fading(h[k]) /\ Firm(h[k]) \in Nat /\ Fading(h[k]) \in Nat
        /\ fl[k] \in Nat
    BY FitFacts
  <2> QED BY <1>2, <1>4, <2>1, <2>2
<1>8. Merge(Whole(r, fl)) + Merge(c) = Merge(Whole(h, fl)) + Merge(Nothing)
  BY <1>4, <1>5, <1>7, MergeBalance
<1>9. Merge(Risked(r)) <= Merge(Risked(h))
  BY <1>6, <1>7, MergeAtMost
<1>10. Merge(Whole(h, fl)) \in Nat
  BY <1>5, MergeNat
<1> QED BY <1>1, <1>3, <1>4, <1>8, <1>9, <1>10

\* Coins received are safe, in the purse or on the ground.
LEMMA ReceiveFacts ==
  ASSUME NEW h, Fit(h), NEW fl \in Coinage, NEW c \in Coinage, NEW heavy
  PROVE  /\ Fit(Receive(h, c, heavy)) /\ Spill(fl, c, heavy) \in Coinage
         /\ Merge(Risked(Receive(h, c, heavy))) = Merge(Risked(h))
         /\ Merge(Safe(Receive(h, c, heavy), Spill(fl, c, heavy)))
              = Merge(Safe(h, fl)) + Merge(c)
         /\ Merge(Whole(Receive(h, c, heavy), Spill(fl, c, heavy)))
              = Merge(Whole(h, fl)) + Merge(c)
<1>1. PICK r : r = Receive(h, c, heavy)
  OBVIOUS
<1>2. PICK f : f = Spill(fl, c, heavy)
  OBVIOUS
<1>3. ASSUME NEW k \in Kinds
      PROVE  /\ Good(r[k]) /\ c[k] \in Nat /\ fl[k] \in Nat
             /\ Fading(r[k]) = Fading(h[k])
             /\ f[k] \in Nat /\ Firm(r[k]) + f[k] = Firm(h[k]) + fl[k] + c[k]
  <2>1. r[k] = IF k \in heavy THEN h[k] ELSE Arrive(h[k], c[k])
    BY <1>1 DEF Receive
  <2>2. f[k] = fl[k] + (IF k \in heavy THEN c[k] ELSE 0)
    BY <1>2 DEF Spill, Plus, Only
  <2>3. Good(h[k]) /\ c[k] \in Nat /\ fl[k] \in Nat
    BY DEF Fit, Coinage
  <2>4. Firm(h[k]) \in Nat
    BY <2>3, GoodCoins
  <2>5. CASE k \in heavy
    BY <2>1, <2>2, <2>3, <2>4, <2>5
  <2>6. CASE k \notin heavy
    <3>1. Good(Arrive(h[k], c[k])) /\ Firm(Arrive(h[k], c[k])) = Firm(h[k]) + c[k]
          /\ Fading(Arrive(h[k], c[k])) = Fading(h[k])
      BY <2>3, ArriveFacts
    <3> QED BY <2>1, <2>2, <2>3, <2>4, <2>6, <3>1
  <2> QED BY <2>5, <2>6
<1>4. Fit(r)
  <2>1. r = [k \in Kinds |-> r[k]]
    BY <1>1 DEF Receive
  <2> QED BY <1>3, <2>1 DEF Fit, Good
<1>5. f \in Coinage
  <2>1. f = [k \in Kinds |-> f[k]]
    BY <1>2 DEF Spill, Plus
  <2> QED BY <1>3, <2>1 DEF Coinage
<1>6. /\ Safe(h, fl) \in Coinage /\ Safe(r, f) \in Coinage
      /\ Merge(Whole(h, fl)) = Merge(Safe(h, fl)) + Merge(Risked(h))
      /\ Merge(Whole(r, f)) = Merge(Safe(r, f)) + Merge(Risked(r))
      /\ Risked(h) \in Coinage /\ Risked(r) \in Coinage
  BY <1>4, <1>5, FitFacts
<1>7. Risked(r) = Risked(h)
  BY <1>3 DEF Risked
<1>8. Nothing \in Coinage /\ Merge(Nothing) = 0 /\ \A k \in Kinds : Nothing[k] = 0
  BY MergeNothing DEF Nothing
<1>9. ASSUME NEW k \in Kinds
      PROVE  Safe(r, f)[k] + Nothing[k] = Safe(h, fl)[k] + c[k]
  <2>1. Safe(r, f)[k] = Firm(r[k]) + f[k] /\ Firm(r[k]) \in Nat
    BY <1>4, <1>5, FitFacts
  <2>2. Safe(h, fl)[k] = Firm(h[k]) + fl[k] /\ Firm(h[k]) \in Nat
    BY FitFacts
  <2> QED BY <1>3, <1>8, <2>1, <2>2
<1>10. Merge(Safe(r, f)) + Merge(Nothing) = Merge(Safe(h, fl)) + Merge(c)
  BY <1>6, <1>8, <1>9, MergeBalance
<1>11. Merge(Safe(r, f)) \in Nat /\ Merge(Safe(h, fl)) \in Nat /\ Merge(c) \in Nat
       /\ Merge(Risked(h)) \in Nat
  BY <1>6, MergeNat
<1>12. Merge(Safe(r, f)) = Merge(Safe(h, fl)) + Merge(c)
  BY <1>8, <1>10, <1>11
<1>13. Merge(Whole(r, f)) = Merge(Whole(h, fl)) + Merge(c)
  BY <1>6, <1>7, <1>11, <1>12
<1> QED BY <1>1, <1>2, <1>4, <1>5, <1>7, <1>12, <1>13

\* Heaps get new sizes, and what has no heap is made: all that is seen is replaced.
LEMMA KeepFacts ==
  ASSUME NEW h, Fit(h), NEW fl \in Coinage, NEW c \in Coinage, NEW heavy, NEW fallen,
         fallen = Made(h, c) \cap heavy
  PROVE  /\ Fit(Keep(h, c, heavy)) /\ Spill(fl, c, fallen) \in Coinage
         /\ Merge(Whole(Keep(h, c, heavy), Spill(fl, c, fallen))) + Merge(WhatCoins(h))
              = Merge(Whole(h, fl)) + Merge(c)
<1>1. PICK r : r = Keep(h, c, heavy)
  OBVIOUS
<1>2. PICK f : f = Spill(fl, c, fallen)
  OBVIOUS
<1>3. ASSUME NEW k \in Kinds
      PROVE  /\ Good(r[k]) /\ Good(h[k]) /\ c[k] \in Nat /\ fl[k] \in Nat /\ f[k] \in Nat
             /\ Firm(r[k]) + f[k] + Fading(r[k]) + Num(h[k])
                  = Firm(h[k]) + fl[k] + Fading(h[k]) + c[k]
  <2>1. r[k] = IF h[k] # <<>> THEN SetHeapSize(h[k], c[k])
               ELSE IF k \in heavy THEN <<>> ELSE Arrive(<<>>, c[k])
    BY <1>1 DEF Keep
  <2>2. f[k] = fl[k] + (IF k \in fallen THEN c[k] ELSE 0)
    BY <1>2 DEF Spill, Plus, Only
  <2>3. Good(h[k]) /\ c[k] \in Nat /\ fl[k] \in Nat
    BY DEF Fit, Coinage
  <2>4. k \in fallen <=> h[k] = <<>> /\ k \in heavy /\ c[k] > 0
    BY DEF Made, Some
  <2>5. CASE h[k] # <<>>
    <3>1. /\ Good(r[k])
          /\ Firm(r[k]) = IF Head(h[k]).dying \/ c[k] = 0 THEN 0 ELSE c[k]
          /\ Fading(r[k]) = IF Head(h[k]).dying \/ c[k] = 0 THEN c[k] + Fading(Tail(h[k]))
                            ELSE Fading(Tail(h[k]))
      BY <2>1, <2>3, <2>5, SetHeapSizeFacts
    <3>2. /\ Num(h[k]) \in Nat /\ Fading(Tail(h[k])) \in Nat
          /\ Firm(h[k]) = IF Head(h[k]).dying THEN 0 ELSE Num(h[k])
          /\ Fading(h[k]) = IF Head(h[k]).dying THEN Num(h[k]) + Fading(Tail(h[k]))
                            ELSE Fading(Tail(h[k]))
      BY <2>3, <2>5, HeadCoins
    <3>3. f[k] = fl[k]
      BY <2>2, <2>3, <2>4, <2>5
    <3>4. Firm(r[k]) + Fading(r[k]) = c[k] + Fading(Tail(h[k])) /\ Firm(r[k]) \in Nat
          /\ Fading(r[k]) \in Nat
      BY <2>3, <3>1, <3>2
    <3>5. Firm(h[k]) + Fading(h[k]) = Num(h[k]) + Fading(Tail(h[k])) /\ Firm(h[k]) \in Nat
          /\ Fading(h[k]) \in Nat
      BY <3>2
    <3>6. Firm(r[k]) + f[k] + Fading(r[k]) + Num(h[k]) = Firm(h[k]) + fl[k] + Fading(h[k]) + c[k]
      BY <2>3, <3>2, <3>3, <3>4, <3>5
    <3> QED BY <2>3, <3>1, <3>3, <3>6
  <2>6. CASE h[k] = <<>> /\ k \in heavy
    <3>1. r[k] = <<>> /\ f[k] = fl[k] + c[k]
      BY <2>1, <2>2, <2>3, <2>4, <2>6
    <3> QED BY <2>3, <2>6, <3>1, GoodEmpty
  <2>7. CASE h[k] = <<>> /\ k \notin heavy
    <3>1. r[k] = Arrive(<<>>, c[k]) /\ f[k] = fl[k]
      BY <2>1, <2>2, <2>3, <2>4, <2>7
    <3>2. /\ Good(Arrive(<<>>, c[k])) /\ Firm(Arrive(<<>>, c[k])) = Firm(<<>>) + c[k]
          /\ Fading(Arrive(<<>>, c[k])) = Fading(<<>>)
      BY <2>3, GoodEmpty, ArriveFacts
    <3> QED BY <2>3, <2>7, <3>1, <3>2, GoodEmpty
  <2> QED BY <2>5, <2>6, <2>7
<1>4. Fit(r)
  <2>1. r = [k \in Kinds |-> r[k]]
    BY <1>1 DEF Keep
  <2> QED BY <1>3, <2>1 DEF Fit, Good
<1>5. f \in Coinage
  <2>1. f = [k \in Kinds |-> f[k]]
    BY <1>2 DEF Spill, Plus
  <2> QED BY <1>3, <2>1 DEF Coinage
<1>6. Whole(h, fl) \in Coinage /\ Whole(r, f) \in Coinage /\ WhatCoins(h) \in Coinage
  BY <1>4, <1>5, FitFacts
<1>7. ASSUME NEW k \in Kinds
      PROVE  Whole(r, f)[k] + WhatCoins(h)[k] = Whole(h, fl)[k] + c[k]
  <2>1. Whole(r, f)[k] = Firm(r[k]) + f[k] + Fading(r[k])
    BY <1>4, <1>5, FitFacts
  <2>2. Whole(h, fl)[k] = Firm(h[k]) + fl[k] + Fading(h[k]) /\ WhatCoins(h)[k] = Num(h[k])
    BY FitFacts
  <2> QED BY <1>3, <2>1, <2>2
<1>8. Merge(Whole(r, f)) + Merge(WhatCoins(h)) = Merge(Whole(h, fl)) + Merge(c)
  BY <1>6, <1>7, MergeBalance
<1> QED BY <1>1, <1>2, <1>4, <1>5, <1>8

LEMMA SweptFacts ==
  ASSUME NEW h, Fit(h), NEW fl \in Coinage
  PROVE  LET r == [k \in Kinds |-> Lasting(h[k])]
         IN  Fit(r) /\ Merge(Safe(r, fl)) = Merge(Safe(h, fl)) /\ Merge(Risked(r)) = 0
<1>1. PICK r : r = [k \in Kinds |-> Lasting(h[k])]
  OBVIOUS
<1>2. \A k \in Kinds : Good(r[k]) /\ Firm(r[k]) = Firm(h[k]) /\ Fading(r[k]) = 0
  BY <1>1, LastingFacts DEF Fit
<1>3. Fit(r)
  BY <1>1, <1>2 DEF Fit, Good
<1>4. Safe(r, fl) = Safe(h, fl)
  BY <1>2 DEF Safe, Firmly, Plus
<1>5. Risked(r) = Nothing
  BY <1>2 DEF Risked, Nothing
<1> QED BY <1>1, <1>3, <1>4, <1>5, MergeNothing

-----------------------------------------------------------------------------
(***************************************************************************)
(* The parts of the commands.                                              *)
(***************************************************************************)
\* A hundredth part of d, or more, for every hundredth.
LEMMA Percent ==
  ASSUME NEW x \in Nat, NEW d \in Nat, d >= 100
  PROVE  /\ (x * 100) \div d \in Nat /\ (x * 100) \div d <= x
         /\ d * ((x * 100) \div d) <= x * 100
         /\ d = 100 => (x * 100) \div d = x
<1>1. PICK q : q = (x * 100) \div d
  OBVIOUS
<1>2. PICK r : r = (x * 100) % d
  OBVIOUS
<1>3. x * 100 \in Nat
  OBVIOUS
<1>4. q \in Nat /\ r \in Nat /\ r < d /\ x * 100 = q * d + r
  BY <1>1, <1>2, <1>3, DivMod
<1>5. q * 100 <= q * d /\ q * d \in Nat /\ d * q = q * d
  <2>1. 100 * q <= d * q
    BY <1>4, MulMono
  <2>2. 100 * q = q * 100 /\ d * q = q * d /\ q * d \in Nat
    BY <1>4
  <2> QED BY <2>1, <2>2
<1>6. PICK y : y = q * d
  OBVIOUS
<1>7. q <= x /\ d * q <= x * 100
  BY <1>4, <1>5, <1>6
<1>8. ASSUME d = 100 PROVE q = x
  BY <1>3, <1>4, <1>8
<1> QED BY <1>1, <1>4, <1>7, <1>8, Zenon

Changing(terms) == terms \in Terms /\ terms.change >= 100

\* Somebody who pays at least what is asked has it back, of which no more is kept
\* than the price, if everything may be given.
Complete(terms) ==
  /\ terms.change = 100 /\ terms.reduce[1] = 0 /\ terms.max >= Value[Last]
  /\ terms.out[1] >= terms.max

LEMMA PayFacts ==
  ASSUME NEW h, Fit(h), NEW fl \in Coinage, NEW price \in Nat, NEW ks, NEW top,
         NEW terms, Changing(terms), CanPay(price, h, ks), NEW c, c = PayCoins(price, h, ks)
  PROVE  /\ Fit(Surrender(h, c)) /\ PayChange(price, h, ks, terms, top) \in Coinage
         /\ Merge(Risked(Surrender(h, c))) <= Merge(Risked(h))
         /\ Merge(Whole(Surrender(h, c), fl)) + Merge(c) = Merge(Whole(h, fl))
         /\ Merge(c) \in Nat
         /\ Merge(PayChange(price, h, ks, terms, top)) + price <= Merge(c)
         /\ Merge(c) < price + Value[Last]
         /\ Complete(terms) /\ top \in Kinds
              => Merge(PayChange(price, h, ks, terms, top)) + price = Merge(c)
<1>1. /\ Offered(h, ks) \in Coinage
      /\ \A k \in Kinds : Offered(h, ks)[k] <= Num(h[k])
  BY SeenFacts
<1>2. price <= Merge(Offered(h, ks))
  BY DEF CanPay
<1>3. /\ c \in Coinage /\ \A k \in Kinds : c[k] <= Offered(h, ks)[k]
      /\ price <= Merge(c) /\ Merge(c) < price + Value[Last]
  BY <1>1, <1>2, CalcCoinsFacts DEF PayCoins
<1>4. \A k \in Kinds : c[k] <= Num(h[k])
  <2> TAKE k \in Kinds
  <2>1. c[k] \in Nat /\ Offered(h, ks)[k] \in Nat /\ Num(h[k]) \in Nat
    BY <1>1, <1>3, NumFacts DEF Coinage, Fit
  <2> QED BY <1>1, <1>3, <2>1
<1>5. /\ Fit(Surrender(h, c))
      /\ Merge(Risked(Surrender(h, c))) <= Merge(Risked(h))
      /\ Merge(Whole(Surrender(h, c), fl)) + Merge(c) = Merge(Whole(h, fl))
  BY <1>3, <1>4, SurrenderFacts
<1>6. PICK rest \in Nat : rest = Merge(c) - price /\ rest < Value[Last]
  <2>1. Merge(c) \in Nat /\ Value[Last] \in Nat
    <3>1. Last \in Kinds
      BY ValueFacts DEF Minted
    <3> QED BY <1>3, <3>1, MergeNat, ValueFacts DEF Minted
  <2>2. Merge(c) - price \in Nat /\ Merge(c) - price < Value[Last]
    BY <1>3, <2>1
  <2> QED BY <2>2
<1>7. PICK x : x = (rest * 100) \div terms.change
  OBVIOUS
<1>8. x \in Nat /\ x <= rest /\ (terms.change = 100 => x = rest)
  <2>1. terms.change \in Nat /\ terms.change >= 100
    BY DEF Changing, Terms
  <2> QED BY <1>7, <2>1, Percent
<1>9. PayChange(price, h, ks, terms, top) = CalcChange(x, terms, top)
  BY <1>6, <1>7, Zenon DEF PayChange
<1>10. /\ CalcChange(x, terms, top) \in Coinage
       /\ Merge(CalcChange(x, terms, top)) <= x
       /\ top \in Kinds /\ terms.reduce[1] = 0 /\ terms.out[1] >= terms.max /\ x <= terms.max
            => Merge(CalcChange(x, terms, top)) = x
  <2>1. terms \in Terms
    BY DEF Changing
  <2>2. x \in Int
    BY <1>8
  <2> QED BY <1>8, <2>1, <2>2, CalcChangeFacts
<1>11. Merge(CalcChange(x, terms, top)) \in Nat /\ Merge(c) \in Nat
  BY <1>3, <1>10, MergeNat
<1>12. Merge(CalcChange(x, terms, top)) + price <= Merge(c)
  BY <1>6, <1>8, <1>10, <1>11
<1>13. ASSUME Complete(terms), top \in Kinds
       PROVE  Merge(CalcChange(x, terms, top)) + price = Merge(c)
  <2>1. terms.max \in Nat /\ Value[Last] \in Nat
    <3>1. Last \in Kinds
      BY ValueFacts DEF Minted
    <3> QED BY <3>1, ValueFacts DEF Minted, Changing, Terms
  <2>2. x = rest /\ x <= terms.max
    BY <1>6, <1>8, <1>13, <2>1 DEF Complete
  <2>3. Merge(CalcChange(x, terms, top)) = x
    BY <1>10, <1>13, <2>2 DEF Complete
  <2> QED BY <1>6, <1>11, <2>2, <2>3
<1> QED BY <1>3, <1>5, <1>9, <1>10, <1>11, <1>12, <1>13

\* The takings for goods are worth at most their prices.
LEMMA TakingsFacts ==
  ASSUME NEW sold \in SUBSET Items, NEW top
  PROVE  /\ Takings(sold, top) \in Coinage
         /\ Merge(Takings(sold, top)) <= SumFunctionOnSet(SellPrice, sold)
         /\ SumFunctionOnSet(SellPrice, sold) \in Nat
<1> DEFINE F(k) == [i \in sold |-> CalcChange(SellPrice[i], ShopTerms, top)[k]]
<1>1. IsFiniteSet(sold) /\ ShopTerms \in Terms
  BY TradeAssumption, FS_Subset
<1>2. \A i \in sold : /\ SellPrice[i] \in Nat /\ SellPrice[i] \in Int
                      /\ CalcChange(SellPrice[i], ShopTerms, top) \in Coinage
                      /\ Merge(CalcChange(SellPrice[i], ShopTerms, top)) <= SellPrice[i]
  <2> TAKE i \in sold
  <2>1. SellPrice[i] \in Nat /\ SellPrice[i] \in Int
    BY TradeAssumption
  <2> QED BY <1>1, <2>1, CalcChangeFacts
<1>3. ASSUME NEW S \in SUBSET sold
      PROVE  /\ IsFiniteSet(S) /\ S \in SUBSET Items
             /\ Natural(SellPrice, S) /\ Integral(SellPrice, S) /\ Sum(SellPrice, S) \in Nat
             /\ \A k \in Kinds : LET f == [i \in S |-> CalcChange(SellPrice[i], ShopTerms, top)[k]]
                                 IN  Natural(f, S) /\ Integral(f, S) /\ Sum(f, S) \in Nat
             /\ Takings(S, top) \in Coinage
  <2>1. IsFiniteSet(S) /\ S \in SUBSET Items
    BY <1>1, FS_Subset
  <2>2. Natural(SellPrice, S) /\ Integral(SellPrice, S)
    BY <1>2 DEF Natural, Integral
  <2>3. \A k \in Kinds : LET f == [i \in S |-> CalcChange(SellPrice[i], ShopTerms, top)[k]]
                         IN  Natural(f, S) /\ Integral(f, S)
    BY <1>2 DEF Natural, Integral, Coinage
  <2>4. \A k \in Kinds : LET f == [i \in S |-> CalcChange(SellPrice[i], ShopTerms, top)[k]]
                         IN  Sum(f, S) \in Nat
    BY <2>1, <2>3, SumNat
  <2>5. Takings(S, top) \in Coinage
    BY <2>4 DEF Takings, Sum, Coinage
  <2> QED BY <2>1, <2>2, <2>3, <2>4, <2>5, SumNat
<1> DEFINE X == {S \in SUBSET sold : ~(Merge(Takings(S, top)) <= Sum(SellPrice, S))}
<1>4. X = {}
  <2> SUFFICES ASSUME X # {} PROVE FALSE
    OBVIOUS
  <2>1. PICK S \in X : \A i \in S : S \ {i} \notin X
    <3>1. X \in SUBSET (SUBSET sold)
      OBVIOUS
    <3> HIDE DEF X
    <3> QED BY <1>1, <3>1, SmallestSet
  <2>2. S \in SUBSET sold /\ ~(Merge(Takings(S, top)) <= Sum(SellPrice, S))
    OBVIOUS
  <2>3. S # {}
    <3>1. ASSUME S = {} PROVE FALSE
      <4>1. Takings({}, top) = Nothing
        <5>1. \A k \in Kinds : Takings({}, top)[k] = 0
          BY SumEmpty DEF Takings, Sum
        <5> QED BY <5>1 DEF Takings, Nothing
      <4> QED BY <2>2, <3>1, <4>1, MergeNothing, SumEmpty
    <3> QED BY <3>1
  <2>4. PICK i \in S : TRUE
    BY <2>3
  <2>5. PICK R : R = S \ {i}
    OBVIOUS
  <2>6. R \in SUBSET sold /\ Merge(Takings(R, top)) <= Sum(SellPrice, R)
    BY <2>1, <2>2, <2>4, <2>5
  <2>7. PICK d : d = CalcChange(SellPrice[i], ShopTerms, top)
    OBVIOUS
  <2>8. d \in Coinage /\ Merge(d) <= SellPrice[i] /\ SellPrice[i] \in Nat
    BY <1>2, <2>2, <2>4, <2>7
  <2>9. Takings(S, top) = Plus(Takings(R, top), d)
    <3>1. ASSUME NEW k \in Kinds
          PROVE  Takings(S, top)[k] = Takings(R, top)[k] + d[k]
      <4>1. PICK f : f = [j \in S |-> CalcChange(SellPrice[j], ShopTerms, top)[k]]
        OBVIOUS
      <4>2. PICK g : g = [j \in R |-> CalcChange(SellPrice[j], ShopTerms, top)[k]]
        OBVIOUS
      <4>3. Integral(f, S) /\ Integral(g, R) /\ IsFiniteSet(S) /\ IsFiniteSet(R)
            /\ Sum(g, R) \in Nat
        BY <1>3, <2>2, <2>6, <4>1, <4>2
      <4>4. Sum(f, S) = f[i] + Sum(f, S \ {i})
        BY <2>4, <4>3, SumWithout
      <4>5. Coincide(f, g, R)
        BY <2>5, <4>1, <4>2 DEF Coincide
      <4>6. Sum(f, R) = Sum(g, R)
        BY <4>3, <4>5, SumAgree
      <4>7. f[i] = d[k] /\ d[k] \in Nat
        BY <2>4, <2>7, <2>8, <4>1 DEF Coinage
      <4>8. Takings(S, top)[k] = Sum(f, S) /\ Takings(R, top)[k] = Sum(g, R)
        BY <4>1, <4>2, Zenon DEF Takings, Sum
      <4> QED BY <2>5, <4>3, <4>4, <4>6, <4>7, <4>8
    <3>2. Takings(S, top) = [k \in Kinds |-> Takings(S, top)[k]]
      BY DEF Takings
    <3> QED BY <3>1, <3>2, Zenon DEF Plus
  <2>10. Takings(R, top) \in Coinage /\ Sum(SellPrice, R) \in Nat
    BY <1>3, <2>6
  <2>11. Merge(Takings(S, top)) = Merge(Takings(R, top)) + Merge(d)
    BY <2>8, <2>9, <2>10, MergePlus
  <2>12. Sum(SellPrice, S) = SellPrice[i] + Sum(SellPrice, R)
    <3>1. IsFiniteSet(S) /\ Integral(SellPrice, S)
      BY <1>3, <2>2
    <3> QED BY <2>4, <2>5, <3>1, SumWithout
  <2>13. Merge(Takings(R, top)) \in Nat /\ Merge(d) \in Nat
    BY <2>8, <2>10, MergeNat
  <2> HIDE DEF X
  <2> QED BY <2>2, <2>6, <2>8, <2>10, <2>11, <2>12, <2>13
<1>5. Merge(Takings(sold, top)) <= Sum(SellPrice, sold)
  BY <1>4
<1>6. Takings(sold, top) \in Coinage /\ Sum(SellPrice, sold) \in Nat
  BY <1>3
<1> QED BY <1>5, <1>6 DEF Sum

\* A sum and a fee on it.
LEMMA WithFee ==
  ASSUME NEW x \in Nat, NEW b \in Nat, b >= 100
  PROVE  /\ (x * b) \div 100 \in Nat /\ x <= (x * b) \div 100
         /\ ((x * b) \div 100) * 100 <= x * b
         /\ \A y \in Nat : x * b <= y * 100 => (x * b) \div 100 <= y
<1>1. PICK w : w = x * b
  OBVIOUS
<1>2. w \in Nat /\ x * 100 <= w
  <2>1. 100 * x <= b * x
    BY MulMono
  <2>2. b * x = w /\ 100 * x = x * 100 /\ w \in Nat
    BY <1>1
  <2> QED BY <2>1, <2>2
<1>3. PICK q : q = w \div 100
  OBVIOUS
<1>4. PICK r : r = w % 100
  OBVIOUS
<1>5. q \in Nat /\ r \in Nat /\ r < 100 /\ w = q * 100 + r
  BY <1>2, <1>3, <1>4, DivMod
<1>6. x <= q /\ q * 100 <= w /\ \A y \in Nat : w <= y * 100 => q <= y
  BY <1>2, <1>5
<1> QED BY <1>1, <1>3, <1>5, <1>6, Zenon

LEMMA MinIn ==
  ASSUME NEW ks \in SUBSET Kinds, ks # {}
  PROVE  Min(ks) \in ks
<1>1. ks \in SUBSET Nat
  BY ValueFacts DEF Minted
<1>2. PICK m \in ks : \A n \in ks : m <= n
  BY <1>1, SmallestNumber
<1> QED BY <1>2 DEF Min

\* The sum that the bank is going to give, by what the customer has.
\* The customer has the price of it, which is no less than the sum.
LEMMA ChangeSumFacts ==
  ASSUME NEW all \in Coinage, NEW ks \in SUBSET Kinds, ks # {}, NEW k \in Kinds,
         NEW n \in Nat, NEW m \in Nat, n <= all[Min(ks)],
         m <= Most(Held(all, ks, n), k)
  PROVE  /\ ChangeSum(all, ks, n, k, m) \in Nat
         /\ ChangePrice(ChangeSum(all, ks, n, k, m)) \in Nat
         /\ ChangeSum(all, ks, n, k, m) <= ChangePrice(ChangeSum(all, ks, n, k, m))
         /\ ChangePrice(ChangeSum(all, ks, n, k, m)) <= Merge(all)
<1>1. PICK hold : hold = Held(all, ks, n)
  OBVIOUS
<1>2. PICK b : b = 100 + Fee
  OBVIOUS
<1>3. b \in Nat /\ b >= 100 /\ BankTerms \in Terms /\ BankTerms.buy = b /\ BankTerms.change = b
  BY <1>2, TradeAssumption
<1>4. hold \in Coinage /\ Merge(hold) \in Nat /\ Merge(hold) <= Merge(all) /\ Merge(all) \in Nat
  <2>1. Min(ks) \in Kinds
    BY MinIn
  <2>2. hold \in Coinage
    BY <1>1, <2>1 DEF Coinage, Held
  <2>3. \A j \in Kinds : all[j] \in Nat
    BY DEF Coinage
  <2>4. \A j \in Kinds : hold[j] <= all[j]
    BY <1>1, <2>3 DEF Coinage, Held
  <2> QED BY <2>2, <2>4, MergeAtMost, MergeNat
<1>5. PICK x : x = (Merge(hold) * 100) \div b
  OBVIOUS
<1>6. x \in Nat /\ b * x <= Merge(hold) * 100
  BY <1>3, <1>4, <1>5, Percent
<1>7. PICK most : most = CalcChange(x, BankTerms, k)[k]
  OBVIOUS
<1>8. PICK v : v = Value[k]
  OBVIOUS
<1>9. v \in Nat \ {0}
  BY <1>8, ValueFacts DEF Minted
<1>10. most \in Nat /\ most * v <= x
  <2>1. PICK d : d = CalcChange(x, BankTerms, k)
    OBVIOUS
  <2>2. x \in Int
    BY <1>6
  <2>3. d \in Coinage /\ Merge(d) <= x
    BY <1>3, <1>6, <2>1, <2>2, CalcChangeFacts
  <2>4. most \in Nat /\ most * v <= Merge(d)
    BY <1>7, <1>8, <2>1, <2>3, MergeTerm DEF Coinage
  <2>5. most * v \in Nat /\ Merge(d) \in Nat
    BY <1>9, <2>3, <2>4, MergeNat
  <2> QED BY <1>6, <2>3, <2>4, <2>5
<1>11. PICK want : want = IF m > 0 THEN m ELSE most
  OBVIOUS
<1>12. m <= most
  BY <1>1, <1>3, <1>5, <1>7, Zenon DEF Most
<1>13. want \in Nat /\ want <= most
  BY <1>10, <1>11, <1>12
<1>14. PICK w : w = want * v
  OBVIOUS
<1>15. w \in Nat /\ w <= x
  <2>1. want * v <= most * v /\ want * v \in Nat /\ most * v \in Nat
    BY <1>9, <1>10, <1>13, MulMono
  <2> QED BY <1>6, <1>10, <1>14, <2>1
<1>16. PICK max : max = BankTerms.max
  OBVIOUS
<1>17. max \in Nat
  BY <1>3, <1>16 DEF Terms
<1>18. PICK y : y = (max * 100) \div b
  OBVIOUS
<1>19. y \in Nat /\ b * y <= max * 100
  BY <1>3, <1>17, <1>18, Percent
<1>20. PICK z : z = y \div v
  OBVIOUS
<1>21. z \in Nat /\ v * z <= y
  <2>1. z \in Nat /\ y = z * v + (y % v) /\ y % v \in Nat
    BY <1>9, <1>19, <1>20, DivMod
  <2>2. PICK r : r = y % v
    OBVIOUS
  <2>3. z * v \in Nat /\ z * v = v * z
    BY <1>9, <2>1
  <2> QED BY <1>19, <2>1, <2>2, <2>3
<1>22. PICK sum : sum = v * (IF (w * b) \div 100 <= max THEN want ELSE z)
  OBVIOUS
<1>23. ChangeSum(all, ks, n, k, m) = sum
  BY <1>1, <1>3, <1>5, <1>7, <1>8, <1>11, <1>14, <1>16, <1>18, <1>20, <1>22, Zenon
     DEF ChangeSum, ChangePrice, Most
<1>24. sum \in Nat /\ sum <= x
  <2>1. CASE (w * b) \div 100 <= max
    <3>1. sum = w
      BY <1>9, <1>13, <1>14, <1>22, <2>1
    <3> QED BY <1>15, <3>1
  <2>2. CASE ~((w * b) \div 100 <= max)
    <3>1. sum = v * z
      BY <1>22, <2>2
    <3>2. PICK p : p = (w * b) \div 100
      OBVIOUS
    <3>3. p \in Nat /\ p * 100 <= w * b
      BY <1>3, <1>15, <3>2, WithFee
    <3>4. p > max
      BY <1>17, <2>2, <3>2, <3>3
    <3>5. max * 100 <= p * 100
      BY <1>17, <3>3, <3>4, MulMono
    <3>6. b * y <= w * b /\ w * b = b * w
      <4>1. w * b \in Nat /\ b * y \in Nat /\ max * 100 \in Nat /\ p * 100 \in Nat /\ w * b = b * w
        BY <1>3, <1>15, <1>17, <1>19, <3>3
      <4> QED BY <1>19, <3>3, <3>5, <4>1
    <3>7. y <= w
      <4>1. SUFFICES ASSUME w + 1 <= y PROVE FALSE
        BY <1>15, <1>19
      <4>2. (w + 1) * b <= y * b
        BY <1>3, <1>15, <1>19, <4>1, MulMono
      <4>3. (w + 1) * b = w * b + b /\ y * b = b * y
        BY <1>3, <1>15, <1>19
      <4>4. w * b \in Nat /\ b * y \in Nat
        BY <1>3, <1>15, <1>19
      <4> QED BY <1>3, <3>6, <4>2, <4>3, <4>4
    <3>8. v * z \in Nat
      BY <1>9, <1>21
    <3> QED BY <1>6, <1>15, <1>19, <1>21, <3>1, <3>7, <3>8
  <2> QED BY <2>1, <2>2
<1>25. PICK price : price = (sum * b) \div 100
  OBVIOUS
<1>26. sum * b <= Merge(hold) * 100
  <2>1. sum * b <= x * b
    BY <1>3, <1>6, <1>24, MulMono
  <2>2. x * b = b * x /\ sum * b \in Nat /\ b * x \in Nat /\ Merge(hold) * 100 \in Nat
    BY <1>3, <1>4, <1>6, <1>24
  <2> QED BY <1>6, <2>1, <2>2
<1>27. price \in Nat /\ sum <= price /\ price <= Merge(hold)
  BY <1>3, <1>4, <1>24, <1>25, <1>26, WithFee
<1>28. ChangePrice(sum) = price
  BY <1>3, <1>25, Zenon DEF ChangePrice
<1>29. price <= Merge(all)
  BY <1>4, <1>27
<1> QED BY <1>23, <1>24, <1>27, <1>28, <1>29, Zenon

\* Without dying heaps that hold coins, new coins do not hide old ones.
LEMMA NothingHidden ==
  ASSUME NEW h, Fit(h), NEW c \in Coinage, NEW heavy, Merge(Risked(h)) = 0
  PROVE  Merge(WhatCoins(h)) <= Merge(WhatCoins(Receive(h, c, heavy)))
<1>1. PICK r : r = Receive(h, c, heavy)
  OBVIOUS
<1>2. Nothing \in Coinage
  BY MergeNothing
<1>3. Fit(r)
  BY <1>1, <1>2, ReceiveFacts
<1>4. WhatCoins(h) \in Coinage /\ WhatCoins(r) \in Coinage /\ Risked(h) \in Coinage
  BY <1>2, <1>3, FitFacts
<1>5. ASSUME NEW k \in Kinds PROVE WhatCoins(h)[k] <= WhatCoins(r)[k]
  <2>1. /\ WhatCoins(h)[k] = Num(h[k]) /\ WhatCoins(r)[k] = Num(r[k]) /\ Risked(h)[k] = Fading(h[k])
        /\ Fading(h[k]) \in Nat /\ Num(r[k]) \in Nat /\ Firm(r[k]) \in Nat /\ Firm(h[k]) \in Nat
    BY <1>2, <1>3, FitFacts
  <2>2. Good(h[k]) /\ Good(r[k]) /\ c[k] \in Nat /\ Value[k] \in Nat \ {0}
    BY <1>3, ValueFacts DEF Fit, Coinage, Minted
  <2>3. Fading(h[k]) = 0
    <3>1. Fading(h[k]) * Value[k] <= 0
      BY <1>4, <2>1, MergeTerm
    <3>2. ASSUME Fading(h[k]) >= 1 PROVE FALSE
      <4>1. 1 * Value[k] <= Fading(h[k]) * Value[k]
        BY <2>1, <2>2, <3>2, MulMono
      <4>2. Fading(h[k]) * Value[k] \in Nat
        BY <2>1, <2>2
      <4> QED BY <2>2, <3>1, <4>1, <4>2
    <3> QED BY <2>1, <3>2
  <2>4. Num(h[k]) = Firm(h[k]) /\ Firm(r[k]) <= Num(r[k])
    BY <2>2, <2>3, NumFacts
  <2>5. Firm(h[k]) <= Firm(r[k])
    <3>1. r[k] = IF k \in heavy THEN h[k] ELSE Arrive(h[k], c[k])
      BY <1>1 DEF Receive
    <3>2. Firm(Arrive(h[k], c[k])) = Firm(h[k]) + c[k]
      BY <2>2, ArriveFacts
    <3> QED BY <2>1, <2>2, <3>1, <3>2
  <2> QED BY <2>1, <2>4, <2>5
<1> QED BY <1>1, <1>4, <1>5, MergeAtMost

\* Minimizing gives nobody more than it takes, but with coins at risk.
LEMMA MinimizeFacts ==
  ASSUME NEW h, Fit(h), NEW fl \in Coinage, NEW heavy, NEW sum \in Nat,
         sum <= Merge(WhatCoins(h)),
         NEW more, more = Receive(h, Split(sum), heavy),
         NEW rest, rest = Remainder(WhatCoins(more), Merge(WhatCoins(h))),
         NEW takes \in BOOLEAN, takes <=> Merge(WhatCoins(h)) <= Merge(WhatCoins(more)),
         NEW g, g = IF takes THEN Keep(more, rest, heavy) ELSE more,
         NEW f, f = Plus(Spill(fl, Split(sum), heavy),
                         IF takes THEN Only(rest, Made(more, rest) \cap heavy) ELSE Nothing)
  PROVE  /\ Fit(g) /\ f \in Coinage
         /\ Merge(Whole(g, f)) <= (IF Merge(Risked(h)) > 0 THEN 2 ELSE 1) * Merge(Whole(h, fl))
<1>1. Split(sum) \in Coinage /\ Merge(Split(sum)) = sum
  BY SplitFacts
<1>2. PICK fm : fm = Spill(fl, Split(sum), heavy)
  OBVIOUS
<1>3. /\ Fit(more) /\ fm \in Coinage
      /\ Merge(Whole(more, fm)) = Merge(Whole(h, fl)) + sum
  BY <1>1, <1>2, ReceiveFacts
<1>4. PICK total : total = Merge(WhatCoins(h))
  OBVIOUS
<1>5. /\ WhatCoins(h) \in Coinage /\ WhatCoins(more) \in Coinage
      /\ Whole(h, fl) \in Coinage /\ Whole(more, fm) \in Coinage /\ Risked(h) \in Coinage
  BY <1>3, FitFacts
<1>6. /\ total \in Nat /\ Merge(WhatCoins(more)) \in Nat
      /\ Merge(Whole(h, fl)) \in Nat /\ Merge(Whole(more, fm)) \in Nat /\ Merge(Risked(h)) \in Nat
      /\ sum <= total
  BY <1>4, <1>5, MergeNat
<1>7. total <= Merge(Whole(h, fl))
  BY <1>4, SeenFacts
<1>8. CASE takes
  <2>1. rest \in Coinage /\ Merge(rest) = Merge(WhatCoins(more)) - total
    BY <1>4, <1>5, <1>6, <1>8, RemainderFacts
  <2>2. PICK fallen : fallen = Made(more, rest) \cap heavy
    OBVIOUS
  <2>3. g = Keep(more, rest, heavy) /\ f = Spill(fm, rest, fallen)
    BY <1>2, <1>8, <2>2, Zenon DEF Spill
  <2>4. /\ Fit(g) /\ f \in Coinage
        /\ Merge(Whole(g, f)) + Merge(WhatCoins(more)) = Merge(Whole(more, fm)) + Merge(rest)
    BY <1>3, <2>1, <2>2, <2>3, KeepFacts
  <2>5. Merge(Whole(g, f)) \in Nat
    BY <2>4, FitFacts, MergeNat
  <2>6. Merge(Whole(g, f)) <= Merge(Whole(h, fl))
    BY <1>3, <1>6, <2>1, <2>4, <2>5
  <2> QED BY <1>6, <2>4, <2>5, <2>6
<1>9. CASE ~takes
  <2>1. g = more /\ f = Plus(fm, Nothing)
    BY <1>2, <1>9, Zenon
  <2>2. f = fm
    <3>1. \A k \in Kinds : fm[k] + Nothing[k] = fm[k]
      BY <1>3 DEF Nothing, Coinage
    <3>2. Plus(fm, Nothing) = [k \in Kinds |-> fm[k]]
      BY <3>1, Zenon DEF Plus
    <3>3. fm = [k \in Kinds |-> fm[k]]
      BY <1>3 DEF Coinage
    <3> QED BY <2>1, <3>2, <3>3
  <2>3. Merge(Risked(h)) # 0
    BY <1>1, <1>9, NothingHidden
  <2>4. Merge(Whole(g, f)) <= 2 * Merge(Whole(h, fl))
    BY <1>3, <1>6, <1>7, <2>1, <2>2
  <2> QED BY <1>3, <1>6, <2>1, <2>2, <2>3, <2>4
<1> QED BY <1>8, <1>9

-----------------------------------------------------------------------------
(***************************************************************************)
(* The invariant, and the accounts that Purse keeps.                       *)
(***************************************************************************)
Purses ==
  /\ purse \in [Players -> [Kinds -> Seq(Heap)]] /\ \A p \in Players : Fit(purse[p])
  /\ floor \in [Players -> Coinage]

Kept ==
  /\ Purses
  /\ owner \in [Items -> Players \cup {Store}]
  /\ meals \in [Players -> 0 .. MaxMeals]

LEMMA KeptIs == Kept <=> TypeOK /\ LastingIsFound
<1>1. ASSUME Kept PROVE TypeOK /\ LastingIsFound
  <2>1. \A p \in Players, k \in Kinds : Good(purse[p][k])
    BY <1>1 DEF Kept, Purses, Fit
  <2>2. TypeOK
    BY <1>1, <2>1 DEF Kept, Purses, TypeOK, Good, Coinage
  <2>3. LastingIsFound
    BY <2>1 DEF LastingIsFound, Good
  <2> QED BY <2>2, <2>3
<1>2. ASSUME TypeOK, LastingIsFound PROVE Kept
  <2>1. purse \in [Players -> [Kinds -> Seq(Heap)]]
    BY <1>2 DEF TypeOK
  <2>2. ASSUME NEW p \in Players, NEW k \in Kinds PROVE Good(purse[p][k])
    <3>1. purse[p][k] \in Seq(Heap)
      BY <2>1
    <3> QED BY <1>2, <3>1 DEF TypeOK, LastingIsFound, Good
  <2>3. \A p \in Players : Fit(purse[p])
    BY <2>1, <2>2 DEF Fit
  <2> QED BY <1>2, <2>1, <2>3 DEF Kept, Purses, TypeOK, Coinage
<1> QED BY <1>1, <1>2

LEMMA AccountIs ==
  ASSUME NEW h, NEW f
  PROVE  /\ Merge([k \in Kinds |-> Coins(h[k], FALSE) + f[k]]) = Merge(Safe(h, f))
         /\ Merge([k \in Kinds |-> Coins(h[k], TRUE)]) = Merge(Risked(h))
<1>1. Safe(h, f) = [k \in Kinds |-> Coins(h[k], FALSE) + f[k]]
  BY Zenon DEF Safe, Plus, Firmly, Firm
<1>2. Risked(h) = [k \in Kinds |-> Coins(h[k], TRUE)]
  BY Zenon DEF Risked, Fading
<1> QED BY <1>1, <1>2, Zenon

SoundOf == [p \in Players |-> Sound(p)]
DoomedOf == [p \in Players |-> Doomed(p)]

\* What p has, before a step and after it.
Account(p, h, f) ==
  /\ SoundOf[p] = Merge(Safe(h, f)) /\ SoundOf[p] \in Nat
  /\ DoomedOf[p] = Merge(Risked(h)) /\ DoomedOf[p] \in Nat
  /\ SoundOf[p] + DoomedOf[p] = Merge(Whole(h, f))

LEMMA AccountBefore ==
  ASSUME Purses, NEW p \in Players
  PROVE  Account(p, purse[p], floor[p])
<1>1. Fit(purse[p]) /\ floor[p] \in Coinage
  BY DEF Purses
<1>2. /\ Safe(purse[p], floor[p]) \in Coinage /\ Risked(purse[p]) \in Coinage
      /\ Merge(Whole(purse[p], floor[p]))
           = Merge(Safe(purse[p], floor[p])) + Merge(Risked(purse[p]))
  BY <1>1, FitFacts
<1>3. Sound(p) = Merge(Safe(purse[p], floor[p])) /\ Doomed(p) = Merge(Risked(purse[p]))
  BY AccountIs DEF Sound, Doomed
<1>4. Merge(Safe(purse[p], floor[p])) \in Nat /\ Merge(Risked(purse[p])) \in Nat
  BY <1>2, MergeNat
<1> QED BY <1>2, <1>3, <1>4 DEF Account, SoundOf, DoomedOf

LEMMA AccountAfter ==
  ASSUME Purses', NEW p \in Players
  PROVE  Account(p, purse[p], floor[p])'
<1>1. Fit(purse'[p]) /\ floor'[p] \in Coinage
  BY DEF Purses
<1>2. /\ Safe(purse'[p], floor'[p]) \in Coinage /\ Risked(purse'[p]) \in Coinage
      /\ Merge(Whole(purse'[p], floor'[p]))
           = Merge(Safe(purse'[p], floor'[p])) + Merge(Risked(purse'[p]))
  BY <1>1, FitFacts
<1>3. /\ Sound(p)' = Merge(Safe(purse'[p], floor'[p]))
      /\ Doomed(p)' = Merge(Risked(purse'[p]))
  BY AccountIs DEF Sound, Doomed
<1>4. Merge(Safe(purse'[p], floor'[p])) \in Nat /\ Merge(Risked(purse'[p])) \in Nat
  BY <1>2, MergeNat
<1> QED BY <1>2, <1>3, <1>4 DEF Account, SoundOf, DoomedOf

\* A command touches one purse, and what its owner has dropped.
Touches(p, h, f) == purse' = [purse EXCEPT ![p] = h] /\ floor' = [floor EXCEPT ![p] = f]

LEMMA Touched ==
  ASSUME Purses, NEW p \in Players, NEW h, Fit(h), NEW f \in Coinage, Touches(p, h, f)
  PROVE  /\ Purses' /\ Account(p, purse[p], floor[p])
         /\ SoundOf'[p] = Merge(Safe(h, f)) /\ SoundOf'[p] \in Nat
         /\ DoomedOf'[p] = Merge(Risked(h)) /\ DoomedOf'[p] \in Nat
         /\ SoundOf'[p] + DoomedOf'[p] = Merge(Whole(h, f))
         /\ \A q \in Players \ {p} : SoundOf'[q] = SoundOf[q] /\ DoomedOf'[q] = DoomedOf[q]
<1>1. purse'[p] = h /\ floor'[p] = f
  BY DEF Touches, Purses
<1>2. \A q \in Players \ {p} : purse'[q] = purse[q] /\ floor'[q] = floor[q]
  BY DEF Touches, Purses
<1>3. Purses'
  <2>1. purse' \in [Players -> [Kinds -> Seq(Heap)]] /\ floor' \in [Players -> Coinage]
    BY DEF Touches, Purses, Fit
  <2>2. \A q \in Players : Fit(purse'[q])
    BY <1>1, <1>2 DEF Purses
  <2> QED BY <2>1, <2>2 DEF Purses
<1>4. Account(p, purse[p], floor[p])'
  BY <1>3, AccountAfter
<1>5. ASSUME NEW q \in Players \ {p}
      PROVE  SoundOf'[q] = SoundOf[q] /\ DoomedOf'[q] = DoomedOf[q]
  <2>1. Sound(q)' = Sound(q) /\ Doomed(q)' = Doomed(q)
    BY <1>2 DEF Sound, Doomed
  <2> QED BY <2>1 DEF SoundOf, DoomedOf
<1> QED BY <1>1, <1>3, <1>4, <1>5, AccountBefore DEF Account

-----------------------------------------------------------------------------
(***************************************************************************)
(* Every command keeps the invariant and does what Purse says.             *)
(***************************************************************************)
LEMMA BuyFair ==
  ASSUME Kept, NEW p \in Players, NEW i \in Items, NEW ks, NEW top, Buy(p, i, ks, top)
  PROVE  /\ Kept' /\ P!Buy(p, i)
         /\ top \in Kinds => Sound(p)' + Doomed(p)' + BuyPrice[i] = Sound(p) + Doomed(p)
<1>1. PICK price : price = (BuyPrice[i] * ShopTerms.buy) \div 100
  OBVIOUS
<1>2. BuyPrice[i] \in Nat /\ price = BuyPrice[i]
  <2>1. BuyPrice[i] \in Nat /\ ShopTerms.buy = 100
    BY TradeAssumption
  <2>2. (BuyPrice[i] * 100) \div 100 = BuyPrice[i]
    BY <2>1
  <2> QED BY <1>1, <2>1, <2>2, Zenon
<1>3. PICK h : h = purse[p]
  OBVIOUS
<1>4. PICK fl : fl = floor[p]
  OBVIOUS
<1>5. Purses /\ Fit(h) /\ fl \in Coinage
  BY <1>3, <1>4 DEF Kept, Purses
<1>6. PICK c : c = PayCoins(price, h, ks)
  OBVIOUS
<1>7. PICK back : back = PayChange(price, h, ks, ShopTerms, top)
  OBVIOUS
<1>8. CanPay(price, h, ks)
  BY <1>1, <1>3, Zenon DEF Buy
<1>9. Changing(ShopTerms) /\ Complete(ShopTerms)
  BY TradeAssumption DEF Changing, Complete, Last
<1>10. /\ Fit(Surrender(h, c)) /\ back \in Coinage
       /\ Merge(Risked(Surrender(h, c))) <= Merge(Risked(h))
       /\ Merge(Whole(Surrender(h, c), fl)) + Merge(c) = Merge(Whole(h, fl))
       /\ Merge(c) \in Nat
       /\ Merge(back) + price <= Merge(c) /\ Merge(c) < price + Value[Last]
       /\ top \in Kinds => Merge(back) + price = Merge(c)
  BY <1>2, <1>5, <1>6, <1>7, <1>8, <1>9, PayFacts
<1>11. PICK heavy : /\ purse' = [purse EXCEPT ![p] = Receive(Surrender(h, c), back, heavy)]
                    /\ floor' = [floor EXCEPT ![p] = Spill(fl, back, heavy)]
  BY <1>1, <1>3, <1>4, <1>6, <1>7, Zenon DEF Buy
<1>12. PICK h2 : h2 = Receive(Surrender(h, c), back, heavy)
  OBVIOUS
<1>13. PICK f2 : f2 = Spill(fl, back, heavy)
  OBVIOUS
<1>14. /\ Fit(h2) /\ f2 \in Coinage
       /\ Merge(Risked(h2)) = Merge(Risked(Surrender(h, c)))
       /\ Merge(Whole(h2, f2)) = Merge(Whole(Surrender(h, c), fl)) + Merge(back)
  BY <1>5, <1>10, <1>12, <1>13, ReceiveFacts
<1>15. Touches(p, h2, f2)
  BY <1>11, <1>12, <1>13, Zenon DEF Touches
<1>16. /\ Purses' /\ Account(p, h, fl)
       /\ SoundOf'[p] \in Nat /\ DoomedOf'[p] = Merge(Risked(h2)) /\ DoomedOf'[p] \in Nat
       /\ SoundOf'[p] + DoomedOf'[p] = Merge(Whole(h2, f2))
       /\ \A q \in Players \ {p} : SoundOf'[q] = SoundOf[q] /\ DoomedOf'[q] = DoomedOf[q]
  BY <1>3, <1>4, <1>5, <1>14, <1>15, Touched
<1>17. /\ SoundOf'[p] + DoomedOf'[p] + BuyPrice[i] <= SoundOf[p] + DoomedOf[p]
       /\ SoundOf[p] + DoomedOf[p] < SoundOf'[p] + DoomedOf'[p] + BuyPrice[i] + Value[Last]
       /\ top \in Kinds
            => SoundOf'[p] + DoomedOf'[p] + BuyPrice[i] = SoundOf[p] + DoomedOf[p]
  <2>1. Merge(back) \in Nat /\ Merge(Whole(Surrender(h, c), fl)) \in Nat
    BY <1>5, <1>10, FitFacts, MergeNat
  <2>2. Value[Last] \in Nat
    BY ValueFacts DEF Minted
  <2> QED BY <1>2, <1>10, <1>14, <1>16, <2>1, <2>2 DEF Account
<1>18. DoomedOf'[p] <= DoomedOf[p]
  BY <1>10, <1>14, <1>16 DEF Account
<1>19. owner[i] = Store /\ owner' = [owner EXCEPT ![i] = p] /\ meals' = meals
  BY Zenon DEF Buy
<1>20. Kept'
  BY <1>16, <1>19 DEF Kept
<1>21. P!Buy(p, i)
  BY <1>16, <1>17, <1>18, <1>19 DEF P!Buy, P!Wealth, P!Others, SoundOf, DoomedOf, Last
<1>22. ASSUME top \in Kinds
       PROVE  Sound(p)' + Doomed(p)' + BuyPrice[i] = Sound(p) + Doomed(p)
  BY <1>17, <1>22 DEF SoundOf, DoomedOf
<1> QED BY <1>20, <1>21, <1>22

\* Purse adds prices up as Trade does.
LEMMA SameSum ==
  ASSUME NEW f, NEW S
  PROVE  P!SumFunctionOnSet(f, S) = SumFunctionOnSet(f, S)
BY DEF SumFunctionOnSet, FoldFunctionOnSet, MapThenFoldSet,
       P!SumFunctionOnSet, P!FoldFunctionOnSet, P!MapThenFoldSet

LEMMA SellFair ==
  ASSUME Kept, NEW p \in Players, NEW sold \in SUBSET Items, NEW top, Sell(p, sold, top)
  PROVE  Kept' /\ P!Sell(p)
<1>1. PICK h : h = purse[p]
  OBVIOUS
<1>2. PICK fl : fl = floor[p]
  OBVIOUS
<1>3. Purses /\ Fit(h) /\ fl \in Coinage
  BY <1>1, <1>2 DEF Kept, Purses
<1>4. PICK coins : coins = Takings(sold, top)
  OBVIOUS
<1>5. /\ coins \in Coinage /\ Merge(coins) <= SumFunctionOnSet(SellPrice, sold)
      /\ SumFunctionOnSet(SellPrice, sold) \in Nat /\ Merge(coins) \in Nat
  BY <1>4, TakingsFacts, MergeNat
<1>6. PICK heavy : /\ purse' = [purse EXCEPT ![p] = Receive(h, coins, heavy)]
                   /\ floor' = [floor EXCEPT ![p] = Spill(fl, coins, heavy)]
  BY <1>1, <1>2, <1>4, Zenon DEF Sell
<1>7. PICK h2 : h2 = Receive(h, coins, heavy)
  OBVIOUS
<1>8. PICK f2 : f2 = Spill(fl, coins, heavy)
  OBVIOUS
<1>9. /\ Fit(h2) /\ f2 \in Coinage
      /\ Merge(Risked(h2)) = Merge(Risked(h))
      /\ Merge(Safe(h2, f2)) = Merge(Safe(h, fl)) + Merge(coins)
  BY <1>3, <1>5, <1>7, <1>8, ReceiveFacts
<1>10. Touches(p, h2, f2)
  BY <1>6, <1>7, <1>8, Zenon DEF Touches
<1>11. /\ Purses' /\ Account(p, h, fl)
       /\ SoundOf'[p] = Merge(Safe(h2, f2)) /\ DoomedOf'[p] = Merge(Risked(h2))
       /\ \A q \in Players \ {p} : SoundOf'[q] = SoundOf[q] /\ DoomedOf'[q] = DoomedOf[q]
  BY <1>1, <1>2, <1>3, <1>9, <1>10, Touched
<1>12. /\ SoundOf[p] <= SoundOf'[p]
       /\ SoundOf'[p] <= SoundOf[p] + SumFunctionOnSet(SellPrice, sold)
       /\ DoomedOf'[p] = DoomedOf[p]
  BY <1>5, <1>9, <1>11 DEF Account
<1>13. /\ \A i \in sold : owner[i] = p
       /\ owner' = [i \in Items |-> IF i \in sold THEN Store ELSE owner[i]] /\ meals' = meals
  BY Zenon DEF Sell
<1>14. Kept'
  BY <1>11, <1>13 DEF Kept
<1>15. sold \in SUBSET {i \in Items : owner[i] = p}
  BY <1>13
<1>16. P!Sell(p)
  <2>1. P!SumFunctionOnSet(SellPrice, sold) = SumFunctionOnSet(SellPrice, sold)
    BY SameSum
  <2>2. P!Others(p) /\ UNCHANGED meals /\ DoomedOf'[p] = DoomedOf[p]
    BY <1>11, <1>12, <1>13 DEF P!Others, SoundOf, DoomedOf
  <2>3. SoundOf'[p] <= SoundOf[p] + P!SumFunctionOnSet(SellPrice, sold)
    BY <1>12, <2>1, Zenon
  <2> QED BY <1>12, <1>13, <1>15, <2>2, <2>3, Zenon DEF P!Sell, SoundOf, DoomedOf
<1> QED BY <1>14, <1>16

LEMMA OrderFair ==
  ASSUME Kept, NEW p \in Players, NEW n \in 1 .. MaxMeals, Order(p, n)
  PROVE  Kept' /\ P!Order(p)
<1>1. PICK h : h = purse[p]
  OBVIOUS
<1>2. PICK fl : fl = floor[p]
  OBVIOUS
<1>3. Purses /\ Fit(h) /\ fl \in Coinage
  BY <1>1, <1>2 DEF Kept, Purses
<1>4. PICK price : price = n * MealPrice
  OBVIOUS
<1>5. n \in Nat /\ MaxMeals \in Nat /\ price \in Nat /\ n <= price
  <2>1. n \in Nat /\ MealPrice \in Nat /\ 1 <= MealPrice /\ MaxMeals \in Nat
    BY TradeAssumption
  <2>2. 1 * n <= MealPrice * n
    BY <2>1, MulMono
  <2>3. 1 * n = n /\ MealPrice * n = price /\ price \in Nat
    BY <1>4, <2>1
  <2> QED BY <2>1, <2>2, <2>3
<1>6. price <= Merge(WhatCoins(h))
  BY <1>1, <1>4, Zenon DEF Order
<1>7. PICK rest : rest = Remainder(WhatCoins(h), price)
  OBVIOUS
<1>8. WhatCoins(h) \in Coinage /\ Whole(h, fl) \in Coinage
  BY <1>3, FitFacts
<1>9. rest \in Coinage /\ Merge(rest) = Merge(WhatCoins(h)) - price
  BY <1>5, <1>6, <1>7, <1>8, RemainderFacts
<1>10. PICK heavy \in SUBSET Made(h, rest) :
           /\ purse' = [purse EXCEPT ![p] = Keep(h, rest, heavy)]
           /\ floor' = [floor EXCEPT ![p] = Spill(fl, rest, heavy)]
  BY <1>1, <1>2, <1>4, <1>7, Zenon DEF Order
<1>11. PICK h2 : h2 = Keep(h, rest, heavy)
  OBVIOUS
<1>12. PICK f2 : f2 = Spill(fl, rest, heavy)
  OBVIOUS
<1>13. heavy = Made(h, rest) \cap heavy
  BY <1>10
<1>14. /\ Fit(h2) /\ f2 \in Coinage
       /\ Merge(Whole(h2, f2)) + Merge(WhatCoins(h)) = Merge(Whole(h, fl)) + Merge(rest)
  BY <1>3, <1>9, <1>11, <1>12, <1>13, KeepFacts
<1>15. Touches(p, h2, f2)
  BY <1>10, <1>11, <1>12, Zenon DEF Touches
<1>16. /\ Purses' /\ Account(p, h, fl)
       /\ SoundOf'[p] \in Nat /\ DoomedOf'[p] \in Nat
       /\ SoundOf'[p] + DoomedOf'[p] = Merge(Whole(h2, f2))
       /\ \A q \in Players \ {p} : SoundOf'[q] = SoundOf[q] /\ DoomedOf'[q] = DoomedOf[q]
  BY <1>1, <1>2, <1>3, <1>14, <1>15, Touched
<1>17. Merge(WhatCoins(h)) \in Nat /\ Merge(WhatCoins(h)) <= Merge(Whole(h, fl))
  BY <1>3, <1>8, MergeNat, SeenFacts
<1>18. SoundOf'[p] + DoomedOf'[p] + n * MealPrice = SoundOf[p] + DoomedOf[p]
  <2>1. SoundOf'[p] + DoomedOf'[p] + price = SoundOf[p] + DoomedOf[p]
    BY <1>5, <1>9, <1>14, <1>16, <1>17 DEF Account
  <2> QED BY <1>4, <2>1
<1>19. n \in 1 .. SoundOf[p] + DoomedOf[p]
  BY <1>5, <1>6, <1>16, <1>17 DEF Account
<1>20. /\ meals[p] + n <= MaxMeals
       /\ meals' = [meals EXCEPT ![p] = @ + n] /\ owner' = owner
  BY Zenon DEF Order
<1>21. Kept'
  <2>1. meals' \in [Players -> 0 .. MaxMeals]
    <3>1. meals \in [Players -> 0 .. MaxMeals]
      BY DEF Kept
    <3>2. meals[p] + n \in 0 .. MaxMeals
      BY <1>5, <1>20, <3>1
    <3> QED BY <1>20, <3>1, <3>2
  <2> QED BY <1>16, <1>20, <2>1 DEF Kept
<1>22. P!Order(p)
  <2>1. P!Wealth(p) = SoundOf[p] + DoomedOf[p]
    BY DEF P!Wealth, SoundOf, DoomedOf
  <2>2. P!Wealth(p)' = SoundOf'[p] + DoomedOf'[p]
    BY DEF P!Wealth, SoundOf, DoomedOf
  <2>3. P!Others(p)
    BY <1>16 DEF P!Others, SoundOf, DoomedOf
  <2>4. n \in 1 .. P!Wealth(p) /\ P!Wealth(p)' + n * MealPrice = P!Wealth(p)
    BY <1>18, <1>19, <2>1, <2>2, Zenon
  <2> QED BY <1>20, <2>3, <2>4 DEF P!Order
<1> QED BY <1>21, <1>22

LEMMA EatFair ==
  ASSUME Kept, NEW p \in Players, Eat(p)
  PROVE  Kept' /\ P!Eat(p)
<1>1. /\ meals[p] > 0 /\ meals' = [meals EXCEPT ![p] = @ - 1]
      /\ purse' = purse /\ floor' = floor /\ owner' = owner
  BY DEF Eat
<1>2. meals' \in [Players -> 0 .. MaxMeals]
  <2>1. meals \in [Players -> 0 .. MaxMeals] /\ MaxMeals \in Nat
    BY TradeAssumption DEF Kept
  <2>2. meals[p] - 1 \in 0 .. MaxMeals
    BY <1>1, <2>1
  <2> QED BY <1>1, <2>1, <2>2
<1>3. Kept'
  BY <1>1, <1>2 DEF Kept, Purses
<1>4. SoundOf' = SoundOf /\ DoomedOf' = DoomedOf
  BY <1>1 DEF SoundOf, DoomedOf, Sound, Doomed
<1>5. P!Eat(p)
  BY <1>1, <1>4 DEF P!Eat, SoundOf, DoomedOf
<1> QED BY <1>3, <1>5

LEMMA ChangeFair ==
  ASSUME Kept, NEW p \in Players, NEW ks \in SUBSET Kinds, ks # {}, NEW n \in 0 .. 1,
         NEW k \in Kinds, NEW m \in 0 .. 1, Change(p, ks, n, k, m)
  PROVE  Kept' /\ P!Change(p)
<1>1. PICK h : h = purse[p]
  OBVIOUS
<1>2. PICK fl : fl = floor[p]
  OBVIOUS
<1>3. Purses /\ Fit(h) /\ fl \in Coinage
  BY <1>1, <1>2 DEF Kept, Purses
<1>4. PICK all : all = Offered(h, ks)
  OBVIOUS
<1>5. all \in Coinage
  BY <1>3, <1>4, SeenFacts
<1>6. PICK sum : sum = ChangeSum(all, ks, n, k, m)
  OBVIOUS
<1>7. PICK price : price = ChangePrice(sum)
  OBVIOUS
<1>8. n <= all[Min(ks)] /\ m <= Most(Held(all, ks, n), k)
  BY <1>1, <1>4, Zenon DEF Change
<1>9. sum \in Nat /\ price \in Nat /\ sum <= price /\ price <= Merge(all)
  <2>1. n \in Nat /\ m \in Nat
    OBVIOUS
  <2> QED BY <1>5, <1>6, <1>7, <1>8, <2>1, ChangeSumFacts
<1>10. CanPay(price, h, ks)
  BY <1>4, <1>9, Zenon DEF CanPay
<1>11. PICK c : c = PayCoins(price, h, ks)
  OBVIOUS
<1>12. PICK back : back = PayChange(price, h, ks, BankTerms, k)
  OBVIOUS
<1>13. PICK given : given = CalcChange(sum, BankTerms, k)
  OBVIOUS
<1>14. BankTerms \in Terms /\ Changing(BankTerms)
  BY TradeAssumption DEF Changing
<1>15. /\ Fit(Surrender(h, c)) /\ back \in Coinage
       /\ Merge(Whole(Surrender(h, c), fl)) + Merge(c) = Merge(Whole(h, fl))
       /\ Merge(c) \in Nat
       /\ Merge(back) + price <= Merge(c)
  BY <1>3, <1>9, <1>10, <1>11, <1>12, <1>14, PayFacts
<1>16. given \in Coinage /\ Merge(given) <= sum
  <2>1. sum \in Int
    BY <1>9
  <2> QED BY <1>9, <1>13, <1>14, <2>1, CalcChangeFacts
<1>17. PICK heavy :
         /\ purse' = [purse EXCEPT ![p] = Receive(Receive(Surrender(h, c), back, heavy), given, heavy)]
         /\ floor' = [floor EXCEPT ![p] = Spill(fl, Plus(back, given), heavy)]
  BY <1>1, <1>2, <1>4, <1>6, <1>7, <1>10, <1>11, <1>12, <1>13, Zenon DEF Change
<1>18. PICK h1 : h1 = Receive(Surrender(h, c), back, heavy)
  OBVIOUS
<1>19. PICK f1 : f1 = Spill(fl, back, heavy)
  OBVIOUS
<1>20. /\ Fit(h1) /\ f1 \in Coinage
       /\ Merge(Whole(h1, f1)) = Merge(Whole(Surrender(h, c), fl)) + Merge(back)
  BY <1>3, <1>15, <1>18, <1>19, ReceiveFacts
<1>21. PICK h2 : h2 = Receive(h1, given, heavy)
  OBVIOUS
<1>22. PICK f2 : f2 = Spill(f1, given, heavy)
  OBVIOUS
<1>23. /\ Fit(h2) /\ f2 \in Coinage
       /\ Merge(Whole(h2, f2)) = Merge(Whole(h1, f1)) + Merge(given)
  BY <1>16, <1>20, <1>21, <1>22, ReceiveFacts
<1>24. Spill(fl, Plus(back, given), heavy) = f2
  <2>1. ASSUME NEW j \in Kinds
        PROVE  Spill(fl, Plus(back, given), heavy)[j] = f2[j]
    <3>1. fl[j] \in Nat /\ back[j] \in Nat /\ given[j] \in Nat
      BY <1>3, <1>15, <1>16 DEF Coinage
    <3>2. f2[j] = (fl[j] + (IF j \in heavy THEN back[j] ELSE 0)) + (IF j \in heavy THEN given[j] ELSE 0)
      BY <1>19, <1>22 DEF Spill, Plus, Only
    <3>3. Spill(fl, Plus(back, given), heavy)[j]
            = fl[j] + (IF j \in heavy THEN back[j] + given[j] ELSE 0)
      BY DEF Spill, Plus, Only
    <3> QED BY <3>1, <3>2, <3>3
  <2>2. Spill(fl, Plus(back, given), heavy)
          = [j \in Kinds |-> Spill(fl, Plus(back, given), heavy)[j]]
    BY DEF Spill, Plus
  <2>3. f2 = [j \in Kinds |-> f2[j]]
    BY <1>23 DEF Coinage
  <2> QED BY <2>1, <2>2, <2>3, Zenon
<1>25. Touches(p, h2, f2)
  BY <1>17, <1>18, <1>21, <1>24, Zenon DEF Touches
<1>26. /\ Purses' /\ Account(p, h, fl)
       /\ SoundOf'[p] + DoomedOf'[p] = Merge(Whole(h2, f2))
       /\ \A q \in Players \ {p} : SoundOf'[q] = SoundOf[q] /\ DoomedOf'[q] = DoomedOf[q]
  BY <1>1, <1>2, <1>3, <1>23, <1>25, Touched
<1>27. SoundOf'[p] + DoomedOf'[p] <= SoundOf[p] + DoomedOf[p]
  <2>1. /\ Merge(back) \in Nat /\ Merge(given) \in Nat
        /\ Merge(Whole(Surrender(h, c), fl)) \in Nat
    BY <1>3, <1>15, <1>16, FitFacts, MergeNat
  <2> QED BY <1>9, <1>15, <1>16, <1>20, <1>23, <1>26, <2>1 DEF Account
<1>28. owner' = owner /\ meals' = meals
  BY Zenon DEF Change
<1>29. Kept'
  BY <1>26, <1>28 DEF Kept
<1>30. P!Change(p)
  BY <1>26, <1>27, <1>28 DEF P!Change, P!Wealth, P!Others, SoundOf, DoomedOf
<1> QED BY <1>29, <1>30

LEMMA MinimizeFair ==
  ASSUME Kept, NEW p \in Players, Minimize(p)
  PROVE  Kept' /\ P!Minimize(p)
<1>1. PICK h : h = purse[p]
  OBVIOUS
<1>2. PICK fl : fl = floor[p]
  OBVIOUS
<1>3. Purses /\ Fit(h) /\ fl \in Coinage
  BY <1>1, <1>2 DEF Kept, Purses
<1>4. PICK total : total = Merge(WhatCoins(h))
  OBVIOUS
<1>5. PICK fee : fee = (Fee * Missing(total, WhatCoins(h))) \div 100
  OBVIOUS
<1>6. WhatCoins(h) \in Coinage /\ total \in Nat
  BY <1>3, <1>4, FitFacts, MergeNat
<1>7. fee \in Nat
  <2>1. Missing(total, WhatCoins(h)) \in Nat
    <3>1. Split(total) \in Coinage
      BY <1>6, SplitFacts
    <3>2. [k \in Kinds |-> Lack(Split(total)[k], WhatCoins(h)[k])] \in Coinage
      BY <1>6, <3>1 DEF Lack, Coinage
    <3> QED BY <3>2, MergeNat DEF Missing
  <2>2. Fee \in Nat
    BY TradeAssumption
  <2>3. PICK x \in Nat : x = Fee * Missing(total, WhatCoins(h))
    BY <2>1, <2>2
  <2>4. x \div 100 \in Nat
    BY <2>3, DivMod
  <2> QED BY <1>5, <2>3, <2>4, Zenon
<1>8. PICK sum : sum = Lack(total, fee)
  OBVIOUS
<1>9. sum \in Nat /\ sum <= total
  BY <1>6, <1>7, <1>8 DEF Lack
<1>10. PICK heavy \in SUBSET Kinds :
         LET more == Receive(h, Split(sum), heavy)
             rest == Remainder(WhatCoins(more), total)
             takes == total <= Merge(WhatCoins(more))
             over == Made(more, rest)
         IN  /\ purse' = [purse EXCEPT ![p] = IF takes THEN Keep(more, rest, heavy) ELSE more]
             /\ floor' = [floor EXCEPT ![p] =
                    Plus(Spill(fl, Split(sum), heavy),
                         IF takes THEN Only(rest, over \cap heavy) ELSE Nothing)]
  BY <1>1, <1>2, <1>4, <1>5, <1>8, Zenon DEF Minimize
<1>11. PICK more : more = Receive(h, Split(sum), heavy)
  OBVIOUS
<1>12. PICK rest : rest = Remainder(WhatCoins(more), total)
  OBVIOUS
<1>13. PICK takes \in BOOLEAN : takes <=> total <= Merge(WhatCoins(more))
  <2>1. CASE total <= Merge(WhatCoins(more))
    <3>1. TRUE \in BOOLEAN /\ (TRUE <=> total <= Merge(WhatCoins(more)))
      BY <2>1
    <3> QED BY <3>1
  <2>2. CASE ~(total <= Merge(WhatCoins(more)))
    <3>1. FALSE \in BOOLEAN /\ (FALSE <=> total <= Merge(WhatCoins(more)))
      BY <2>2
    <3> QED BY <3>1
  <2> QED BY <2>1, <2>2
<1>14. PICK g : g = IF takes THEN Keep(more, rest, heavy) ELSE more
  OBVIOUS
<1>15. PICK f : f = Plus(Spill(fl, Split(sum), heavy),
                         IF takes THEN Only(rest, Made(more, rest) \cap heavy) ELSE Nothing)
  OBVIOUS
<1>16. Touches(p, g, f)
  BY <1>2, <1>10, <1>11, <1>12, <1>13, <1>14, <1>15, Zenon DEF Touches
<1>17. /\ Fit(g) /\ f \in Coinage
       /\ Merge(Whole(g, f)) <= (IF Merge(Risked(h)) > 0 THEN 2 ELSE 1) * Merge(Whole(h, fl))
  <2>1. sum <= Merge(WhatCoins(h))
    BY <1>4, <1>9
  <2>2. rest = Remainder(WhatCoins(more), Merge(WhatCoins(h)))
    BY <1>4, <1>12
  <2>3. takes <=> Merge(WhatCoins(h)) <= Merge(WhatCoins(more))
    BY <1>4, <1>13
  <2> QED BY <1>3, <1>9, <1>11, <1>14, <1>15, <2>1, <2>2, <2>3, MinimizeFacts
<1>18. /\ Purses' /\ Account(p, h, fl)
       /\ SoundOf'[p] + DoomedOf'[p] = Merge(Whole(g, f))
       /\ \A q \in Players \ {p} : SoundOf'[q] = SoundOf[q] /\ DoomedOf'[q] = DoomedOf[q]
  BY <1>1, <1>2, <1>3, <1>16, <1>17, Touched
<1>19. SoundOf'[p] + DoomedOf'[p]
         <= (IF DoomedOf[p] > 0 THEN 2 ELSE 1) * (SoundOf[p] + DoomedOf[p])
  BY <1>17, <1>18, Zenon DEF Account
<1>20. owner' = owner /\ meals' = meals
  BY Zenon DEF Minimize
<1>21. Kept'
  BY <1>18, <1>20 DEF Kept
<1>22. P!Minimize(p)
  BY <1>18, <1>19, <1>20, Zenon DEF P!Minimize, P!Wealth, P!Others, SoundOf, DoomedOf
<1> QED BY <1>21, <1>22

LEMMA SweepFair ==
  ASSUME Kept, Sweep
  PROVE  Kept' /\ P!Sweep
<1>1. /\ purse' = [p \in Players |-> [k \in Kinds |-> Lasting(purse[p][k])]]
      /\ floor' = floor /\ owner' = owner /\ meals' = meals
  BY Zenon DEF Sweep
<1>2. ASSUME NEW p \in Players
      PROVE  /\ Fit(purse'[p])
             /\ Merge(Safe(purse'[p], floor[p])) = Merge(Safe(purse[p], floor[p]))
             /\ Merge(Risked(purse'[p])) = 0
  <2>1. purse'[p] = [k \in Kinds |-> Lasting(purse[p][k])]
    BY <1>1
  <2>2. Fit(purse[p]) /\ floor[p] \in Coinage
    BY DEF Kept, Purses
  <2> QED BY <2>1, <2>2, SweptFacts
<1>3. Purses'
  <2>1. purse' \in [Players -> [Kinds -> Seq(Heap)]]
    <3>1. \A p \in Players : [k \in Kinds |-> Lasting(purse[p][k])] \in [Kinds -> Seq(Heap)]
      BY <1>1, <1>2 DEF Fit
    <3> QED BY <1>1, <3>1
  <2> QED BY <1>1, <1>2, <2>1 DEF Kept, Purses
<1>4. Kept'
  BY <1>1, <1>3 DEF Kept
<1>5. ASSUME NEW p \in Players PROVE Sound(p)' = Sound(p) /\ Doomed(p)' = 0
  <2>1. /\ Sound(p)' = Merge(Safe(purse'[p], floor'[p]))
        /\ Doomed(p)' = Merge(Risked(purse'[p]))
        /\ Sound(p) = Merge(Safe(purse[p], floor[p]))
    BY AccountIs DEF Sound, Doomed
  <2>2. floor'[p] = floor[p]
    BY <1>1
  <2> QED BY <1>2, <2>1, <2>2
<1>6. P!Sweep
  BY <1>1, <1>5 DEF P!Sweep
<1> QED BY <1>4, <1>6

LEMMA GoodStart ==
  ASSUME NEW n \in 1 .. MaxWorth
  PROVE  LET s == <<[num |-> n, dying |-> FALSE]>> IN Good(s) /\ Fading(s) = 0
<1>1. n \in Nat /\ n # 0
  BY TradeAssumption
<1>2. PICK h : h = [num |-> n, dying |-> FALSE]
  OBVIOUS
<1>3. h \in Heap /\ h.num # 0 /\ h.dying = FALSE
  BY <1>1, <1>2 DEF Heap
<1>4. Passing(<<>>) /\ <<>> \in Seq(Heap)
  BY DEF Passing
<1>5. <<h>> \o <<>> = <<h>>
  BY <1>3
<1>6. Good(<<h>>) /\ Fading(<<h>>) = Fading(<<>>)
  BY <1>3, <1>4, <1>5, GoodCons
<1> QED BY <1>2, <1>6, GoodEmpty, Zenon

LEMMA InitKept == Init => Kept /\ P!Init
<1> SUFFICES ASSUME Init PROVE Kept /\ P!Init
  OBVIOUS
<1>1. ASSUME NEW p \in Players, NEW k \in Kinds
      PROVE  Good(purse[p][k]) /\ Fading(purse[p][k]) = 0
  <2>1. \/ purse[p][k] = <<>>
        \/ \E n \in 1 .. MaxWorth : purse[p][k] = <<[num |-> n, dying |-> FALSE]>>
    BY DEF Init
  <2> QED BY <2>1, GoodEmpty, GoodStart
<1>2. purse \in [Players -> [Kinds -> Seq(Heap)]]
  <2>1. \A n \in 1 .. MaxWorth : <<[num |-> n, dying |-> FALSE]>> \in Seq(Heap)
    BY GoodStart DEF Good
  <2>2. <<>> \in Seq(Heap)
    OBVIOUS
  <2>3. {<<>>} \cup {<<[num |-> n, dying |-> FALSE]>> : n \in 1 .. MaxWorth} \subseteq Seq(Heap)
    BY <2>1, <2>2
  <2>4. purse \in [Players -> [Kinds -> {<<>>} \cup
                                       {<<[num |-> n, dying |-> FALSE]>> : n \in 1 .. MaxWorth}]]
    BY Zenon DEF Init
  <2>5. PICK S : S = {<<>>} \cup {<<[num |-> n, dying |-> FALSE]>> : n \in 1 .. MaxWorth}
    OBVIOUS
  <2>6. S \subseteq Seq(Heap) /\ purse \in [Players -> [Kinds -> S]]
    BY <2>3, <2>4, <2>5, Zenon
  <2> QED BY <2>6
<1>3. floor \in [Players -> Coinage]
  BY MergeNothing DEF Init
<1>4. Purses
  BY <1>1, <1>2, <1>3 DEF Purses, Fit
<1>5. meals \in [Players -> 0 .. MaxMeals]
  BY TradeAssumption DEF Init
<1>6. Kept
  BY <1>4, <1>5 DEF Kept, Init
<1>7. ASSUME NEW p \in Players PROVE Sound(p) \in Nat /\ Doomed(p) = 0
  <2>1. Risked(purse[p]) = Nothing
    BY <1>1 DEF Risked, Nothing
  <2> QED BY <1>4, <2>1, AccountBefore, MergeNothing DEF Account, SoundOf, DoomedOf
<1>8. P!Init
  BY <1>7 DEF P!Init, Init
<1> QED BY <1>6, <1>8

LEMMA NextKept ==
  ASSUME Kept, [Next]_vars
  PROVE  Kept' /\ [P!Next]_(P!vars)
<1>1. CASE UNCHANGED vars
  BY <1>1 DEF vars, Kept, Purses, P!vars, Sound, Doomed
<1>2. CASE Next
  <2>1. PICK p \in Players :
           \/ \E i \in Items, ks \in (SUBSET Kinds) \ {{}}, top \in Words : Buy(p, i, ks, top)
           \/ \E sold \in SUBSET Items, top \in Words : Sell(p, sold, top)
           \/ \E n \in 1 .. MaxMeals : Order(p, n)
           \/ \E ks \in (SUBSET Kinds) \ {{}}, k \in Kinds, n, m \in 0 .. 1 : Change(p, ks, n, k, m)
           \/ Minimize(p)
           \/ Eat(p)
           \/ Sweep
    BY <1>2, Zenon DEF Next
  <2>2. ASSUME NEW i \in Items, NEW ks \in (SUBSET Kinds) \ {{}}, NEW top \in Words,
               Buy(p, i, ks, top)
        PROVE  Kept' /\ P!Next
    BY <2>2, BuyFair, Zenon DEF P!Next
  <2>3. ASSUME NEW sold \in SUBSET Items, NEW top \in Words, Sell(p, sold, top)
        PROVE  Kept' /\ P!Next
    BY <2>3, SellFair, Zenon DEF P!Next
  <2>4. ASSUME NEW n \in 1 .. MaxMeals, Order(p, n)
        PROVE  Kept' /\ P!Next
    BY <2>4, OrderFair, Zenon DEF P!Next
  <2>5. ASSUME NEW ks \in (SUBSET Kinds) \ {{}}, NEW k \in Kinds, NEW n \in 0 .. 1,
               NEW m \in 0 .. 1, Change(p, ks, n, k, m)
        PROVE  Kept' /\ P!Next
    <3>1. ks \in SUBSET Kinds /\ ks # {}
      OBVIOUS
    <3> QED BY <2>5, <3>1, ChangeFair, Zenon DEF P!Next
  <2>6. ASSUME Minimize(p) PROVE Kept' /\ P!Next
    BY <2>6, MinimizeFair, Zenon DEF P!Next
  <2>7. ASSUME Eat(p) PROVE Kept' /\ P!Next
    BY <2>7, EatFair, Zenon DEF P!Next
  <2>8. ASSUME Sweep PROVE Kept' /\ P!Next
    BY <2>8, SweepFair, Zenon DEF P!Next
  <2>9. Kept' /\ P!Next
    BY <2>1, <2>2, <2>3, <2>4, <2>5, <2>6, <2>7, <2>8, Zenon
  <2> QED BY <2>9
<1> QED BY <1>1, <1>2

LEMMA TradeKept == Spec => []Kept
<1>1. Init => Kept
  BY InitKept
<1>2. Kept /\ [Next]_vars => Kept'
  BY NextKept
<1> QED BY <1>1, <1>2, PTL DEF Spec

\* No purse ever holds a number of coins that there cannot be, whatever is paid,
\* given back or destructed: a payment takes what is there and not more (money.c,
\* trade.c).
THEOREM TradeTypes == Spec => []TypeOK
<1>1. Kept => TypeOK
  BY KeptIs
<1> QED BY <1>1, TradeKept, PTL

\* The coins that a player keeps are those that present() finds: a heap that does
\* not wait for its call-out is ahead of all that do (heap.c, money.c).
THEOREM TradeLastingIsFound == Spec => []LastingIsFound
<1>1. Kept => LastingIsFound
  BY KeptIs
<1> QED BY <1>1, TradeKept, PTL

\* Who asks for change in coins that there are pays the price and no more.
LEMMA ExactStep ==
  ASSUME Kept, NEW p \in Players, NEW i \in Items, PaysOther(p, i)
  PROVE  \A ks \in (SUBSET Kinds) \ {{}}, top \in Kinds : ~Buy(p, i, ks, top)
<1>1. ASSUME NEW ks \in (SUBSET Kinds) \ {{}}, NEW top \in Kinds, Buy(p, i, ks, top)
      PROVE  FALSE
  <2>1. Sound(p)' + Doomed(p)' + BuyPrice[i] = Sound(p) + Doomed(p)
    BY <1>1, BuyFair
  <2> QED BY <2>1 DEF PaysOther
<1> QED BY <1>1

\* The shop, the pub and the bank keep what Purse promises, for any prices, any
\* values of coins, any limits on change and whatever coins are asked for: every step
\* of theirs is one of Purse or changes nothing that Purse speaks of, and who asks for
\* change in coins that there are has all of it back.
THEOREM TradeFair == Spec => FairTrade
<1>1. Init => P!Init
  BY InitKept
<1>2. Kept /\ [Next]_vars => [P!Next]_(P!vars)
  BY NextKept
<1>3. Kept /\ [Next]_vars
        => [\A p \in Players, i \in Items : owner'[i] # owner[i] /\ PaysOther(p, i) =>
              \A ks \in (SUBSET Kinds) \ {{}}, top \in Kinds : ~Buy(p, i, ks, top)]_vars
  BY ExactStep
<1> QED BY <1>1, <1>2, <1>3, TradeKept, PTL DEF Spec, FairTrade, ExactPrice, P!Spec
=============================================================================
