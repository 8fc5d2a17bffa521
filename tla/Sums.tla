-------------------------------- MODULE Sums --------------------------------
(***************************************************************************)
(* Sums over finite sets.                                                  *)
(*                                                                         *)
(* The models add things up with SumFunctionOnSet, a fold that takes the   *)
(* elements of a set in an order nobody knows.  The lemmas here say that   *)
(* the order does not matter and how a sum changes with its terms; the     *)
(* proofs about heaps, about what players own and about domains use them.  *)
(*                                                                         *)
(* The provers have no induction over sets, so each lemma that needs one   *)
(* looks at a smallest set for which it fails (SmallestSet).               *)
(***************************************************************************)
EXTENDS FiniteSetsExt, TLAPS, FiniteSetTheorems, WellFoundedInduction

-----------------------------------------------------------------------------
(***************************************************************************)
(* Smallest numbers and sets.                                              *)
(***************************************************************************)
LEMMA SmallestNumber ==
  ASSUME NEW T \in SUBSET Nat, T # {}
  PROVE  \E m \in T : \A n \in T : m <= n
<1>1. PICK x \in T : \A y \in T : ~(<<y, x>> \in OpToRel(<, Nat))
  BY WFMin, NatLessThanWellFounded
<1>2. OpToRel(<, Nat) = {ss \in Nat \X Nat : ss[1] < ss[2]}
  BY DEF OpToRel
<1>3. ASSUME NEW y \in T PROVE x <= y
  <2>1. ~(<<y, x>> \in {ss \in Nat \X Nat : ss[1] < ss[2]})
    BY <1>1, <1>2, Zenon
  <2> QED BY <2>1
<1> QED BY <1>3

\* Among sets of parts of a finite set there is one without a smaller one.
LEMMA SmallestSet ==
  ASSUME NEW S, IsFiniteSet(S), NEW X \in SUBSET (SUBSET S), X # {}
  PROVE  \E s \in X : \A x \in s : s \ {x} \notin X
<1> DEFINE T == {Cardinality(s) : s \in X}
<1>1. \A s \in X : IsFiniteSet(s) /\ Cardinality(s) \in Nat
  BY FS_Subset, FS_CardinalityType
<1>2. T \in SUBSET Nat /\ T # {}
  BY <1>1
<1>3. PICK m \in T : \A n \in T : m <= n
  <2> HIDE DEF T
  <2> QED BY <1>2, SmallestNumber
<1>4. PICK s \in X : m = Cardinality(s)
  OBVIOUS
<1>5. ASSUME NEW x \in s, s \ {x} \in X PROVE FALSE
  <2>1. Cardinality(s \ {x}) = Cardinality(s) - 1
    BY <1>1, FS_RemoveElement
  <2>2. m <= Cardinality(s \ {x})
    BY <1>3, <1>5
  <2> QED BY <1>1, <1>4, <2>1, <2>2
<1> QED BY <1>5

-----------------------------------------------------------------------------
(***************************************************************************)
(* The fold is a table of the sums over all parts of the set, each made    *)
(* from that of a smaller part.                                            *)
(***************************************************************************)
Sum(f, S) == SumFunctionOnSet(f, S)

Pick(s) == CHOOSE x \in s : TRUE

\* g has the sums of f over the sets in L, which has the smaller ones too.
Table(g, f, L) ==
  g = [s \in L |-> IF s = {} THEN 0 ELSE f[Pick(s)] + g[s \ {Pick(s)}]]

Parts(S, n) == {s \in SUBSET S : Cardinality(s) <= n}

LEMMA TableNext ==
  ASSUME NEW S, IsFiniteSet(S), NEW f, NEW n \in Nat, NEW g, Table(g, f, Parts(S, n))
  PROVE  \E h : Table(h, f, Parts(S, n + 1))
<1> DEFINE h == [s \in Parts(S, n + 1) |->
                   IF s = {} THEN 0 ELSE f[Pick(s)] + g[s \ {Pick(s)}]]
<1>1. ASSUME NEW s \in Parts(S, n + 1), s # {}
      PROVE  s \ {Pick(s)} \in Parts(S, n)
  <2>1. s \in SUBSET S /\ Cardinality(s) <= n + 1 /\ IsFiniteSet(s)
    BY FS_Subset DEF Parts
  <2>2. Pick(s) \in s
    BY <1>1 DEF Pick
  <2>3. Cardinality(s) \in Nat /\ Cardinality(s \ {Pick(s)}) = Cardinality(s) - 1
    BY <2>1, <2>2, FS_CardinalityType, FS_RemoveElement
  <2> QED BY <2>1, <2>3 DEF Parts
<1>2. ASSUME NEW t \in Parts(S, n)
      PROVE  h[t] = g[t]
  <2>1. t \in Parts(S, n + 1)
    <3>1. t \in SUBSET S /\ Cardinality(t) <= n /\ Cardinality(t) \in Nat
      BY FS_Subset, FS_CardinalityType DEF Parts
    <3> QED BY <3>1 DEF Parts
  <2>2. g[t] = IF t = {} THEN 0 ELSE f[Pick(t)] + g[t \ {Pick(t)}]
    BY DEF Table
  <2> QED BY <2>1, <2>2
<1>3. \A s \in Parts(S, n + 1) :
        (IF s = {} THEN 0 ELSE f[Pick(s)] + g[s \ {Pick(s)}])
          = (IF s = {} THEN 0 ELSE f[Pick(s)] + h[s \ {Pick(s)}])
  BY <1>1, <1>2
<1>4. h = [s \in Parts(S, n + 1) |->
             IF s = {} THEN 0 ELSE f[Pick(s)] + h[s \ {Pick(s)}]]
  BY <1>3
<1> HIDE DEF h
<1> QED BY <1>4 DEF Table

LEMMA TableExists ==
  ASSUME NEW S, IsFiniteSet(S), NEW f
  PROVE  \E g : Table(g, f, SUBSET S)
<1> DEFINE P(n) == \E g : Table(g, f, Parts(S, n))
           T == {n \in Nat : ~P(n)}
<1>1. P(0)
  <2>1. Parts(S, 0) = {{}}
    <3>1. \A s \in SUBSET S : IsFiniteSet(s) /\ Cardinality(s) \in Nat
      BY FS_Subset, FS_CardinalityType
    <3>2. \A s \in SUBSET S : Cardinality(s) <= 0 <=> s = {}
      BY <3>1, FS_EmptySet
    <3> QED BY <3>2 DEF Parts
  <2>2. Table([s \in {{}} |-> 0], f, {{}})
    BY DEF Table
  <2> QED BY <2>1, <2>2
<1>2. ASSUME NEW n \in Nat, P(n) PROVE P(n + 1)
  BY <1>2, TableNext
<1> HIDE DEF P
<1>3. T = {}
  <2> SUFFICES ASSUME T # {} PROVE FALSE
    OBVIOUS
  <2>1. PICK m \in T : \A n \in T : m <= n
    BY SmallestNumber
  <2>2. m # 0 /\ m - 1 \in Nat /\ m - 1 \notin T
    BY <1>1, <2>1
  <2>3. P(m - 1) /\ (m - 1) + 1 = m
    BY <2>2
  <2> QED BY <1>2, <2>2, <2>3
<1>4. Cardinality(S) \in Nat /\ Parts(S, Cardinality(S)) = SUBSET S
  BY FS_CardinalityType, FS_Subset DEF Parts
<1>5. P(Cardinality(S))
  BY <1>3, <1>4
<1> QED BY <1>4, <1>5 DEF P

LEMMA SumTable ==
  ASSUME NEW S, IsFiniteSet(S), NEW f
  PROVE  \E g : Table(g, f, SUBSET S) /\ Sum(f, S) = g[S]
<1> DEFINE g == CHOOSE h : Table(h, f, SUBSET S)
<1>1. Sum(f, S) = g[S]
  BY DEF Sum, SumFunctionOnSet, FoldFunctionOnSet, MapThenFoldSet, Table, Pick
<1>2. Table(g, f, SUBSET S)
  BY TableExists
<1> HIDE DEF g
<1> QED BY <1>1, <1>2

\* A table for a set agrees with one for a part of it.
LEMMA TablesAgree ==
  ASSUME NEW S, IsFiniteSet(S), NEW R \in SUBSET S, NEW f, NEW g, NEW h,
         Table(g, f, SUBSET S), Table(h, f, SUBSET R)
  PROVE  g[R] = h[R]
<1> DEFINE X == {s \in SUBSET R : g[s] # h[s]}
<1> SUFFICES ASSUME X # {} PROVE FALSE
  OBVIOUS
<1>1. IsFiniteSet(R) /\ X \in SUBSET (SUBSET R)
  BY FS_Subset
<1>2. PICK s \in X : \A x \in s : s \ {x} \notin X
  <2> HIDE DEF X
  <2> QED BY <1>1, SmallestSet
<1>3. /\ s \in SUBSET R /\ s \in SUBSET S
      /\ g[s] = IF s = {} THEN 0 ELSE f[Pick(s)] + g[s \ {Pick(s)}]
      /\ h[s] = IF s = {} THEN 0 ELSE f[Pick(s)] + h[s \ {Pick(s)}]
  BY DEF Table
<1>4. s # {}
  BY <1>3
<1>5. Pick(s) \in s
  BY <1>4 DEF Pick
<1>6. g[s \ {Pick(s)}] = h[s \ {Pick(s)}]
  BY <1>2, <1>3, <1>5
<1> QED BY <1>3, <1>4, <1>6

-----------------------------------------------------------------------------
(***************************************************************************)
(* What sums are.                                                          *)
(***************************************************************************)
LEMMA SumEmpty ==
  ASSUME NEW f
  PROVE  Sum(f, {}) = 0
<1>1. IsFiniteSet({})
  BY FS_EmptySet, Zenon
<1>2. PICK g : Table(g, f, SUBSET {}) /\ Sum(f, {}) = g[{}]
  BY <1>1, SumTable
<1> QED BY <1>2 DEF Table

LEMMA SumPick ==
  ASSUME NEW S, IsFiniteSet(S), NEW f, S # {}
  PROVE  Pick(S) \in S /\ Sum(f, S) = f[Pick(S)] + Sum(f, S \ {Pick(S)})
<1> DEFINE R == S \ {Pick(S)}
<1>1. Pick(S) \in S
  BY DEF Pick
<1>2. IsFiniteSet(R) /\ R \in SUBSET S
  BY FS_Subset
<1>3. PICK g : Table(g, f, SUBSET S) /\ Sum(f, S) = g[S]
  BY SumTable
<1> HIDE DEF R
<1>4. PICK h : Table(h, f, SUBSET R) /\ Sum(f, R) = h[R]
  BY <1>2, SumTable
<1>5. g[R] = h[R]
  BY <1>2, <1>3, <1>4, TablesAgree
<1>6. g[S] = f[Pick(S)] + g[R]
  BY <1>3 DEF Table, R
<1> QED BY <1>1, <1>3, <1>4, <1>5, <1>6 DEF R

Integral(f, S) == \A x \in S : f[x] \in Int
Natural(f, S) == \A x \in S : f[x] \in Nat

LEMMA SumInt ==
  ASSUME NEW S, IsFiniteSet(S), NEW f, Integral(f, S)
  PROVE  Sum(f, S) \in Int
<1> DEFINE X == {s \in SUBSET S : Sum(f, s) \notin Int}
<1> SUFFICES ASSUME X # {} PROVE FALSE
  OBVIOUS
<1>1. PICK s \in X : \A x \in s : s \ {x} \notin X
  <2>1. X \in SUBSET (SUBSET S)
    OBVIOUS
  <2> HIDE DEF X
  <2> QED BY <2>1, SmallestSet
<1>2. IsFiniteSet(s) /\ s \in SUBSET S /\ Sum(f, s) \notin Int
  BY FS_Subset
<1>3. s # {}
  BY <1>2, SumEmpty
<1>4. Pick(s) \in s /\ Sum(f, s) = f[Pick(s)] + Sum(f, s \ {Pick(s)})
  BY <1>2, <1>3, SumPick
<1>5. Sum(f, s \ {Pick(s)}) \in Int
  BY <1>1, <1>2, <1>4
<1>6. f[Pick(s)] \in Int
  BY <1>2, <1>4 DEF Integral
<1> QED BY <1>2, <1>4, <1>5, <1>6

LEMMA SumNat ==
  ASSUME NEW S, IsFiniteSet(S), NEW f, Natural(f, S)
  PROVE  Sum(f, S) \in Nat
<1> DEFINE X == {s \in SUBSET S : Sum(f, s) \notin Nat}
<1> SUFFICES ASSUME X # {} PROVE FALSE
  OBVIOUS
<1>1. PICK s \in X : \A x \in s : s \ {x} \notin X
  <2>1. X \in SUBSET (SUBSET S)
    OBVIOUS
  <2> HIDE DEF X
  <2> QED BY <2>1, SmallestSet
<1>2. IsFiniteSet(s) /\ s \in SUBSET S /\ Sum(f, s) \notin Nat
  BY FS_Subset
<1>3. s # {}
  BY <1>2, SumEmpty
<1>4. Pick(s) \in s /\ Sum(f, s) = f[Pick(s)] + Sum(f, s \ {Pick(s)})
  BY <1>2, <1>3, SumPick
<1>5. Sum(f, s \ {Pick(s)}) \in Nat
  BY <1>1, <1>2, <1>4
<1>6. f[Pick(s)] \in Nat
  BY <1>2, <1>4 DEF Natural
<1> QED BY <1>2, <1>4, <1>5, <1>6

\* Any term may be taken out, whichever the fold takes.
TakesOut(f, s) == \A x \in s : Sum(f, s) = f[x] + Sum(f, s \ {x})

LEMMA SumTakesOut ==
  ASSUME NEW S, IsFiniteSet(S), NEW f, Integral(f, S)
  PROVE  TakesOut(f, S)
<1> DEFINE X == {s \in SUBSET S : ~TakesOut(f, s)}
<1> SUFFICES ASSUME X # {} PROVE FALSE
  OBVIOUS
<1>1. PICK s \in X : \A x \in s : s \ {x} \notin X
  <2>1. X \in SUBSET (SUBSET S)
    OBVIOUS
  <2> HIDE DEF X
  <2> QED BY <2>1, SmallestSet
<1>2. IsFiniteSet(s) /\ s \in SUBSET S
  BY FS_Subset
<1>3. PICK x \in s : Sum(f, s) # f[x] + Sum(f, s \ {x})
  BY DEF TakesOut
<1> DEFINE q == Pick(s)
<1>4. q \in s /\ Sum(f, s) = f[q] + Sum(f, s \ {q})
  BY <1>2, <1>3, SumPick
<1> HIDE DEF q
<1>5. q # x
  BY <1>3, <1>4
<1>6. TakesOut(f, s \ {q}) /\ TakesOut(f, s \ {x})
  BY <1>1, <1>2, <1>4
<1>7. Sum(f, s \ {q}) = f[x] + Sum(f, (s \ {q}) \ {x})
  BY <1>5, <1>6 DEF TakesOut
<1>8. Sum(f, s \ {x}) = f[q] + Sum(f, (s \ {x}) \ {q})
  BY <1>4, <1>5, <1>6 DEF TakesOut
<1>9. (s \ {q}) \ {x} = (s \ {x}) \ {q}
  OBVIOUS
<1>10. /\ f[x] \in Int /\ f[q] \in Int
       /\ Sum(f, (s \ {x}) \ {q}) \in Int
  <2>1. IsFiniteSet((s \ {x}) \ {q}) /\ Integral(f, (s \ {x}) \ {q})
    BY <1>2, FS_Subset DEF Integral
  <2>2. Sum(f, (s \ {x}) \ {q}) \in Int
    BY <2>1, SumInt
  <2> QED BY <1>2, <1>4, <2>2 DEF Integral
<1>11. Sum(f, (s \ {q}) \ {x}) = Sum(f, (s \ {x}) \ {q})
  BY <1>9
<1>12. Sum(f, s) = f[q] + (f[x] + Sum(f, (s \ {x}) \ {q}))
  BY <1>4, <1>7, <1>11
<1> QED BY <1>3, <1>8, <1>10, <1>12

LEMMA SumWithout ==
  ASSUME NEW S, IsFiniteSet(S), NEW f, Integral(f, S), NEW x \in S
  PROVE  /\ Sum(f, S) = f[x] + Sum(f, S \ {x})
         /\ f[x] \in Int
         /\ Sum(f, S \ {x}) \in Int
<1>1. Sum(f, S) = f[x] + Sum(f, S \ {x})
  BY SumTakesOut DEF TakesOut
<1>2. IsFiniteSet(S \ {x}) /\ Integral(f, S \ {x})
  BY FS_Subset DEF Integral
<1>3. Sum(f, S \ {x}) \in Int
  BY <1>2, SumInt
<1> QED BY <1>1, <1>3 DEF Integral

-----------------------------------------------------------------------------
(***************************************************************************)
(* How sums change with their terms.                                       *)
(***************************************************************************)
Coincide(f, g, S) == \A x \in S : f[x] = g[x]

LEMMA SumAgree ==
  ASSUME NEW S, IsFiniteSet(S), NEW f, NEW g, Coincide(f, g, S)
  PROVE  Sum(f, S) = Sum(g, S)
<1> DEFINE X == {s \in SUBSET S : Sum(f, s) # Sum(g, s)}
<1> SUFFICES ASSUME X # {} PROVE FALSE
  OBVIOUS
<1>1. PICK s \in X : \A x \in s : s \ {x} \notin X
  <2>1. X \in SUBSET (SUBSET S)
    OBVIOUS
  <2> HIDE DEF X
  <2> QED BY <2>1, SmallestSet
<1>2. IsFiniteSet(s) /\ s \in SUBSET S /\ Sum(f, s) # Sum(g, s)
  BY FS_Subset
<1>3. s # {}
  BY <1>2, SumEmpty
<1>4. /\ Pick(s) \in s /\ Sum(f, s) = f[Pick(s)] + Sum(f, s \ {Pick(s)})
      /\ Sum(g, s) = g[Pick(s)] + Sum(g, s \ {Pick(s)})
  BY <1>2, <1>3, SumPick
<1>5. Sum(f, s \ {Pick(s)}) = Sum(g, s \ {Pick(s)})
  BY <1>1, <1>2, <1>4
<1>6. f[Pick(s)] = g[Pick(s)]
  BY <1>2, <1>4 DEF Coincide
<1> QED BY <1>2, <1>4, <1>5, <1>6

\* One term changes.
LEMMA SumChange ==
  ASSUME NEW S, IsFiniteSet(S), NEW f, NEW g, Integral(f, S), Integral(g, S),
         NEW x \in S, Coincide(f, g, S \ {x})
  PROVE  Sum(g, S) = Sum(f, S) + (g[x] - f[x])
<1>1. IsFiniteSet(S \ {x})
  BY FS_Subset
<1>2. Sum(f, S \ {x}) = Sum(g, S \ {x})
  BY <1>1, SumAgree
<1>3. /\ Sum(f, S) = f[x] + Sum(f, S \ {x}) /\ f[x] \in Int /\ Sum(f, S \ {x}) \in Int
      /\ Sum(g, S) = g[x] + Sum(g, S \ {x}) /\ g[x] \in Int
  BY SumWithout
<1> QED BY <1>2, <1>3

\* Two terms change.
LEMMA SumChangeTwo ==
  ASSUME NEW S, IsFiniteSet(S), NEW f, NEW g, Integral(f, S), Integral(g, S),
         NEW x \in S, NEW y \in S \ {x}, Coincide(f, g, S \ {x, y})
  PROVE  Sum(g, S) = Sum(f, S) + (g[x] - f[x]) + (g[y] - f[y])
<1> DEFINE R == S \ {x}
<1>1. IsFiniteSet(R) /\ Integral(f, R) /\ Integral(g, R) /\ y \in R
  BY FS_Subset DEF Integral
<1>2. Coincide(f, g, R \ {y})
  BY DEF Coincide
<1> HIDE DEF R
<1>3. Sum(g, R) = Sum(f, R) + (g[y] - f[y])
  BY <1>1, <1>2, SumChange
<1>4. /\ Sum(f, S) = f[x] + Sum(f, R) /\ f[x] \in Int /\ Sum(f, R) \in Int
      /\ Sum(g, S) = g[x] + Sum(g, R) /\ g[x] \in Int
  BY SumWithout DEF R
<1>5. f[y] \in Int /\ g[y] \in Int
  BY <1>1 DEF Integral
<1> QED BY <1>3, <1>4, <1>5

\* No term is greater than the sum, if none is negative.
LEMMA SumBounds ==
  ASSUME NEW S, IsFiniteSet(S), NEW f, Natural(f, S), NEW x \in S
  PROVE  f[x] <= Sum(f, S)
<1>1. Integral(f, S)
  BY DEF Integral, Natural
<1>2. Sum(f, S) = f[x] + Sum(f, S \ {x})
  BY <1>1, SumWithout
<1>3. IsFiniteSet(S \ {x}) /\ Natural(f, S \ {x})
  BY FS_Subset DEF Natural
<1>4. Sum(f, S \ {x}) \in Nat /\ f[x] \in Nat
  BY <1>3, SumNat DEF Natural
<1> QED BY <1>2, <1>4

\* A part of a set adds up to no more than the whole.
LEMMA SumPart ==
  ASSUME NEW S, IsFiniteSet(S), NEW f, Natural(f, S), NEW R \in SUBSET S
  PROVE  Sum(f, R) <= Sum(f, S)
<1> DEFINE X == {s \in SUBSET S : ~(Sum(f, R) <= Sum(f, R \cup s))}
<1> SUFFICES ASSUME X # {} PROVE FALSE
  <2>1. S \in SUBSET S /\ R \cup S = S
    OBVIOUS
  <2> QED BY <2>1
<1>1. PICK s \in X : \A x \in s : s \ {x} \notin X
  <2>1. X \in SUBSET (SUBSET S)
    OBVIOUS
  <2> HIDE DEF X
  <2> QED BY <2>1, SmallestSet
<1>2. IsFiniteSet(R) /\ IsFiniteSet(R \cup s)
  <2>1. R \cup s \in SUBSET S
    OBVIOUS
  <2> QED BY <2>1, FS_Subset
<1>3. Sum(f, R) \in Nat
  BY <1>2, SumNat DEF Natural
<1>4. s # {}
  <2>1. ASSUME s = {} PROVE R \cup s = R
    BY <2>1
  <2> QED BY <1>3, <2>1
<1>5. PICK x \in s : TRUE
  BY <1>4
<1>6. Sum(f, R) <= Sum(f, R \cup (s \ {x}))
  BY <1>1, <1>5
<1>7. CASE x \in R
  <2>1. R \cup (s \ {x}) = R \cup s
    BY <1>7
  <2> QED BY <1>6, <2>1
<1>8. CASE x \notin R
  <2>1. R \cup (s \ {x}) = (R \cup s) \ {x}
    BY <1>8
  <2>2. Integral(f, R \cup s) /\ f[x] \in Nat
    BY <1>5 DEF Integral, Natural
  <2>3. /\ Sum(f, R \cup s) = f[x] + Sum(f, (R \cup s) \ {x})
        /\ Sum(f, (R \cup s) \ {x}) \in Int
    <3>1. PICK P : P = R \cup s
      OBVIOUS
    <3>2. x \in P /\ IsFiniteSet(P) /\ Integral(f, P)
      BY <1>2, <1>5, <2>2, <3>1
    <3>3. Sum(f, P) = f[x] + Sum(f, P \ {x}) /\ Sum(f, P \ {x}) \in Int
      BY <3>2, SumWithout
    <3> QED BY <3>1, <3>3
  <2>4. Sum(f, R) <= Sum(f, R \cup s)
    <3>1. Sum(f, R) <= Sum(f, (R \cup s) \ {x})
      BY <1>6, <2>1, Zenon
    <3> HIDE DEF X
    <3> QED BY <1>3, <2>2, <2>3, <3>1
  <2> QED BY <2>4
<1> QED BY <1>7, <1>8

\* Sums may be added term by term.
Termwise(f, g, h, S) == \A x \in S : h[x] = f[x] + g[x]

LEMMA SumPlus ==
  ASSUME NEW S, IsFiniteSet(S), NEW f, NEW g, NEW h,
         Integral(f, S), Integral(g, S), Termwise(f, g, h, S)
  PROVE  Sum(h, S) = Sum(f, S) + Sum(g, S)
<1> DEFINE X == {s \in SUBSET S : Sum(h, s) # Sum(f, s) + Sum(g, s)}
<1> SUFFICES ASSUME X # {} PROVE FALSE
  OBVIOUS
<1>1. PICK s \in X : \A x \in s : s \ {x} \notin X
  <2>1. X \in SUBSET (SUBSET S)
    OBVIOUS
  <2> HIDE DEF X
  <2> QED BY <2>1, SmallestSet
<1>2. IsFiniteSet(s) /\ s \in SUBSET S /\ Sum(h, s) # Sum(f, s) + Sum(g, s)
  BY FS_Subset
<1>3. s # {}
  BY <1>2, SumEmpty
<1>4. PICK x \in s : TRUE
  BY <1>3
<1>5. Sum(h, s \ {x}) = Sum(f, s \ {x}) + Sum(g, s \ {x})
  BY <1>1, <1>2, <1>4
<1>6. Integral(f, s) /\ Integral(g, s) /\ Integral(h, s)
  BY <1>2 DEF Integral, Termwise
<1>7. /\ Sum(f, s) = f[x] + Sum(f, s \ {x}) /\ f[x] \in Int /\ Sum(f, s \ {x}) \in Int
      /\ Sum(g, s) = g[x] + Sum(g, s \ {x}) /\ g[x] \in Int /\ Sum(g, s \ {x}) \in Int
      /\ Sum(h, s) = h[x] + Sum(h, s \ {x})
  BY <1>2, <1>4, <1>6, SumWithout
<1>8. h[x] = f[x] + g[x]
  BY <1>2, <1>4 DEF Termwise
<1> QED BY <1>2, <1>5, <1>7, <1>8

AtMost(f, g, S) == \A x \in S : f[x] <= g[x]

LEMMA SumAtMost ==
  ASSUME NEW S, IsFiniteSet(S), NEW f, NEW g, Integral(f, S), Integral(g, S), AtMost(f, g, S)
  PROVE  Sum(f, S) <= Sum(g, S)
<1> DEFINE X == {s \in SUBSET S : ~(Sum(f, s) <= Sum(g, s))}
<1> SUFFICES ASSUME X # {} PROVE FALSE
  OBVIOUS
<1>1. PICK s \in X : \A x \in s : s \ {x} \notin X
  <2>1. X \in SUBSET (SUBSET S)
    OBVIOUS
  <2> HIDE DEF X
  <2> QED BY <2>1, SmallestSet
<1>2. IsFiniteSet(s) /\ s \in SUBSET S /\ ~(Sum(f, s) <= Sum(g, s))
  BY FS_Subset
<1>3. s # {}
  BY <1>2, SumEmpty
<1>4. PICK x \in s : TRUE
  BY <1>3
<1>5. Sum(f, s \ {x}) <= Sum(g, s \ {x})
  BY <1>1, <1>2, <1>4
<1>6. Integral(f, s) /\ Integral(g, s)
  BY <1>2 DEF Integral
<1>7. /\ Sum(f, s) = f[x] + Sum(f, s \ {x}) /\ f[x] \in Int /\ Sum(f, s \ {x}) \in Int
      /\ Sum(g, s) = g[x] + Sum(g, s \ {x}) /\ g[x] \in Int /\ Sum(g, s \ {x}) \in Int
  BY <1>2, <1>4, <1>6, SumWithout
<1>8. f[x] <= g[x]
  BY <1>2, <1>4 DEF AtMost
<1> QED BY <1>2, <1>5, <1>7, <1>8

\* Terms that are 0 may be left out.
Zero(f, S) == \A x \in S : f[x] = 0

LEMMA SumZero ==
  ASSUME NEW S, IsFiniteSet(S), NEW f, Zero(f, S)
  PROVE  Sum(f, S) = 0
<1> DEFINE X == {s \in SUBSET S : Sum(f, s) # 0}
<1> SUFFICES ASSUME X # {} PROVE FALSE
  OBVIOUS
<1>1. PICK s \in X : \A x \in s : s \ {x} \notin X
  <2>1. X \in SUBSET (SUBSET S)
    OBVIOUS
  <2> HIDE DEF X
  <2> QED BY <2>1, SmallestSet
<1>2. IsFiniteSet(s) /\ s \in SUBSET S /\ Sum(f, s) # 0
  BY FS_Subset
<1>3. s # {}
  BY <1>2, SumEmpty
<1>4. Pick(s) \in s /\ Sum(f, s) = f[Pick(s)] + Sum(f, s \ {Pick(s)})
  BY <1>2, <1>3, SumPick
<1>5. Sum(f, s \ {Pick(s)}) = 0 /\ f[Pick(s)] = 0
  BY <1>1, <1>2, <1>4 DEF Zero
<1> QED BY <1>2, <1>4, <1>5
=============================================================================
