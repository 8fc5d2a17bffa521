------------------------- MODULE ContainmentProofs -------------------------
(***************************************************************************)
(* What a container keeps of its contents is what is in it, for any        *)
(* objects, however they are nested.                                       *)
(*                                                                         *)
(* Nothing is inside itself, so the containers around one form a chain,    *)
(* and a message that goes up from c changes no container that it does not *)
(* reach.  Every container it passes on the way takes the change for       *)
(* itself and finds the same change in what is in it: only the books of c  *)
(* are opened by d.  A move opens the books of the old and of the new      *)
(* environment, and its messages close them again.                         *)
(***************************************************************************)
EXTENDS Containment, Sums

-----------------------------------------------------------------------------
(***************************************************************************)
(* Objects in objects.  A rank grows on the way out.                       *)
(***************************************************************************)
Ranked(e, r) ==
    /\ r \in [Things -> Nat]
    /\ \A o \in Things : e[o] \in Things => r[o] < r[e[o]]

Nested(e) == \E r : Ranked(e, r)

\* S is all that is inside o.
Within(e, o, S) ==
    /\ S \in SUBSET Things
    /\ \A x \in Things : x \in S <=> e[x] = o \/ (e[x] \in Things /\ e[x] \in S)

\* What is around an object in D is in D.
Outward(e, D) ==
    /\ D \in SUBSET Things
    /\ \A x \in D : e[x] \in Things => e[x] \in D

LEMMA SubsetsFinite ==
  ASSUME NEW S \in SUBSET Things
  PROVE  IsFiniteSet(S)
BY ContainmentAssumption, FS_Subset

\* Ranks have an upper bound.
LEMMA Bounded ==
  ASSUME NEW r, r \in [Things -> Nat]
  PROVE  \E n \in Nat : \A o \in Things : r[o] <= n
<1> DEFINE B(s) == \E n \in Nat : \A o \in s : r[o] <= n
           X == {s \in SUBSET Things : ~B(s)}
<1> SUFFICES ASSUME X # {} PROVE FALSE
  <2>1. Things \in SUBSET Things
    OBVIOUS
  <2> QED BY <2>1
<1>1. PICK s \in X : \A x \in s : s \ {x} \notin X
  <2>1. X \in SUBSET (SUBSET Things) /\ IsFiniteSet(Things)
    BY ContainmentAssumption
  <2> HIDE DEF X
  <2> QED BY <2>1, SmallestSet
<1>2. CASE s = {}
  <2>1. B({})
    OBVIOUS
  <2> QED BY <1>2, <2>1
<1>3. ASSUME NEW x \in s PROVE FALSE
  <2>1. PICK n \in Nat : \A o \in s \ {x} : r[o] <= n
    BY <1>1
  <2>2. r[x] \in Nat
    OBVIOUS
  <2>3. CASE r[x] <= n
    BY <2>1, <2>3
  <2>4. CASE r[x] > n
    <3>1. \A o \in s : r[o] <= r[x]
      BY <2>1, <2>2, <2>4
    <3> QED BY <2>2, <3>1
  <2> QED BY <2>2, <2>3, <2>4
<1> QED BY <1>2, <1>3

\* In every set there is an innermost object, and an outermost one.
LEMMA LowestRank ==
  ASSUME NEW r, r \in [Things -> Nat], NEW T \in SUBSET Things, T # {}
  PROVE  \E x \in T : \A y \in T : r[x] <= r[y]
<1> DEFINE R == {r[x] : x \in T}
<1>1. R \in SUBSET Nat /\ R # {}
  OBVIOUS
<1>2. PICK m \in R : \A n \in R : m <= n
  <2> HIDE DEF R
  <2> QED BY <1>1, SmallestNumber
<1> QED BY <1>2

LEMMA HighestRank ==
  ASSUME NEW r, r \in [Things -> Nat], NEW T \in SUBSET Things, T # {}
  PROVE  \E x \in T : \A y \in T : r[y] <= r[x]
<1>1. PICK n \in Nat : \A o \in Things : r[o] <= n
  BY Bounded
<1> DEFINE q == [o \in Things |-> n - r[o]]
<1>2. q \in [Things -> Nat]
  BY <1>1
<1>3. PICK x \in T : \A y \in T : q[x] <= q[y]
  <2> HIDE DEF q
  <2> QED BY <1>2, LowestRank
<1>4. ASSUME NEW y \in T PROVE r[y] <= r[x]
  <2>1. n - r[x] <= n - r[y] /\ r[x] \in Nat /\ r[y] \in Nat
    BY <1>3
  <2> QED BY <2>1
<1> QED BY <1>4

\* What is inside o: the smallest set that has what is in o and what is in it.
LEMMA WithinExists ==
  ASSUME NEW e, NEW o
  PROVE  \E S : Within(e, o, S)
<1> DEFINE C(D) == \A x \in Things : e[x] = o \/ (e[x] \in Things /\ e[x] \in D) => x \in D
           S == {x \in Things : \A D \in SUBSET Things : C(D) => x \in D}
<1>1. C(S)
  OBVIOUS
<1>2. ASSUME NEW x \in S, ~(e[x] = o \/ (e[x] \in Things /\ e[x] \in S))
      PROVE  FALSE
  <2>1. C(S \ {x})
    BY <1>1, <1>2
  <2>2. S \ {x} \in SUBSET Things
    OBVIOUS
  <2> QED BY <2>1, <2>2
<1>3. S \in SUBSET Things
  OBVIOUS
<1>4. Within(e, o, S)
  BY <1>1, <1>2, <1>3 DEF Within
<1> QED BY <1>4

LEMMA InsideIsWithin ==
  ASSUME NEW o
  PROVE  Within(env, o, Inside(o))
<1> DEFINE G(w) == w = [x \in Things |-> env[x] = o \/ (env[x] \in Things /\ w[env[x]])]
           f == CHOOSE w : G(w)
<1>1. PICK S : Within(env, o, S)
  BY WithinExists
<1> DEFINE g == [x \in Things |-> x \in S]
<1>2. G(g)
  <2>1. ASSUME NEW x \in Things
        PROVE  g[x] <=> env[x] = o \/ (env[x] \in Things /\ g[env[x]])
    <3>1. x \in S <=> env[x] = o \/ (env[x] \in Things /\ env[x] \in S)
      BY <1>1, Zenon DEF Within
    <3>2. \A y \in Things : g[y] <=> y \in S
      BY Zenon
    <3> HIDE DEF g
    <3> QED BY <3>1, <3>2, Zenon
  <2>2. \A x \in Things : g[x] \in BOOLEAN
    OBVIOUS
  <2>3. \A x \in Things :
          g[x] = (env[x] = o \/ (env[x] \in Things /\ g[env[x]]))
    <3> HIDE DEF g
    <3> QED BY <2>1, <2>2
  <2>4. g = [x \in Things |-> g[x]]
    BY Zenon
  <2> HIDE DEF g
  <2>5. g = [x \in Things |-> env[x] = o \/ (env[x] \in Things /\ g[env[x]])]
    BY <2>3, <2>4, Zenon
  <2> QED BY <2>5
<1>3. G(f)
  BY <1>2
<1>4. Inside(o) = {x \in Things : f[x]}
  BY DEF Inside
<1> HIDE DEF f
<1>5. \A x \in Things : f[x] <=> env[x] = o \/ (env[x] \in Things /\ f[env[x]])
  BY <1>3
<1> QED BY <1>4, <1>5 DEF Within

\* What is inside has a lower rank.
LEMMA InsideIsLower ==
  ASSUME NEW e, NEW r, Ranked(e, r), NEW o \in Things, NEW S, Within(e, o, S)
  PROVE  \A x \in S : r[x] < r[o]
<1> DEFINE T == {x \in S : ~(r[x] < r[o])}
<1> SUFFICES ASSUME T # {} PROVE FALSE
  OBVIOUS
<1>1. T \in SUBSET Things /\ r \in [Things -> Nat]
  BY DEF Within, Ranked
<1>2. PICK x \in T : \A y \in T : r[y] <= r[x]
  <2> HIDE DEF T
  <2> QED BY <1>1, HighestRank
<1>3. x \in Things /\ x \in S /\ r[x] \in Nat /\ r[o] \in Nat
  BY <1>1
<1>4. CASE e[x] = o
  BY <1>3, <1>4 DEF Ranked
<1>5. CASE e[x] \in Things /\ e[x] \in S
  <2>1. r[x] < r[e[x]] /\ r[e[x]] \in Nat
    BY <1>1, <1>3, <1>5 DEF Ranked
  <2>2. e[x] \in T
    BY <1>3, <1>5, <2>1
  <2> QED BY <1>2, <1>3, <2>1, <2>2
<1> QED BY <1>3, <1>4, <1>5 DEF Within

-----------------------------------------------------------------------------
(***************************************************************************)
(* A message d to c: what each container on the way changes by.  The       *)
(* function of UpdateInternal exists because the ranks grow on the way.    *)
(***************************************************************************)
Message == [l : Int, w : Int, v : Int]

Senders(e, g, x) == {y \in Containers : e[y] = x /\ g[y] # Nothing}

First(S) == CHOOSE y \in S : TRUE

StepUp(e, c, d, g, x) ==
    IF x = c THEN d
    ELSE IF Senders(e, g, x) = {} THEN Nothing
         ELSE Passed(First(Senders(e, g, x)), x, g[First(Senders(e, g, x))])

Change(g, e, c, d, L) == g = [x \in L |-> StepUp(e, c, d, g, x)]

Levels(r, n) == {x \in Containers : r[x] < n}

LEMMA ChangeNext ==
  ASSUME NEW e, NEW r, Ranked(e, r), NEW c, NEW d, NEW n \in Nat,
         NEW g, Change(g, e, c, d, Levels(r, n))
  PROVE  \E h : Change(h, e, c, d, Levels(r, n + 1))
<1> DEFINE h == [x \in Levels(r, n + 1) |-> StepUp(e, c, d, g, x)]
<1>1. ASSUME NEW x \in Levels(r, n) PROVE h[x] = g[x]
  <2>1. x \in Levels(r, n + 1)
    BY ContainmentAssumption DEF Levels, Ranked
  <2>2. g[x] = StepUp(e, c, d, g, x)
    BY DEF Change
  <2> QED BY <2>1, <2>2
<1>2. ASSUME NEW x \in Levels(r, n + 1)
      PROVE  StepUp(e, c, d, g, x) = StepUp(e, c, d, h, x)
  <2>1. ASSUME NEW y \in Containers, e[y] = x PROVE g[y] = h[y]
    <3>1. r[y] < r[x] /\ r[x] < n + 1 /\ r[x] \in Nat /\ r[y] \in Nat
      BY <2>1, ContainmentAssumption DEF Levels, Ranked
    <3>2. y \in Levels(r, n)
      BY <3>1 DEF Levels
    <3> QED BY <1>1, <3>2
  <2> HIDE DEF h
  <2>2. Senders(e, g, x) = Senders(e, h, x)
    BY <2>1 DEF Senders
  <2>3. CASE Senders(e, g, x) = {}
    BY <2>2, <2>3 DEF StepUp
  <2>4. CASE Senders(e, g, x) # {}
    <3>1. First(Senders(e, g, x)) \in Senders(e, g, x)
      BY <2>4 DEF First
    <3>2. g[First(Senders(e, g, x))] = h[First(Senders(e, g, x))]
      BY <2>1, <3>1 DEF Senders
    <3> QED BY <2>2, <3>2 DEF StepUp
  <2> QED BY <2>3, <2>4
<1>3. h = [x \in Levels(r, n + 1) |-> StepUp(e, c, d, h, x)]
  BY <1>2
<1> HIDE DEF h
<1> QED BY <1>3 DEF Change

LEMMA ChangeExists ==
  ASSUME NEW e, Nested(e), NEW c, NEW d
  PROVE  \E g : Change(g, e, c, d, Containers)
<1> PICK r : Ranked(e, r)
  BY DEF Nested
<1> DEFINE P(n) == \E g : Change(g, e, c, d, Levels(r, n))
           T == {n \in Nat : ~P(n)}
<1>1. P(0)
  <2>1. Levels(r, 0) = {}
    BY ContainmentAssumption DEF Levels, Ranked
  <2>2. \E g : g = [x \in {} |-> StepUp(e, c, d, g, x)]
    <3> DEFINE g == [x \in {} |-> Nothing]
    <3>1. g = [x \in {} |-> StepUp(e, c, d, g, x)]
      OBVIOUS
    <3> QED BY <3>1
  <2> QED BY <2>1, <2>2 DEF Change
<1>2. ASSUME NEW n \in Nat, P(n) PROVE P(n + 1)
  BY <1>2, ChangeNext
<1> HIDE DEF P
<1>3. T = {}
  <2> SUFFICES ASSUME T # {} PROVE FALSE
    OBVIOUS
  <2>1. PICK m \in T : \A n \in T : m <= n
    BY SmallestNumber
  <2>2. m # 0 /\ m - 1 \in Nat /\ m - 1 \notin T
    BY <1>1, <2>1
  <2>3. P(m - 1) /\ (m - 1) + 1 = m
    BY <2>2
  <2> QED BY <1>2, <2>2, <2>3
<1>4. PICK n \in Nat : \A o \in Things : r[o] <= n
  BY Bounded DEF Ranked
<1>5. Levels(r, n + 1) = Containers
  <2>1. \A x \in Containers : r[x] <= n /\ r[x] \in Nat
    BY <1>4, ContainmentAssumption DEF Ranked
  <2> QED BY <2>1 DEF Levels
<1>6. P(n + 1)
  BY <1>3
<1> QED BY <1>5, <1>6 DEF P

Added(t, g) ==
    [light  |-> [x \in Containers |-> t.light[x] + g[x].l],
     weight |-> [x \in Containers |-> t.weight[x] + g[x].w],
     volume |-> [x \in Containers |-> t.volume[x] + g[x].v]]

LEMMA UpdateAdds ==
  ASSUME NEW e, Nested(e), NEW t, NEW c, NEW d
  PROVE  \E g : /\ Change(g, e, c, d, Containers)
                /\ UpdateInternal(e, t, c, d) = Added(t, g)
<1> DEFINE f == CHOOSE g : Change(g, e, c, d, Containers)
<1>1. Change(f, e, c, d, Containers)
  BY ChangeExists
<1>2. UpdateInternal(e, t, c, d) = Added(t, f)
  BY DEF UpdateInternal, Added, Change, StepUp, Senders, First
<1> HIDE DEF f
<1> QED BY <1>1, <1>2

LEMMA QuotientInt ==
  ASSUME NEW a \in Int, NEW b \in Nat \ {0}
  PROVE  Quotient(a, b) \in Int
BY DEF Quotient

LEMMA ReducedInt ==
  ASSUME NEW x \in Containers, NEW n \in Int
  PROVE  Reduced(x, n) \in Int
<1>1. Reduce[x] \in Nat \ {0} /\ n * 100 \in Int
  BY ContainmentAssumption
<1> HIDE DEF Quotient
<1> QED BY <1>1, QuotientInt DEF Reduced

LEMMA PassedMessage ==
  ASSUME NEW y, NEW x \in Containers, NEW d \in Message
  PROVE  Passed(y, x, d) \in Message
<1>1. d.l \in Int /\ d.w \in Int /\ d.v \in Int
  BY DEF Message
<1>2. Reduced(x, d.w) \in Int /\ Reduced(x, d.v) \in Int
  BY <1>1, ReducedInt
<1> QED BY <1>1, <1>2 DEF Passed, Message

LEMMA NothingMessage == Nothing \in Message
BY DEF Nothing, Message

LEMMA ChangeMessages ==
  ASSUME NEW e, Nested(e), NEW c, NEW d \in Message,
         NEW g, Change(g, e, c, d, Containers)
  PROVE  g \in [Containers -> Message]
<1> PICK r : Ranked(e, r)
  BY DEF Nested
<1> DEFINE T == {x \in Containers : g[x] \notin Message}
<1>1. T = {}
  <2> SUFFICES ASSUME T # {} PROVE FALSE
    OBVIOUS
  <2>1. T \in SUBSET Things /\ r \in [Things -> Nat]
    BY ContainmentAssumption DEF Ranked
  <2>2. PICK x \in T : \A y \in T : r[x] <= r[y]
    <3> HIDE DEF T
    <3> QED BY <2>1, LowestRank
  <2>3. x \in Containers /\ g[x] \notin Message /\ g[x] = StepUp(e, c, d, g, x)
    BY DEF Change
  <2>4. Senders(e, g, x) # {} /\ g[x] = Passed(First(Senders(e, g, x)), x, g[First(Senders(e, g, x))])
    BY <2>3, NothingMessage DEF StepUp
  <2>5. PICK y : y \in Senders(e, g, x) /\ g[x] = Passed(y, x, g[y])
    BY <2>4 DEF First
  <2>6. y \in Containers /\ e[y] = x /\ r[y] < r[x] /\ r[x] \in Nat /\ r[y] \in Nat
    BY <2>1, <2>3, <2>5, ContainmentAssumption DEF Senders, Ranked
  <2>7. g[y] \in Message
    BY <2>2, <2>6
  <2> QED BY <2>3, <2>5, <2>7, PassedMessage
<1>2. \A x \in Containers : g[x] \in Message
  BY <1>1
<1>3. g = [x \in Containers |-> g[x]]
  BY DEF Change
<1> QED BY <1>2, <1>3

\* A message only reaches what is around c.
LEMMA Unreached ==
  ASSUME NEW e, Nested(e), NEW c, NEW d, NEW g, Change(g, e, c, d, Containers),
         NEW D, Outward(e, D), c \in D
  PROVE  \A x \in Containers \ D : g[x] = Nothing
<1> PICK r : Ranked(e, r)
  BY DEF Nested
<1> DEFINE T == {x \in Containers \ D : g[x] # Nothing}
<1> SUFFICES ASSUME T # {} PROVE FALSE
  OBVIOUS
<1>1. T \in SUBSET Things /\ r \in [Things -> Nat]
  BY ContainmentAssumption DEF Ranked
<1>2. PICK x \in T : \A y \in T : r[x] <= r[y]
  <2> HIDE DEF T
  <2> QED BY <1>1, LowestRank
<1>3. x \in Containers /\ x \notin D /\ g[x] # Nothing /\ g[x] = StepUp(e, c, d, g, x)
  BY DEF Change
<1>4. PICK y : y \in Senders(e, g, x)
  BY <1>3 DEF StepUp
<1>5. /\ y \in Containers /\ e[y] = x /\ g[y] # Nothing /\ y \in Things /\ x \in Things
      /\ r[y] < r[x] /\ r[x] \in Nat /\ r[y] \in Nat
  BY <1>1, <1>3, <1>4, ContainmentAssumption DEF Senders, Ranked
<1>6. y \in D
  BY <1>2, <1>5
<1> QED BY <1>3, <1>5, <1>6 DEF Outward

\* Two objects in the same container have nothing inside in common.
LEMMA SiblingsApart ==
  ASSUME NEW e, Nested(e), NEW x \in Things, NEW y \in Things, NEW z \in Things,
         y # z, e[y] = x, e[z] = x,
         NEW S, Within(e, y, S), NEW R, Within(e, z, R)
  PROVE  (S \cup {y}) \cap (R \cup {z}) = {}
<1> PICK r : Ranked(e, r)
  BY DEF Nested
<1> DEFINE T == (S \cup {y}) \cap (R \cup {z})
<1> SUFFICES ASSUME T # {} PROVE FALSE
  OBVIOUS
<1>1. T \in SUBSET Things /\ r \in [Things -> Nat]
  BY DEF Ranked, Within
<1>2. PICK k \in T : \A m \in T : r[m] <= r[k]
  <2> HIDE DEF T
  <2> QED BY <1>1, HighestRank
<1>3. r[y] < r[x] /\ r[z] < r[x] /\ r[x] \in Nat /\ r[y] \in Nat /\ r[z] \in Nat
  BY <1>1 DEF Ranked
<1>4. y \notin R /\ z \notin S
  <2>1. x \notin R /\ x \notin S
    BY <1>3, InsideIsLower
  <2>2. x # z /\ x # y
    BY <1>3
  <2> QED BY <2>1, <2>2 DEF Within
<1>5. k \in S /\ k \in R /\ k \in Things
  BY <1>1, <1>4
<1>6. e[k] \in T /\ e[k] \in Things
  BY <1>5 DEF Within
<1>7. r[k] < r[e[k]] /\ r[k] \in Nat /\ r[e[k]] \in Nat
  BY <1>1, <1>5, <1>6 DEF Ranked
<1> QED BY <1>2, <1>6, <1>7

\* A message comes to a container from at most one of those in it, and to c
\* from none.
LEMMA OneSender ==
  ASSUME NEW e, Nested(e), NEW c \in Containers, NEW d,
         NEW g, Change(g, e, c, d, Containers)
  PROVE  /\ g[c] = d
         /\ Senders(e, g, c) = {}
         /\ \A x \in Containers : \A y, z \in Senders(e, g, x) : y = z
<1> PICK r : Ranked(e, r)
  BY DEF Nested
<1>1. g[c] = d
  BY DEF Change, StepUp
<1>2. ASSUME NEW y \in Senders(e, g, c) PROVE FALSE
  <2> DEFINE D == {z \in Things : r[c] <= r[z]}
  <2>1. Outward(e, D) /\ c \in D
    <3>1. \A z \in Things : r[z] \in Nat
      BY DEF Ranked
    <3>2. ASSUME NEW z \in D, e[z] \in Things PROVE e[z] \in D
      <4>1. r[z] < r[e[z]]
        BY <3>2 DEF Ranked
      <4> QED BY <3>1, <3>2, <4>1, ContainmentAssumption
    <3> QED BY <3>1, <3>2, ContainmentAssumption DEF Outward
  <2>2. y \in Containers /\ e[y] = c /\ g[y] # Nothing
    BY DEF Senders
  <2>3. r[y] < r[c] /\ r[c] \in Nat /\ r[y] \in Nat
    BY <2>2, ContainmentAssumption DEF Ranked
  <2>4. y \notin D
    BY <2>3
  <2> HIDE DEF D
  <2> QED BY <2>1, <2>2, <2>4, Unreached
<1>3. ASSUME NEW y \in Containers, g[y] # Nothing, NEW S, Within(e, y, S)
      PROVE  c \in S \cup {y}
  <2> SUFFICES ASSUME c \notin S \cup {y} PROVE FALSE
    OBVIOUS
  <2> DEFINE D == Things \ (S \cup {y})
  <2>1. Outward(e, D)
    BY <1>3 DEF Outward, Within
  <2>2. c \in D /\ y \in Containers \ D
    BY ContainmentAssumption
  <2> HIDE DEF D
  <2> QED BY <1>3, <2>1, <2>2, Unreached
<1>4. ASSUME NEW x \in Containers, NEW y \in Senders(e, g, x), NEW z \in Senders(e, g, x), y # z
      PROVE  FALSE
  <2>1. PICK S, R : Within(e, y, S) /\ Within(e, z, R)
    BY WithinExists
  <2>2. /\ y \in Containers /\ z \in Containers /\ e[y] = x /\ e[z] = x
        /\ g[y] # Nothing /\ g[z] # Nothing
    BY DEF Senders
  <2>3. x \in Things /\ y \in Things /\ z \in Things
    BY <2>2, ContainmentAssumption
  <2>4. c \in (S \cup {y}) \cap (R \cup {z})
    BY <1>3, <2>1, <2>2
  <2> QED BY <1>4, <2>1, <2>2, <2>3, <2>4, SiblingsApart
<1> QED BY <1>1, <1>2, <1>4

-----------------------------------------------------------------------------
(***************************************************************************)
(* The books.  a[x] is what x keeps in its books, s[x][o] what o, which is *)
(* in x, accounts for.  The gap is what is missing.                        *)
(***************************************************************************)
Books == [Containers -> Int]
Shares == [Containers -> [Things -> Int]]

Held(e, x) == {o \in Things : e[o] = x}

Gap(a, s, e, x) == a[x] - Sum(s[x], Held(e, x))

\* The change of what x keeps is that of what its sender accounts for.
Carries(e, g, m, s, u) ==
    \A x \in Containers : \A o \in Held(e, x) :
        u[x][o] = IF o \in Senders(e, g, x) THEN s[x][o] + m[x] ELSE s[x][o]

Adds(a, m, b) == \A x \in Containers : b[x] = a[x] + m[x]

Idle(g, m) == \A x \in Containers : g[x] = Nothing => m[x] = 0

\* A message to c opens its books by the message, and no others.
LEMMA MessageBalances ==
  ASSUME NEW e, Nested(e), NEW c \in Containers, NEW d,
         NEW g, Change(g, e, c, d, Containers), NEW a \in Books, NEW b \in Books,
         NEW m \in Books, NEW s \in Shares, NEW u \in Shares,
         Adds(a, m, b), Idle(g, m), Carries(e, g, m, s, u)
  PROVE  \A x \in Containers :
            Gap(b, u, e, x) = Gap(a, s, e, x) + IF x = c THEN m[c] ELSE 0
<1> TAKE x \in Containers
<1> DEFINE H == Held(e, x)
<1>1. IsFiniteSet(H) /\ H \in SUBSET Things
  BY SubsetsFinite DEF Held
<1>2. Integral(s[x], H) /\ Integral(u[x], H)
  BY DEF Integral, Shares, Held
<1>3. b[x] = a[x] + m[x] /\ a[x] \in Int /\ m[x] \in Int
  BY DEF Adds, Books
<1>4. \A o \in H : u[x][o] = IF o \in Senders(e, g, x) THEN s[x][o] + m[x] ELSE s[x][o]
  BY DEF Carries
<1>5. Sum(s[x], H) \in Int /\ Sum(u[x], H) \in Int
  <2> HIDE DEF H
  <2> QED BY <1>1, <1>2, SumInt
<1>6. ASSUME Senders(e, g, x) = {} PROVE Sum(u[x], H) = Sum(s[x], H)
  <2>1. Coincide(s[x], u[x], H)
    BY <1>4, <1>6 DEF Coincide
  <2> HIDE DEF H
  <2> QED BY <1>1, <2>1, SumAgree
<1>7. CASE x = c
  <2>1. Senders(e, g, x) = {}
    BY <1>7, OneSender
  <2> QED BY <1>3, <1>5, <1>6, <1>7, <2>1 DEF Gap
<1>8. CASE x # c /\ Senders(e, g, x) = {}
  <2>1. m[x] = 0
    BY <1>8 DEF Change, StepUp, Idle
  <2> QED BY <1>3, <1>5, <1>6, <1>8, <2>1 DEF Gap
<1>9. CASE x # c /\ Senders(e, g, x) # {}
  <2>1. PICK y : y \in Senders(e, g, x)
    BY <1>9
  <2>2. \A z \in Senders(e, g, x) : z = y
    BY <2>1, OneSender
  <2>3. y \in H
    BY <2>1, ContainmentAssumption DEF Senders, Held
  <2>4. Coincide(s[x], u[x], H \ {y})
    BY <1>4, <2>2 DEF Coincide
  <2>5. u[x][y] = s[x][y] + m[x] /\ s[x][y] \in Int
    BY <1>2, <1>4, <2>1, <2>3 DEF Integral
  <2>6. Sum(u[x], H) = Sum(s[x], H) + (u[x][y] - s[x][y])
    <3> HIDE DEF H
    <3> QED BY <1>1, <1>2, <2>3, <2>4, SumChange
  <2> QED BY <1>3, <1>5, <1>9, <2>5, <2>6 DEF Gap
<1> QED BY <1>7, <1>8, <1>9

\* o goes from where it is in e to where it is in f, and its share with it.
Opened(a, s, e, f, o) ==
    \A x \in Containers :
        Gap(a, s, f, x) = Gap(a, s, e, x)
          + (IF x = e[o] THEN s[x][o] ELSE 0) - (IF x = f[o] THEN s[x][o] ELSE 0)

LEMMA MoveOpensBooks ==
  ASSUME NEW e, e \in [Things -> Containers \cup {Void, Gone}],
         NEW o \in Things, NEW dest, dest # e[o],
         NEW f, f = [e EXCEPT ![o] = dest], NEW a \in Books, NEW s \in Shares
  PROVE  Opened(a, s, e, f, o)
<1> SUFFICES ASSUME NEW x \in Containers
             PROVE  Gap(a, s, f, x) = Gap(a, s, e, x)
               + (IF x = e[o] THEN s[x][o] ELSE 0) - (IF x = dest THEN s[x][o] ELSE 0)
  BY DEF Opened
<1> DEFINE H == Held(e, x)
           K == Held(f, x)
<1>1. IsFiniteSet(H) /\ H \in SUBSET Things /\ IsFiniteSet(K) /\ K \in SUBSET Things
  BY SubsetsFinite DEF Held
<1>2. Integral(s[x], H) /\ Integral(s[x], K) /\ s[x][o] \in Int
  BY DEF Integral, Shares, Held
<1>3. Sum(s[x], H) \in Int /\ Sum(s[x], K) \in Int /\ a[x] \in Int
  <2> HIDE DEF H, K
  <2>1. a[x] \in Int
    BY DEF Books
  <2> QED BY <1>1, <1>2, <2>1, SumInt
<1>4. CASE x = e[o]
  <2>1. o \in H /\ K = H \ {o}
    BY <1>4 DEF Held
  <2>2. Sum(s[x], H) = s[x][o] + Sum(s[x], H \ {o})
    <3> HIDE DEF H
    <3> QED BY <1>1, <1>2, <2>1, SumWithout
  <2>3. Sum(s[x], H) = s[x][o] + Sum(s[x], K)
    BY <2>1, <2>2
  <2> HIDE DEF H, K
  <2> QED BY <1>2, <1>3, <1>4, <2>3 DEF Gap, H, K
<1>5. CASE x = dest
  <2>1. o \in K /\ H = K \ {o}
    BY <1>5 DEF Held
  <2>2. Sum(s[x], K) = s[x][o] + Sum(s[x], K \ {o})
    <3> HIDE DEF K
    <3> QED BY <1>1, <1>2, <2>1, SumWithout
  <2>3. Sum(s[x], K) = s[x][o] + Sum(s[x], H)
    BY <2>1, <2>2
  <2> HIDE DEF H, K
  <2> QED BY <1>2, <1>3, <1>5, <2>3 DEF Gap, H, K
<1>6. CASE x # e[o] /\ x # dest
  <2>1. K = H
    BY <1>6 DEF Held
  <2> QED BY <1>3, <1>6, <2>1 DEF Gap
<1> QED BY <1>4, <1>5, <1>6

-----------------------------------------------------------------------------
(***************************************************************************)
(* The three totals, and what an object accounts for in each of them.      *)
(***************************************************************************)
Record == [light : Books, weight : Books, volume : Books]

LightOf(shut, on, a, o) ==
    IF o \in Containers THEN IF o \in Shining \/ o \notin shut THEN a[o] ELSE 0
    ELSE IF o \in on THEN Bright ELSE 0

WeightOf(a, x, o) == Weight[o] + IF o \in Containers THEN Reduced(x, a[o]) ELSE 0

VolumeOf(a, x, o) ==
    IF o \in Rigid THEN MaxVolume[o]
    ELSE IF o \in Containers THEN Volume[o] + Reduced(x, a[o])
         ELSE Volume[o]

Lights(shut, on, a) == [x \in Containers |-> [o \in Things |-> LightOf(shut, on, a, o)]]
Weights(a) == [x \in Containers |-> [o \in Things |-> WeightOf(a, x, o)]]
Volumes(a) == [x \in Containers |-> [o \in Things |-> VolumeOf(a, x, o)]]

LightGap(t, e, x) == Gap(t.light, Lights(closed, lit, t.light), e, x)
WeightGap(t, e, x) == Gap(t.weight, Weights(t.weight), e, x)
VolumeGap(t, e, x) == Gap(t.volume, Volumes(t.volume), e, x)

\* The constants that are added up are numbers.
LEMMA Sizes ==
  /\ \A o \in Things : Weight[o] \in Nat /\ Volume[o] \in Nat
  /\ \A c \in Containers : MaxWeight[c] \in Nat /\ MaxVolume[c] \in Nat
  /\ \A c \in Containers : Reduce[c] \in Nat \ {0}
  /\ Containers \in SUBSET Things /\ Rigid \in SUBSET Containers
  /\ Lamps \in SUBSET Things /\ Rooms \in SUBSET Containers
  /\ Boxes \in SUBSET Containers /\ Shining \in SUBSET Containers
  /\ Forced \in SUBSET Things /\ Livings \in SUBSET Containers
  /\ Lamps \cap Containers = {} /\ Bright \in Nat
  /\ Void \notin Things /\ Gone \notin Things /\ Void # Gone
BY ContainmentAssumption

LEMMA LightShares ==
  ASSUME NEW shut, NEW on, NEW a \in Books
  PROVE  Lights(shut, on, a) \in Shares
<1>1. \A o \in Things : LightOf(shut, on, a, o) \in Int
  BY Sizes DEF LightOf, Books
<1> QED BY <1>1 DEF Lights, Shares

LEMMA WeightShares ==
  ASSUME NEW a \in Books
  PROVE  Weights(a) \in Shares
<1>1. \A x \in Containers, o \in Containers : Reduced(x, a[o]) \in Int
  BY ReducedInt DEF Books
<1>2. \A x \in Containers, o \in Things : WeightOf(a, x, o) \in Int
  BY <1>1, Sizes DEF WeightOf
<1> QED BY <1>2 DEF Weights, Shares

LEMMA VolumeShares ==
  ASSUME NEW a \in Books
  PROVE  Volumes(a) \in Shares
<1>1. \A x \in Containers, o \in Containers : Reduced(x, a[o]) \in Int
  BY ReducedInt DEF Books
<1>2. \A x \in Containers, o \in Things : VolumeOf(a, x, o) \in Int
  BY <1>1, Sizes DEF VolumeOf
<1> QED BY <1>2 DEF Volumes, Shares

LEMMA SenderPasses ==
  ASSUME NEW e, Nested(e), NEW c \in Containers, NEW d,
         NEW g, Change(g, e, c, d, Containers),
         NEW x \in Containers, NEW y \in Senders(e, g, x)
  PROVE  x # c /\ g[x] = Passed(y, x, g[y])
<1>1. x # c
  BY OneSender
<1>2. First(Senders(e, g, x)) \in Senders(e, g, x)
  BY DEF First
<1>3. First(Senders(e, g, x)) = y
  BY <1>2, OneSender
<1>4. g[x] = StepUp(e, c, d, g, x)
  BY DEF Change
<1> QED BY <1>1, <1>3, <1>4 DEF StepUp

\* The totals after a message are numbers.
LEMMA UpdateTyped ==
  ASSUME NEW e, Nested(e), NEW t \in Record, NEW c \in Containers, NEW d \in Message
  PROVE  UpdateInternal(e, t, c, d) \in Record
<1>1. PICK g : /\ Change(g, e, c, d, Containers)
               /\ UpdateInternal(e, t, c, d) = Added(t, g)
  BY UpdateAdds
<1>2. g \in [Containers -> Message]
  BY <1>1, ChangeMessages
<1>3. \A x \in Containers : /\ t.light[x] + g[x].l \in Int
                            /\ t.weight[x] + g[x].w \in Int
                            /\ t.volume[x] + g[x].v \in Int
  BY <1>2 DEF Message, Record, Books
<1> QED BY <1>1, <1>3 DEF Added, Record, Books

\* o, which is not around c, does not notice.
Spared(e, o, c) == \E D : Outward(e, D) /\ c \in D /\ o \notin D

Untouched(t, r, o) ==
    r.light[o] = t.light[o] /\ r.weight[o] = t.weight[o] /\ r.volume[o] = t.volume[o]

LEMMA UpdateSpares ==
  ASSUME NEW e, Nested(e), NEW t \in Record, NEW c \in Containers, NEW d \in Message,
         NEW o \in Containers, Spared(e, o, c)
  PROVE  Untouched(t, UpdateInternal(e, t, c, d), o)
<1>1. PICK g : /\ Change(g, e, c, d, Containers)
               /\ UpdateInternal(e, t, c, d) = Added(t, g)
  BY UpdateAdds
<1>2. g[o] = Nothing
  BY <1>1, Unreached DEF Spared
<1>3. t.light[o] \in Int /\ t.weight[o] \in Int /\ t.volume[o] \in Int
  BY DEF Record, Books
<1> QED BY <1>1, <1>2, <1>3 DEF Added, Untouched, Nothing

LEMMA UpdateLight ==
  ASSUME NEW e, Nested(e), NEW t \in Record, NEW c \in Containers, NEW d \in Message
  PROVE  \A x \in Containers :
            LightGap(UpdateInternal(e, t, c, d), e, x)
              = LightGap(t, e, x) + IF x = c THEN d.l ELSE 0
<1>1. PICK g : /\ Change(g, e, c, d, Containers)
               /\ UpdateInternal(e, t, c, d) = Added(t, g)
  BY UpdateAdds
<1> DEFINE a == t.light
           b == Added(t, g).light
           m == [x \in Containers |-> g[x].l]
           s == Lights(closed, lit, a)
           u == Lights(closed, lit, b)
<1>2. g \in [Containers -> Message]
  BY <1>1, ChangeMessages
<1>3. a \in Books /\ m \in Books /\ Adds(a, m, b) /\ b \in Books
  BY <1>2 DEF Record, Books, Message, Adds, Added
<1>4. s \in Shares /\ u \in Shares
  <2> HIDE DEF a, b
  <2> QED BY <1>3, LightShares
<1>5. Idle(g, m)
  BY DEF Idle, Nothing
<1>6. ASSUME NEW x \in Containers, NEW o \in Held(e, x)
      PROVE  u[x][o] = IF o \in Senders(e, g, x) THEN s[x][o] + m[x] ELSE s[x][o]
  <2>1. /\ o \in Things /\ e[o] = x
        /\ s[x][o] = LightOf(closed, lit, a, o) /\ u[x][o] = LightOf(closed, lit, b, o)
    BY DEF Held, Lights
  <2>2. CASE o \notin Containers
    <3>1. o \notin Senders(e, g, x)
      BY <2>2 DEF Senders
    <3> QED BY <2>1, <2>2, <3>1 DEF LightOf
  <2>3. ASSUME o \in Containers PROVE b[o] = a[o] + g[o].l /\ a[o] \in Int /\ g[o].l \in Int
    BY <1>2, <1>3, <2>3 DEF Adds, Books, Message
  <2>4. CASE o \in Containers /\ o \notin Senders(e, g, x)
    <3>1. g[o].l = 0
      BY <2>1, <2>4 DEF Senders, Nothing
    <3>2. b[o] = a[o]
      BY <2>3, <2>4, <3>1
    <3> HIDE DEF a, b, s, u
    <3> QED BY <2>1, <2>4, <3>2 DEF LightOf
  <2>5. CASE o \in Senders(e, g, x)
    <3>1. o \in Containers
      BY <2>5 DEF Senders
    <3>2. g[x] = Passed(o, x, g[o])
      BY <1>1, <2>5, SenderPasses
    <3>3. m[x] = IF Distributes(o) THEN g[o].l ELSE 0
      BY <3>2 DEF Passed
    <3>4. Distributes(o) <=> o \in Shining \/ o \notin closed
      BY DEF Distributes
    <3> HIDE DEF a, b, s, u, m
    <3> QED BY <2>1, <2>3, <2>5, <3>1, <3>3, <3>4 DEF LightOf
  <2> QED BY <2>2, <2>4, <2>5
<1>7. Carries(e, g, m, s, u)
  <2> HIDE DEF m, s, u
  <2> QED BY <1>6 DEF Carries
<1>8. g[c] = d
  BY <1>1, OneSender
<1>9. \A x \in Containers : Gap(b, u, e, x) = Gap(a, s, e, x) + IF x = c THEN m[c] ELSE 0
  <2> HIDE DEF a, b, m, s, u
  <2> QED BY <1>1, <1>3, <1>4, <1>5, <1>7, MessageBalances
<1> QED BY <1>1, <1>8, <1>9 DEF LightGap

-----------------------------------------------------------------------------
(***************************************************************************)
(* When the divisions are exact.                                           *)
(***************************************************************************)
Multiple(n, u) == \E k \in Int : n = k * u

Whole(unit, a) == \A x \in Containers : Multiple(a[x], unit[x])

Fitting(e) == \A y \in Containers : e[y] \in Containers => MayHold(e[y], y)

LEMMA MultipleOf ==
  ASSUME NEW n \in Int, NEW u \in Nat \ {0}, n % u = 0
  PROVE  Multiple(n, u)
<1>1. n = u * (n \div u) + (n % u) /\ n \div u \in Int
  OBVIOUS
<1>2. n = (n \div u) * u
  BY <1>1
<1> QED BY <1>1, <1>2 DEF Multiple

LEMMA MultipleSum ==
  ASSUME NEW m, NEW n, NEW u \in Nat \ {0}, Multiple(m, u), Multiple(n, u)
  PROVE  Multiple(m + n, u) /\ Multiple(m - n, u) /\ Multiple(-m, u)
<1> PICK k \in Int, l \in Int : m = k * u /\ n = l * u
  BY DEF Multiple
<1>1. m + n = (k + l) * u /\ m - n = (k - l) * u /\ -m = (-k) * u
  OBVIOUS
<1>2. k + l \in Int /\ k - l \in Int /\ -k \in Int
  OBVIOUS
<1> QED BY <1>1, <1>2 DEF Multiple

LEMMA MultipleZero ==
  ASSUME NEW u \in Nat \ {0}
  PROVE  Multiple(0, u)
<1>1. 0 = 0 * u
  OBVIOUS
<1> QED BY <1>1 DEF Multiple

\* A multiple of a multiple.
LEMMA MultipleTrans ==
  ASSUME NEW n, NEW u \in Nat \ {0}, NEW v \in Nat \ {0}, Multiple(n, u), u % v = 0
  PROVE  Multiple(n, v)
<1> PICK k \in Int : n = k * u
  BY DEF Multiple
<1> PICK j \in Int : u = j * v
  BY MultipleOf DEF Multiple
<1>1. n = (k * j) * v /\ k * j \in Int
  OBVIOUS
<1> QED BY <1>1 DEF Multiple

LEMMA QuotientExact ==
  ASSUME NEW j \in Int, NEW b \in Nat \ {0}
  PROVE  Quotient(j * b, b) = j
<1>1. ASSUME NEW i \in Nat PROVE (i * b) \div b = i
  OBVIOUS
<1>2. CASE j >= 0
  <2>1. j * b >= 0 /\ (j * b) \div b = j
    BY <1>1, <1>2
  <2> QED BY <2>1 DEF Quotient
<1>3. CASE j < 0
  <2> DEFINE i == -j
  <2>1. i \in Nat /\ i > 0
    BY <1>3
  <2>2. i * b > 0 /\ i * b \in Int /\ j * b = -(i * b)
    BY <2>1
  <2>3. (i * b) \div b = i
    BY <1>1, <2>1
  <2> HIDE DEF i
  <2>4. ~(j * b >= 0) /\ -(j * b) = i * b
    BY <2>1, <2>2
  <2> QED BY <2>1, <2>3, <2>4 DEF Quotient, i
<1> QED BY <1>2, <1>3

LEMMA Units ==
  ASSUME NEW unit, Exact(unit), NEW x \in Containers
  PROVE  /\ unit[x] \in Nat \ {0}
         /\ \A o \in Things : Multiple(Weight[o], unit[x]) /\ Multiple(Volume[o], unit[x])
         /\ \A o \in Rigid : Multiple(MaxVolume[o], unit[x])
<1>1. unit[x] \in Nat \ {0}
  BY DEF Exact
<1>2. ASSUME NEW o \in Things
      PROVE  Multiple(Weight[o], unit[x]) /\ Multiple(Volume[o], unit[x])
  <2>1. Weight[o] % unit[x] = 0 /\ Volume[o] % unit[x] = 0
    BY DEF Exact
  <2>2. Weight[o] \in Int /\ Volume[o] \in Int
    BY Sizes
  <2> QED BY <1>1, <2>1, <2>2, MultipleOf
<1>3. ASSUME NEW o \in Rigid PROVE Multiple(MaxVolume[o], unit[x])
  <2>1. MaxVolume[o] % unit[x] = 0
    BY DEF Exact
  <2>2. MaxVolume[o] \in Int
    BY Sizes
  <2> QED BY <1>1, <2>1, <2>2, MultipleOf
<1> QED BY <1>1, <1>2, <1>3

\* Reducing is additive on what y may report to x.
LEMMA ReducedExact ==
  ASSUME NEW unit, Exact(unit), NEW x \in Containers, NEW y \in Containers, MayHold(x, y)
  PROVE  \A m, n : Multiple(m, unit[y]) /\ Multiple(n, unit[y]) =>
            /\ Multiple(Reduced(x, m), unit[x])
            /\ Multiple(m, unit[x])
            /\ Reduced(x, m + n) = Reduced(x, m) + Reduced(x, n)
<1> DEFINE u == unit[x]
           w == unit[y]
           b == Reduce[x]
<1>1. u \in Nat \ {0} /\ w \in Nat \ {0} /\ b \in Nat \ {0}
  BY Sizes DEF Exact
<1>2. (100 * w) % (b * u) = 0 /\ w % u = 0
  BY DEF Exact
<1> HIDE DEF u, w, b
<1>3. PICK j \in Int : 100 * w = j * (b * u)
  <2>1. 100 * w \in Int /\ b * u \in Nat \ {0}
    BY <1>1
  <2> QED BY <1>2, <2>1, MultipleOf DEF Multiple
<1>4. ASSUME NEW k \in Int PROVE Reduced(x, k * w) = k * j * u
  <2>1. (k * w) * 100 = k * (100 * w)
    BY <1>1
  <2>2. k * (j * (b * u)) = (k * j * u) * b
    BY <1>1
  <2>3. (k * w) * 100 = (k * j * u) * b /\ k * j * u \in Int
    BY <1>1, <1>3, <2>1, <2>2
  <2>4. Quotient((k * j * u) * b, b) = k * j * u
    BY <1>1, <2>3, QuotientExact
  <2> QED BY <2>3, <2>4 DEF Reduced, b
<1>5. ASSUME NEW m, NEW n, Multiple(m, w), Multiple(n, w)
      PROVE  /\ Multiple(Reduced(x, m), u)
             /\ Multiple(m, u)
             /\ Reduced(x, m + n) = Reduced(x, m) + Reduced(x, n)
  <2> PICK k \in Int, l \in Int : m = k * w /\ n = l * w
    BY <1>5 DEF Multiple
  <2>1. m + n = (k + l) * w /\ k + l \in Int
    BY <1>1
  <2>2. /\ Reduced(x, m) = k * j * u /\ Reduced(x, n) = l * j * u
        /\ Reduced(x, m + n) = (k + l) * j * u
    BY <1>4, <2>1
  <2>3. (k + l) * j * u = k * j * u + l * j * u /\ k * j \in Int
    BY <1>1
  <2>4. Multiple(Reduced(x, m), u)
    BY <2>2, <2>3 DEF Multiple
  <2>5. Multiple(m, u)
    BY <1>1, <1>2, <1>5, MultipleTrans
  <2> QED BY <2>2, <2>3, <2>4, <2>5
<1> QED BY <1>5 DEF u, w

\* A message in whole units: its weight and volume are multiples of u.
Even(d, u) == Multiple(d.w, u) /\ Multiple(d.v, u)

LEMMA ChangeEven ==
  ASSUME NEW unit, Exact(unit), NEW e, Nested(e), Fitting(e),
         NEW c \in Containers, NEW d \in Message, Even(d, unit[c]),
         NEW g, Change(g, e, c, d, Containers)
  PROVE  \A x \in Containers : Even(g[x], unit[x])
<1> PICK r : Ranked(e, r)
  BY DEF Nested
<1> DEFINE T == {x \in Containers : ~Even(g[x], unit[x])}
<1> SUFFICES ASSUME T # {} PROVE FALSE
  OBVIOUS
<1>1. T \in SUBSET Things /\ r \in [Things -> Nat]
  BY ContainmentAssumption DEF Ranked
<1>2. PICK x \in T : \A y \in T : r[x] <= r[y]
  <2> HIDE DEF T
  <2> QED BY <1>1, LowestRank
<1>3. x \in Containers /\ ~Even(g[x], unit[x]) /\ g[x] = StepUp(e, c, d, g, x)
  BY DEF Change
<1>4. unit[x] \in Nat \ {0}
  BY <1>3, Units
<1>5. x # c
  BY <1>3, OneSender
<1>6. Even(Nothing, unit[x])
  BY <1>4, MultipleZero DEF Even, Nothing
<1>7. PICK y : y \in Senders(e, g, x) /\ g[x] = Passed(y, x, g[y])
  <2>1. Senders(e, g, x) # {}
    BY <1>3, <1>5, <1>6 DEF StepUp
  <2>2. PICK y : y \in Senders(e, g, x)
    BY <2>1
  <2> QED BY <1>3, <2>2, SenderPasses
<1>8. /\ y \in Containers /\ e[y] = x
      /\ r[y] < r[x] /\ r[x] \in Nat /\ r[y] \in Nat
  BY <1>1, <1>3, <1>7, ContainmentAssumption DEF Senders, Ranked
<1>9. Even(g[y], unit[y])
  BY <1>2, <1>8
<1>10. MayHold(x, y)
  BY <1>3, <1>8 DEF Fitting
<1>11. Multiple(Reduced(x, g[y].w), unit[x]) /\ Multiple(Reduced(x, g[y].v), unit[x])
  BY <1>3, <1>8, <1>9, <1>10, ReducedExact DEF Even
<1>12. Multiple(0, unit[x])
  BY <1>4, MultipleZero
<1>13. g[x].w = Reduced(x, g[y].w) /\ (g[x].v = 0 \/ g[x].v = Reduced(x, g[y].v))
  BY <1>7 DEF Passed
<1> QED BY <1>3, <1>11, <1>12, <1>13 DEF Even

\* The totals of t are multiples of the units.
Exactly(unit, t) == Whole(unit, t.weight) /\ Whole(unit, t.volume)

LEMMA UpdateExactly ==
  ASSUME NEW unit, Exact(unit), NEW e, Nested(e), Fitting(e), NEW t \in Record,
         NEW c \in Containers, NEW d \in Message, Even(d, unit[c]), Exactly(unit, t)
  PROVE  Exactly(unit, UpdateInternal(e, t, c, d))
<1>1. PICK g : /\ Change(g, e, c, d, Containers)
               /\ UpdateInternal(e, t, c, d) = Added(t, g)
  BY UpdateAdds
<1>2. \A x \in Containers : Even(g[x], unit[x])
  BY <1>1, ChangeEven
<1>3. ASSUME NEW x \in Containers
      PROVE  /\ Multiple(t.weight[x] + g[x].w, unit[x])
             /\ Multiple(t.volume[x] + g[x].v, unit[x])
  <2>1. unit[x] \in Nat \ {0}
    BY Units
  <2>2. Multiple(t.weight[x], unit[x]) /\ Multiple(t.volume[x], unit[x])
    BY DEF Exactly, Whole
  <2> QED BY <1>2, <2>1, <2>2, MultipleSum DEF Even
<1> QED BY <1>1, <1>3 DEF Added, Exactly, Whole

LEMMA UpdateWeight ==
  ASSUME NEW unit, Exact(unit), NEW e, Nested(e), Fitting(e), NEW t \in Record,
         NEW c \in Containers, NEW d \in Message, Even(d, unit[c]), Exactly(unit, t)
  PROVE  \A x \in Containers :
            WeightGap(UpdateInternal(e, t, c, d), e, x)
              = WeightGap(t, e, x) + IF x = c THEN d.w ELSE 0
<1>1. PICK g : /\ Change(g, e, c, d, Containers)
               /\ UpdateInternal(e, t, c, d) = Added(t, g)
  BY UpdateAdds
<1> DEFINE a == t.weight
           b == Added(t, g).weight
           m == [x \in Containers |-> g[x].w]
           s == Weights(a)
           u == Weights(b)
<1>2. g \in [Containers -> Message]
  BY <1>1, ChangeMessages
<1>3. a \in Books /\ m \in Books /\ Adds(a, m, b) /\ b \in Books
  BY <1>2 DEF Record, Books, Message, Adds, Added
<1>4. s \in Shares /\ u \in Shares
  <2> HIDE DEF a, b
  <2> QED BY <1>3, WeightShares
<1>5. Idle(g, m)
  BY DEF Idle, Nothing
<1>6. ASSUME NEW x \in Containers, NEW o \in Held(e, x)
      PROVE  u[x][o] = IF o \in Senders(e, g, x) THEN s[x][o] + m[x] ELSE s[x][o]
  <2>1. /\ o \in Things /\ e[o] = x
        /\ s[x][o] = WeightOf(a, x, o) /\ u[x][o] = WeightOf(b, x, o)
    BY DEF Held, Weights
  <2>2. CASE o \notin Containers
    <3>1. o \notin Senders(e, g, x)
      BY <2>2 DEF Senders
    <3> QED BY <2>1, <2>2, <3>1 DEF WeightOf
  <2>3. ASSUME o \in Containers PROVE b[o] = a[o] + g[o].w /\ a[o] \in Int /\ g[o].w \in Int
    BY <1>2, <1>3, <2>3 DEF Adds, Books, Message
  <2>4. CASE o \in Containers /\ o \notin Senders(e, g, x)
    <3>1. g[o].w = 0
      BY <2>1, <2>4 DEF Senders, Nothing
    <3>2. b[o] = a[o]
      BY <2>3, <2>4, <3>1
    <3> HIDE DEF a, b, s, u
    <3> QED BY <2>1, <2>4, <3>2 DEF WeightOf
  <2>5. CASE o \in Senders(e, g, x)
    <3>1. o \in Containers
      BY <2>5 DEF Senders
    <3>2. g[x] = Passed(o, x, g[o])
      BY <1>1, <2>5, SenderPasses
    <3>3. m[x] = Reduced(x, g[o].w)
      BY <3>2 DEF Passed
    <3>4. Multiple(a[o], unit[o]) /\ Multiple(g[o].w, unit[o])
      BY <1>1, <3>1, ChangeEven DEF Exactly, Whole, Even
    <3>5. MayHold(x, o)
      BY <2>1, <3>1 DEF Fitting
    <3>6. Reduced(x, a[o] + g[o].w) = Reduced(x, a[o]) + Reduced(x, g[o].w)
      <4> HIDE DEF a, b, s, u, m
      <4> QED BY <3>1, <3>4, <3>5, ReducedExact
    <3>7. Reduced(x, a[o]) \in Int /\ Reduced(x, g[o].w) \in Int /\ Weight[o] \in Int
      BY <2>3, <3>1, ReducedInt, Sizes
    <3> HIDE DEF a, b, s, u, m
    <3>8. b[o] = a[o] + g[o].w
      BY <2>3, <3>1
    <3>9. WeightOf(b, x, o) = Weight[o] + Reduced(x, a[o] + g[o].w)
      BY <3>1, <3>8 DEF WeightOf
    <3>10. WeightOf(a, x, o) = Weight[o] + Reduced(x, a[o])
      BY <3>1 DEF WeightOf
    <3> QED BY <2>1, <2>5, <3>3, <3>6, <3>7, <3>9, <3>10
  <2> QED BY <2>2, <2>4, <2>5
<1>7. Carries(e, g, m, s, u)
  <2> HIDE DEF m, s, u
  <2> QED BY <1>6 DEF Carries
<1>8. g[c] = d
  BY <1>1, OneSender
<1>9. \A x \in Containers : Gap(b, u, e, x) = Gap(a, s, e, x) + IF x = c THEN m[c] ELSE 0
  <2> HIDE DEF a, b, m, s, u
  <2> QED BY <1>1, <1>3, <1>4, <1>5, <1>7, MessageBalances
<1> QED BY <1>1, <1>8, <1>9 DEF WeightGap

LEMMA UpdateVolume ==
  ASSUME NEW unit, Exact(unit), NEW e, Nested(e), Fitting(e), NEW t \in Record,
         NEW c \in Containers, NEW d \in Message, Even(d, unit[c]), Exactly(unit, t)
  PROVE  \A x \in Containers :
            VolumeGap(UpdateInternal(e, t, c, d), e, x)
              = VolumeGap(t, e, x) + IF x = c THEN d.v ELSE 0
<1>1. PICK g : /\ Change(g, e, c, d, Containers)
               /\ UpdateInternal(e, t, c, d) = Added(t, g)
  BY UpdateAdds
<1> DEFINE a == t.volume
           b == Added(t, g).volume
           m == [x \in Containers |-> g[x].v]
           s == Volumes(a)
           u == Volumes(b)
<1>2. g \in [Containers -> Message]
  BY <1>1, ChangeMessages
<1>3. a \in Books /\ m \in Books /\ Adds(a, m, b) /\ b \in Books
  BY <1>2 DEF Record, Books, Message, Adds, Added
<1>4. s \in Shares /\ u \in Shares
  <2> HIDE DEF a, b
  <2> QED BY <1>3, VolumeShares
<1>5. Idle(g, m)
  BY DEF Idle, Nothing
<1>6. ASSUME NEW x \in Containers, NEW o \in Held(e, x)
      PROVE  u[x][o] = IF o \in Senders(e, g, x) THEN s[x][o] + m[x] ELSE s[x][o]
  <2>1. /\ o \in Things /\ e[o] = x
        /\ s[x][o] = VolumeOf(a, x, o) /\ u[x][o] = VolumeOf(b, x, o)
    BY DEF Held, Volumes
  <2>2. CASE o \notin Containers
    <3>1. o \notin Senders(e, g, x) /\ o \notin Rigid
      BY <2>2, Sizes DEF Senders
    <3> QED BY <2>1, <2>2, <3>1 DEF VolumeOf
  <2>3. ASSUME o \in Containers PROVE b[o] = a[o] + g[o].v /\ a[o] \in Int /\ g[o].v \in Int
    BY <1>2, <1>3, <2>3 DEF Adds, Books, Message
  <2>4. CASE o \in Containers /\ o \notin Senders(e, g, x)
    <3>1. g[o].v = 0
      BY <2>1, <2>4 DEF Senders, Nothing
    <3>2. b[o] = a[o]
      BY <2>3, <2>4, <3>1
    <3> HIDE DEF a, b, s, u
    <3> QED BY <2>1, <2>4, <3>2 DEF VolumeOf
  <2>5. CASE o \in Senders(e, g, x) /\ o \in Rigid
    <3>1. g[x] = Passed(o, x, g[o])
      BY <1>1, <2>5, SenderPasses
    <3>2. m[x] = 0
      BY <2>5, <3>1 DEF Passed
    <3>3. MaxVolume[o] \in Int
      BY <2>5, Sizes
    <3> HIDE DEF a, b, s, u, m
    <3> QED BY <2>1, <2>5, <3>2, <3>3 DEF VolumeOf
  <2>6. CASE o \in Senders(e, g, x) /\ o \notin Rigid
    <3>1. o \in Containers
      BY <2>6 DEF Senders
    <3>2. g[x] = Passed(o, x, g[o])
      BY <1>1, <2>6, SenderPasses
    <3>3. m[x] = Reduced(x, g[o].v)
      BY <2>6, <3>2 DEF Passed
    <3>4. Multiple(a[o], unit[o]) /\ Multiple(g[o].v, unit[o])
      BY <1>1, <3>1, ChangeEven DEF Exactly, Whole, Even
    <3>5. MayHold(x, o)
      BY <2>1, <3>1 DEF Fitting
    <3>6. Reduced(x, a[o] + g[o].v) = Reduced(x, a[o]) + Reduced(x, g[o].v)
      <4> HIDE DEF a, b, s, u, m
      <4> QED BY <3>1, <3>4, <3>5, ReducedExact
    <3>7. Reduced(x, a[o]) \in Int /\ Reduced(x, g[o].v) \in Int /\ Volume[o] \in Int
      BY <2>3, <3>1, ReducedInt, Sizes
    <3> HIDE DEF a, b, s, u, m
    <3>8. b[o] = a[o] + g[o].v
      BY <2>3, <3>1
    <3>9. VolumeOf(b, x, o) = Volume[o] + Reduced(x, a[o] + g[o].v)
      BY <2>6, <3>1, <3>8 DEF VolumeOf
    <3>10. VolumeOf(a, x, o) = Volume[o] + Reduced(x, a[o])
      BY <2>6, <3>1 DEF VolumeOf
    <3> QED BY <2>1, <2>6, <3>3, <3>6, <3>7, <3>9, <3>10
  <2> QED BY <2>2, <2>4, <2>5, <2>6
<1>7. Carries(e, g, m, s, u)
  <2> HIDE DEF m, s, u
  <2> QED BY <1>6 DEF Carries
<1>8. g[c] = d
  BY <1>1, OneSender
<1>9. \A x \in Containers : Gap(b, u, e, x) = Gap(a, s, e, x) + IF x = c THEN m[c] ELSE 0
  <2> HIDE DEF a, b, m, s, u
  <2> QED BY <1>1, <1>3, <1>4, <1>5, <1>7, MessageBalances
<1> QED BY <1>1, <1>8, <1>9 DEF VolumeGap

-----------------------------------------------------------------------------
(***************************************************************************)
(* What an object tells the container it leaves or enters: a container has *)
(* two messages, one for itself and one for what it holds.                 *)
(***************************************************************************)
OpensLight(e, t, r, c, n) ==
    \A x \in Containers : LightGap(r, e, x) = LightGap(t, e, x) + IF x = c THEN n ELSE 0

OpensWeight(e, t, r, c, n) ==
    \A x \in Containers : WeightGap(r, e, x) = WeightGap(t, e, x) + IF x = c THEN n ELSE 0

OpensVolume(e, t, r, c, n) ==
    \A x \in Containers : VolumeGap(r, e, x) = VolumeGap(t, e, x) + IF x = c THEN n ELSE 0

LEMMA GapsInt ==
  ASSUME NEW t \in Record, NEW e, NEW x \in Containers
  PROVE  LightGap(t, e, x) \in Int /\ WeightGap(t, e, x) \in Int /\ VolumeGap(t, e, x) \in Int
<1>1. t.light \in Books /\ t.weight \in Books /\ t.volume \in Books
  BY DEF Record
<1>2. /\ Lights(closed, lit, t.light) \in Shares
      /\ Weights(t.weight) \in Shares /\ Volumes(t.volume) \in Shares
  BY <1>1, LightShares, WeightShares, VolumeShares
<1>3. ASSUME NEW a \in Books, NEW s \in Shares PROVE Gap(a, s, e, x) \in Int
  <2>1. IsFiniteSet(Held(e, x)) /\ Integral(s[x], Held(e, x))
    BY SubsetsFinite DEF Held, Integral, Shares
  <2>2. Sum(s[x], Held(e, x)) \in Int
    BY <2>1, SumInt
  <2> QED BY <2>2 DEF Gap, Books
<1> QED BY <1>1, <1>2, <1>3 DEF LightGap, WeightGap, VolumeGap

LEMMA MinusFields ==
  ASSUME NEW d \in Message
  PROVE  /\ Minus(d) \in Message
         /\ Minus(d).l = -d.l /\ Minus(d).w = -d.w /\ Minus(d).v = -d.v
BY DEF Minus, Message

LEMMA BurdenFields ==
  ASSUME NEW t \in Record, NEW o \in Things, NEW c \in Containers
  PROVE  /\ Burden(t, o) \in Message
         /\ Burden(t, o).l = LightOf(closed, lit, t.light, o)
         /\ o \notin Containers => /\ Burden(t, o).w = WeightOf(t.weight, c, o)
                                   /\ Burden(t, o).v = VolumeOf(t.volume, c, o)
<1>1. CASE o \in Containers
  <2>1. t.light[o] \in Int /\ t.weight[o] \in Int /\ t.volume[o] \in Int
    BY <1>1 DEF Record, Books
  <2>2. Weight[o] \in Int /\ Volume[o] \in Int /\ MaxVolume[o] \in Int
    BY <1>1, Sizes
  <2> QED BY <1>1, <2>1, <2>2 DEF Burden, Message, LightOf, Distributes
<1>2. CASE o \notin Containers
  <2>1. Weight[o] \in Int /\ Volume[o] \in Int /\ Bright \in Int /\ o \notin Rigid
    BY <1>2, Sizes
  <2> QED BY <1>2, <2>1 DEF Burden, Message, LightOf, WeightOf, VolumeOf
<1> QED BY <1>1, <1>2

LEMMA ReliefFields ==
  ASSUME NEW t \in Record, NEW o \in Containers, NEW c \in Containers
  PROVE  /\ Relief(t, o, c) \in Message
         /\ Relief(t, o, c).l = 0
         /\ Burden(t, o).w - Relief(t, o, c).w = WeightOf(t.weight, c, o)
         /\ Burden(t, o).v - Relief(t, o, c).v = VolumeOf(t.volume, c, o)
<1>1. t.weight[o] \in Int /\ t.volume[o] \in Int
  BY DEF Record, Books
<1>2. Reduced(c, t.weight[o]) \in Int /\ Reduced(c, t.volume[o]) \in Int
  BY <1>1, ReducedInt
<1>3. Weight[o] \in Int /\ Volume[o] \in Int /\ MaxVolume[o] \in Int
  BY Sizes
<1> QED BY <1>1, <1>2, <1>3 DEF Relief, Burden, Message, WeightOf, VolumeOf

LEMMA UntouchedSame ==
  ASSUME NEW t, NEW r, NEW o \in Containers, NEW c, Untouched(t, r, o)
  PROVE  Burden(r, o) = Burden(t, o) /\ Relief(r, o, c) = Relief(t, o, c)
BY DEF Untouched, Burden, Relief

\* Two messages to c.
Twice(e, t, c, d, f) == UpdateInternal(e, UpdateInternal(e, t, c, d), c, f)

LEMMA TwiceTyped ==
  ASSUME NEW e, Nested(e), NEW t \in Record, NEW c \in Containers,
         NEW d \in Message, NEW f \in Message
  PROVE  /\ Twice(e, t, c, d, f) \in Record
         /\ OpensLight(e, t, Twice(e, t, c, d, f), c, d.l + f.l)
         /\ \A o \in Containers : Spared(e, o, c) => Untouched(t, Twice(e, t, c, d, f), o)
<1> DEFINE q == UpdateInternal(e, t, c, d)
           r == UpdateInternal(e, q, c, f)
<1>1. q \in Record
  BY UpdateTyped
<1>2. \A x \in Containers : LightGap(q, e, x) = LightGap(t, e, x) + IF x = c THEN d.l ELSE 0
  BY UpdateLight
<1>3. \A o \in Containers : Spared(e, o, c) => Untouched(t, q, o)
  BY UpdateSpares
<1> HIDE DEF q
<1>4. r \in Record
  BY <1>1, UpdateTyped
<1>5. \A x \in Containers : LightGap(r, e, x) = LightGap(q, e, x) + IF x = c THEN f.l ELSE 0
  BY <1>1, UpdateLight
<1>6. \A o \in Containers : Spared(e, o, c) => Untouched(q, r, o)
  BY <1>1, UpdateSpares
<1> HIDE DEF r
<1>7. Twice(e, t, c, d, f) = r
  BY DEF Twice, q, r
<1>8. d.l \in Int /\ f.l \in Int
  BY DEF Message
<1>9. \A x \in Containers : LightGap(t, e, x) \in Int
  BY GapsInt
<1>10. OpensLight(e, t, r, c, d.l + f.l)
  BY <1>2, <1>5, <1>8, <1>9 DEF OpensLight
<1>11. \A o \in Containers : Spared(e, o, c) => Untouched(t, r, o)
  BY <1>3, <1>6 DEF Untouched
<1> QED BY <1>4, <1>7, <1>10, <1>11

LEMMA TwiceExactly ==
  ASSUME NEW unit, Exact(unit), NEW e, Nested(e), Fitting(e), NEW t \in Record,
         NEW c \in Containers, NEW d \in Message, Even(d, unit[c]),
         NEW f \in Message, Even(f, unit[c]), Exactly(unit, t)
  PROVE  /\ Exactly(unit, Twice(e, t, c, d, f))
         /\ OpensWeight(e, t, Twice(e, t, c, d, f), c, d.w + f.w)
         /\ OpensVolume(e, t, Twice(e, t, c, d, f), c, d.v + f.v)
<1> DEFINE q == UpdateInternal(e, t, c, d)
           r == UpdateInternal(e, q, c, f)
<1>1. q \in Record /\ Exactly(unit, q)
  BY UpdateTyped, UpdateExactly
<1>2. \A x \in Containers :
        /\ WeightGap(q, e, x) = WeightGap(t, e, x) + IF x = c THEN d.w ELSE 0
        /\ VolumeGap(q, e, x) = VolumeGap(t, e, x) + IF x = c THEN d.v ELSE 0
  BY UpdateWeight, UpdateVolume
<1> HIDE DEF q
<1>3. Exactly(unit, r)
  BY <1>1, UpdateExactly
<1>4. \A x \in Containers :
        /\ WeightGap(r, e, x) = WeightGap(q, e, x) + IF x = c THEN f.w ELSE 0
        /\ VolumeGap(r, e, x) = VolumeGap(q, e, x) + IF x = c THEN f.v ELSE 0
  BY <1>1, UpdateWeight, UpdateVolume
<1> HIDE DEF r
<1>5. Twice(e, t, c, d, f) = r
  BY DEF Twice, q, r
<1>6. d.w \in Int /\ f.w \in Int /\ d.v \in Int /\ f.v \in Int
  BY DEF Message
<1>7. \A x \in Containers : WeightGap(t, e, x) \in Int /\ VolumeGap(t, e, x) \in Int
  BY GapsInt
<1>8. OpensWeight(e, t, r, c, d.w + f.w)
  BY <1>2, <1>4, <1>6, <1>7 DEF OpensWeight
<1>9. OpensVolume(e, t, r, c, d.v + f.v)
  BY <1>2, <1>4, <1>6, <1>7 DEF OpensVolume
<1> QED BY <1>3, <1>5, <1>8, <1>9

\* o has left c: one message after the other, in either order.
HasLeft(e, t, o, c, r) ==
    \/ r = LeaveInv(e, LeaveEnv(e, t, o, c), o, c)
    \/ r = LeaveEnv(e, LeaveInv(e, t, o, c), o, c)

Apart(e, o, c) == o \in Containers => Spared(e, o, c)
Same(t, r, o) == o \in Containers => Untouched(t, r, o)

LEMMA LeavingMessages ==
  ASSUME NEW e, Nested(e), NEW t \in Record, NEW o \in Things, NEW c \in Containers,
         Apart(e, o, c), NEW r, HasLeft(e, t, o, c, r)
  PROVE  /\ o \notin Containers => r = UpdateInternal(e, t, c, Minus(Burden(t, o)))
         /\ o \in Containers =>
              \/ r = Twice(e, t, c, Relief(t, o, c), Minus(Burden(t, o)))
              \/ r = Twice(e, t, c, Minus(Burden(t, o)), Relief(t, o, c))
<1>1. CASE o \notin Containers
  BY <1>1 DEF HasLeft, LeaveInv, LeaveEnv
<1>2. CASE o \in Containers
  <2> DEFINE p == UpdateInternal(e, t, c, Relief(t, o, c))
             q == UpdateInternal(e, t, c, Minus(Burden(t, o)))
  <2>1. Relief(t, o, c) \in Message /\ Minus(Burden(t, o)) \in Message
    BY <1>2, ReliefFields, BurdenFields, MinusFields
  <2>2. Untouched(t, p, o) /\ Untouched(t, q, o)
    BY <1>2, <2>1, UpdateSpares DEF Apart
  <2>3. Burden(p, o) = Burden(t, o) /\ Relief(q, o, c) = Relief(t, o, c)
    <3> HIDE DEF p, q
    <3> QED BY <1>2, <2>2, UntouchedSame
  <2>4. LeaveEnv(e, t, o, c) = p /\ LeaveInv(e, t, o, c) = q
    BY <1>2 DEF LeaveEnv, LeaveInv
  <2>5. \/ r = UpdateInternal(e, p, c, Minus(Burden(p, o)))
        \/ r = UpdateInternal(e, q, c, Relief(q, o, c))
    <3> HIDE DEF p, q
    <3> QED BY <1>2, <2>4 DEF HasLeft, LeaveEnv, LeaveInv
  <2> QED BY <1>2, <2>3, <2>5 DEF Twice
<1> QED BY <1>1, <1>2

LEMMA EnteringMessages ==
  ASSUME NEW e, Nested(e), NEW t \in Record, NEW o \in Things, NEW c \in Containers,
         Apart(e, o, c)
  PROVE  /\ o \notin Containers => Enter(e, t, o, c) = UpdateInternal(e, t, c, Burden(t, o))
         /\ o \in Containers =>
              Enter(e, t, o, c) = Twice(e, t, c, Minus(Relief(t, o, c)), Burden(t, o))
<1>1. CASE o \notin Containers
  BY <1>1 DEF Enter, EnterInv, EnterEnv
<1>2. CASE o \in Containers
  <2> DEFINE p == UpdateInternal(e, t, c, Minus(Relief(t, o, c)))
  <2>1. Minus(Relief(t, o, c)) \in Message
    BY <1>2, ReliefFields, MinusFields
  <2>2. Untouched(t, p, o)
    BY <1>2, <2>1, UpdateSpares DEF Apart
  <2>3. Burden(p, o) = Burden(t, o)
    <3> HIDE DEF p
    <3> QED BY <1>2, <2>2, UntouchedSame
  <2>4. EnterEnv(e, t, o, c) = p
    BY <1>2 DEF EnterEnv
  <2> QED BY <1>2, <2>3, <2>4 DEF Twice, Enter, EnterInv
<1> QED BY <1>1, <1>2

\* What leaves takes its own share, what enters brings it.
LEMMA LeavingLight ==
  ASSUME NEW e, Nested(e), NEW t \in Record, NEW o \in Things, NEW c \in Containers,
         Apart(e, o, c), NEW r, HasLeft(e, t, o, c, r)
  PROVE  /\ r \in Record /\ Same(t, r, o)
         /\ OpensLight(e, t, r, c, -LightOf(closed, lit, t.light, o))
<1> DEFINE b == Burden(t, o)
           n == LightOf(closed, lit, t.light, o)
<1>1. b \in Message /\ b.l = n /\ n \in Int
  BY BurdenFields DEF Message
<1>2. Minus(b) \in Message /\ Minus(b).l = -n
  BY <1>1, MinusFields
<1>3. CASE o \notin Containers
  <2>1. r = UpdateInternal(e, t, c, Minus(b))
    BY <1>3, LeavingMessages
  <2> HIDE DEF b, n
  <2>2. r \in Record
    BY <1>2, <2>1, UpdateTyped
  <2>3. OpensLight(e, t, r, c, -n)
    BY <1>2, <2>1, UpdateLight DEF OpensLight
  <2> QED BY <1>3, <2>2, <2>3 DEF Same, n
<1>4. CASE o \in Containers
  <2> DEFINE f == Relief(t, o, c)
  <2>1. f \in Message /\ f.l = 0
    BY <1>4, ReliefFields
  <2>2. r = Twice(e, t, c, f, Minus(b)) \/ r = Twice(e, t, c, Minus(b), f)
    BY <1>4, LeavingMessages
  <2>3. Spared(e, o, c)
    BY <1>4 DEF Apart
  <2> HIDE DEF b, n, f
  <2>4. f.l + Minus(b).l = -n /\ Minus(b).l + f.l = -n
    BY <1>1, <1>2, <2>1
  <2>5. r \in Record /\ Untouched(t, r, o) /\ OpensLight(e, t, r, c, -n)
    BY <1>2, <1>4, <2>1, <2>2, <2>3, <2>4, TwiceTyped
  <2> QED BY <2>5 DEF Same, n
<1> QED BY <1>3, <1>4

LEMMA EnteringLight ==
  ASSUME NEW e, Nested(e), NEW t \in Record, NEW o \in Things, NEW c \in Containers,
         Apart(e, o, c)
  PROVE  /\ Enter(e, t, o, c) \in Record /\ Same(t, Enter(e, t, o, c), o)
         /\ OpensLight(e, t, Enter(e, t, o, c), c, LightOf(closed, lit, t.light, o))
<1> DEFINE b == Burden(t, o)
           n == LightOf(closed, lit, t.light, o)
           r == Enter(e, t, o, c)
<1>1. b \in Message /\ b.l = n /\ n \in Int
  BY BurdenFields DEF Message
<1>2. CASE o \notin Containers
  <2>1. r = UpdateInternal(e, t, c, b)
    BY <1>2, EnteringMessages
  <2> HIDE DEF b, n, r
  <2>2. r \in Record
    BY <1>1, <2>1, UpdateTyped
  <2>3. OpensLight(e, t, r, c, n)
    BY <1>1, <2>1, UpdateLight DEF OpensLight
  <2> QED BY <1>2, <2>2, <2>3 DEF Same, n, r
<1>3. CASE o \in Containers
  <2> DEFINE f == Minus(Relief(t, o, c))
  <2>1. f \in Message /\ f.l = 0
    BY <1>3, ReliefFields, MinusFields
  <2>2. r = Twice(e, t, c, f, b)
    BY <1>3, EnteringMessages
  <2>3. Spared(e, o, c)
    BY <1>3 DEF Apart
  <2> HIDE DEF b, n, f, r
  <2>4. f.l + b.l = n
    BY <1>1, <2>1
  <2>5. r \in Record /\ Untouched(t, r, o) /\ OpensLight(e, t, r, c, n)
    BY <1>1, <1>3, <2>1, <2>2, <2>3, <2>4, TwiceTyped
  <2> QED BY <2>5 DEF Same, n, r
<1> QED BY <1>2, <1>3

\* What o tells c comes in whole units, if c may hold it.
LEMMA EvenMessages ==
  ASSUME NEW unit, Exact(unit), NEW t \in Record, Exactly(unit, t),
         NEW o \in Things, NEW c \in Containers, o \in Containers => MayHold(c, o)
  PROVE  /\ Even(Burden(t, o), unit[c])
         /\ Even(Minus(Burden(t, o)), unit[c])
         /\ o \in Containers => /\ Even(Relief(t, o, c), unit[c])
                                /\ Even(Minus(Relief(t, o, c)), unit[c])
<1> DEFINE u == unit[c]
<1>1. u \in Nat \ {0} /\ Multiple(Weight[o], u) /\ Multiple(Volume[o], u)
  BY Units
<1>2. ASSUME NEW d \in Message, Even(d, u) PROVE Even(Minus(d), u)
  <2>1. Minus(d).w = -d.w /\ Minus(d).v = -d.v
    BY MinusFields
  <2> HIDE DEF u
  <2>2. Multiple(-d.w, u) /\ Multiple(-d.v, u)
    BY <1>1, <1>2, MultipleSum DEF Even
  <2> QED BY <2>1, <2>2 DEF Even
<1>3. CASE o \notin Containers
  <2>1. Burden(t, o).w = Weight[o] /\ Burden(t, o).v = Volume[o]
    BY <1>3 DEF Burden
  <2>2. Even(Burden(t, o), u)
    BY <1>1, <2>1 DEF Even
  <2>3. Burden(t, o) \in Message
    BY BurdenFields
  <2> QED BY <1>2, <1>3, <2>2, <2>3
<1>4. CASE o \in Containers
  <2> DEFINE a == t.weight[o]
             b == t.volume[o]
  <2>1. Multiple(a, unit[o]) /\ Multiple(b, unit[o])
    BY <1>4 DEF Exactly, Whole
  <2>2. /\ Multiple(a, u) /\ Multiple(Reduced(c, a), u)
        /\ Multiple(b, u) /\ Multiple(Reduced(c, b), u)
    <3> HIDE DEF a, b
    <3> QED BY <1>4, <2>1, ReducedExact DEF u
  <2>3. o \in Rigid => Multiple(MaxVolume[o], u)
    BY Units
  <2>4. /\ Burden(t, o).w = Weight[o] + a
        /\ Burden(t, o).v = IF o \in Rigid THEN MaxVolume[o] ELSE Volume[o] + b
        /\ Relief(t, o, c).w = a - Reduced(c, a)
        /\ Relief(t, o, c).v = IF o \in Rigid THEN 0 ELSE b - Reduced(c, b)
    BY <1>4 DEF Burden, Relief
  <2> HIDE DEF a, b, u
  <2>5. Multiple(Weight[o] + a, u) /\ Multiple(Volume[o] + b, u)
    BY <1>1, <2>2, MultipleSum
  <2>6. Multiple(a - Reduced(c, a), u) /\ Multiple(b - Reduced(c, b), u)
    BY <1>1, <2>2, MultipleSum
  <2>7. Multiple(0, u)
    BY <1>1, MultipleZero
  <2>8. Even(Burden(t, o), u) /\ Even(Relief(t, o, c), u)
    BY <2>3, <2>4, <2>5, <2>6, <2>7 DEF Even
  <2>9. Burden(t, o) \in Message /\ Relief(t, o, c) \in Message
    BY <1>4, BurdenFields, ReliefFields
  <2>10. Even(Minus(Burden(t, o)), u) /\ Even(Minus(Relief(t, o, c)), u)
    BY <1>2, <2>8, <2>9
  <2> QED BY <2>8, <2>10 DEF u
<1> QED BY <1>3, <1>4

LEMMA LeavingLoad ==
  ASSUME NEW unit, Exact(unit), NEW e, Nested(e), Fitting(e), NEW t \in Record,
         Exactly(unit, t), NEW o \in Things, NEW c \in Containers,
         o \in Containers => MayHold(c, o), Apart(e, o, c), NEW r, HasLeft(e, t, o, c, r)
  PROVE  /\ Exactly(unit, r)
         /\ OpensWeight(e, t, r, c, -WeightOf(t.weight, c, o))
         /\ OpensVolume(e, t, r, c, -VolumeOf(t.volume, c, o))
<1> DEFINE b == Burden(t, o)
           m == WeightOf(t.weight, c, o)
           n == VolumeOf(t.volume, c, o)
<1>1. b \in Message /\ b.w \in Int /\ b.v \in Int
  BY BurdenFields DEF Message
<1>2. Minus(b) \in Message /\ Minus(b).w = -b.w /\ Minus(b).v = -b.v
  BY <1>1, MinusFields
<1>3. Even(Minus(b), unit[c])
  BY EvenMessages
<1>4. CASE o \notin Containers
  <2>1. r = UpdateInternal(e, t, c, Minus(b))
    BY <1>4, LeavingMessages
  <2>2. b.w = m /\ b.v = n
    BY <1>4, BurdenFields
  <2> HIDE DEF b, m, n
  <2>3. Exactly(unit, r)
    BY <1>2, <1>3, <2>1, UpdateExactly
  <2>4. OpensWeight(e, t, r, c, -m) /\ OpensVolume(e, t, r, c, -n)
    BY <1>2, <1>3, <2>1, <2>2, UpdateWeight, UpdateVolume DEF OpensWeight, OpensVolume
  <2> QED BY <2>3, <2>4 DEF m, n
<1>5. CASE o \in Containers
  <2> DEFINE f == Relief(t, o, c)
  <2>1. f \in Message /\ b.w - f.w = m /\ b.v - f.v = n /\ f.w \in Int /\ f.v \in Int
    BY <1>5, ReliefFields DEF Message
  <2>2. r = Twice(e, t, c, f, Minus(b)) \/ r = Twice(e, t, c, Minus(b), f)
    BY <1>5, LeavingMessages
  <2>3. Even(f, unit[c])
    BY <1>5, EvenMessages
  <2> HIDE DEF b, m, n, f
  <2>4. /\ f.w + Minus(b).w = -m /\ Minus(b).w + f.w = -m
        /\ f.v + Minus(b).v = -n /\ Minus(b).v + f.v = -n
    BY <1>1, <1>2, <2>1
  <2>5. Exactly(unit, r) /\ OpensWeight(e, t, r, c, -m) /\ OpensVolume(e, t, r, c, -n)
    BY <1>2, <1>3, <2>1, <2>2, <2>3, <2>4, TwiceExactly
  <2> QED BY <2>5 DEF m, n
<1> QED BY <1>4, <1>5

LEMMA EnteringLoad ==
  ASSUME NEW unit, Exact(unit), NEW e, Nested(e), Fitting(e), NEW t \in Record,
         Exactly(unit, t), NEW o \in Things, NEW c \in Containers,
         o \in Containers => MayHold(c, o), Apart(e, o, c)
  PROVE  /\ Exactly(unit, Enter(e, t, o, c))
         /\ OpensWeight(e, t, Enter(e, t, o, c), c, WeightOf(t.weight, c, o))
         /\ OpensVolume(e, t, Enter(e, t, o, c), c, VolumeOf(t.volume, c, o))
<1> DEFINE b == Burden(t, o)
           m == WeightOf(t.weight, c, o)
           n == VolumeOf(t.volume, c, o)
           r == Enter(e, t, o, c)
<1>1. b \in Message /\ b.w \in Int /\ b.v \in Int
  BY BurdenFields DEF Message
<1>2. Even(b, unit[c])
  BY EvenMessages
<1>3. CASE o \notin Containers
  <2>1. r = UpdateInternal(e, t, c, b)
    BY <1>3, EnteringMessages
  <2>2. b.w = m /\ b.v = n
    BY <1>3, BurdenFields
  <2> HIDE DEF b, m, n, r
  <2>3. Exactly(unit, r)
    BY <1>1, <1>2, <2>1, UpdateExactly
  <2>4. OpensWeight(e, t, r, c, m) /\ OpensVolume(e, t, r, c, n)
    BY <1>1, <1>2, <2>1, <2>2, UpdateWeight, UpdateVolume DEF OpensWeight, OpensVolume
  <2> QED BY <2>3, <2>4 DEF m, n, r
<1>4. CASE o \in Containers
  <2> DEFINE f == Relief(t, o, c)
  <2>1. f \in Message /\ b.w - f.w = m /\ b.v - f.v = n /\ f.w \in Int /\ f.v \in Int
    BY <1>4, ReliefFields DEF Message
  <2>2. r = Twice(e, t, c, Minus(f), b)
    BY <1>4, EnteringMessages
  <2>3. Even(Minus(f), unit[c])
    BY <1>4, EvenMessages
  <2>4. Minus(f) \in Message /\ Minus(f).w = -f.w /\ Minus(f).v = -f.v
    BY <2>1, MinusFields
  <2> HIDE DEF b, m, n, f, r
  <2>5. Minus(f).w + b.w = m /\ Minus(f).v + b.v = n
    BY <1>1, <2>1, <2>4
  <2>6. Exactly(unit, r) /\ OpensWeight(e, t, r, c, m) /\ OpensVolume(e, t, r, c, n)
    BY <1>1, <1>2, <2>2, <2>3, <2>4, <2>5, TwiceExactly
  <2> QED BY <2>6 DEF m, n, r
<1> QED BY <1>3, <1>4

-----------------------------------------------------------------------------
(***************************************************************************)
(* A move.                                                                 *)
(***************************************************************************)
LightBalanced ==
    \A x \in Containers : Gap(light, Lights(closed, lit, light), env, x) = 0

LoadBalanced ==
    \A x \in Containers : /\ Gap(weight, Weights(weight), env, x) = 0
                          /\ Gap(volume, Volumes(volume), env, x) = 0

LEMMA TotalsRecord ==
  ASSUME TypeOK
  PROVE  /\ Totals \in Record
         /\ Totals.light = light /\ Totals.weight = weight /\ Totals.volume = volume
BY DEF TypeOK, Totals, Record, Books

\* What is around o, before or after it is moved to dest, is not inside o.
LEMMA MoveNests ==
  ASSUME TypeOK, Nested(env), NEW o \in Things, NEW dest \in Containers,
         dest # o, dest \notin Inside(o),
         NEW e, e = [env EXCEPT ![o] = dest]
  PROVE  /\ Nested(e)
         /\ e \in [Things -> Containers \cup {Void, Gone}]
         /\ env[o] \in Containers => Apart(e, o, env[o])
         /\ Apart(e, o, dest)
<1> PICK r : Ranked(env, r)
  BY DEF Nested
<1>1. /\ \A x \in Things : r[x] \in Nat
      /\ env \in [Things -> Containers \cup {Void, Gone}]
      /\ dest \in Things
  BY ContainmentAssumption DEF Ranked, TypeOK
<1>2. Within(env, o, Inside(o))
  BY InsideIsWithin
<1>3. \A x \in Inside(o) : r[x] < r[o]
  BY <1>2, InsideIsLower
<1> DEFINE I == Inside(o) \cup {o}
           D == Things \ I
           q == [x \in Things |-> IF x \in I THEN r[x] ELSE r[x] + r[o] + 1]
<1>4. e[o] = dest /\ \A x \in Things \ {o} : e[x] = env[x]
  BY <1>1
<1>5. \A x \in Things : env[x] \in I => x \in I
  BY <1>2 DEF Within
<1>6. \A x \in Inside(o) : env[x] \in I
  BY <1>2 DEF Within
<1>7. o \notin Inside(o)
  BY <1>1, <1>3
<1>8. dest \in D
  BY <1>1
<1> HIDE DEF I
<1>9. o \in I /\ \A x \in I : x \in Things /\ (x # o => x \in Inside(o)) /\ r[x] <= r[o]
  BY <1>1, <1>2, <1>3 DEF I, Within
<1>10. q \in [Things -> Nat]
  BY <1>1
<1>11. ASSUME NEW x \in Things, e[x] \in Things PROVE q[x] < q[e[x]]
  <2>1. r[x] \in Nat /\ r[o] \in Nat /\ r[e[x]] \in Nat
    BY <1>1, <1>11
  <2>2. CASE x = o
    <3>1. q[x] = r[o] /\ q[e[x]] = r[dest] + r[o] + 1
      BY <1>4, <1>8, <1>9, <1>11, <2>2
    <3> QED BY <1>1, <2>1, <3>1
  <2>3. CASE x \in I /\ x # o
    <3>1. e[x] = env[x] /\ e[x] \in I
      BY <1>4, <1>6, <1>9, <2>3
    <3>2. q[x] = r[x] /\ q[e[x]] = r[e[x]]
      BY <1>11, <2>3, <3>1
    <3>3. r[x] < r[e[x]]
      BY <1>11, <3>1 DEF Ranked
    <3> QED BY <3>2, <3>3
  <2>4. CASE x \notin I
    <3>1. x # o
      BY <1>9, <2>4
    <3>2. e[x] = env[x] /\ e[x] \notin I
      BY <1>4, <1>5, <2>4, <3>1
    <3>3. q[x] = r[x] + r[o] + 1 /\ q[e[x]] = r[e[x]] + r[o] + 1
      BY <1>11, <2>4, <3>2
    <3>4. r[x] < r[e[x]]
      BY <1>11, <3>2 DEF Ranked
    <3> QED BY <2>1, <3>3, <3>4
  <2> QED BY <2>2, <2>3, <2>4
<1>12. Nested(e)
  <2> HIDE DEF q
  <2> QED BY <1>10, <1>11 DEF Nested, Ranked
<1>13. Outward(e, D)
  <2>1. \A x \in D : x # o /\ env[x] \notin I
    BY <1>5, <1>9
  <2> QED BY <1>4, <2>1 DEF Outward
<1>14. ASSUME env[o] \in Containers PROVE env[o] \in D
  <2>1. env[o] \in Things /\ r[o] < r[env[o]] /\ r[env[o]] \in Nat /\ r[o] \in Nat
    BY <1>1, <1>14, ContainmentAssumption DEF Ranked
  <2>2. env[o] \notin I
    BY <1>9, <2>1
  <2> QED BY <2>1, <2>2
<1>15. o \notin D
  BY <1>9
<1>16. e \in [Things -> Containers \cup {Void, Gone}]
  BY <1>1
<1> HIDE DEF D
<1> QED BY <1>8, <1>12, <1>13, <1>14, <1>15, <1>16 DEF Apart, Spared

\* What the two handlers of a move leave in the books.
LEMMA MoveMessages ==
  ASSUME TypeOK, Nested(env), NEW o \in Things, NEW dest \in Containers, MoveTo(o, dest)
  PROVE  \E e, q, r :
            /\ e = [env EXCEPT ![o] = dest]
            /\ env' = e /\ light' = r.light /\ weight' = r.weight /\ volume' = r.volume
            /\ closed' = closed /\ lit' = lit
            /\ dest # env[o] /\ Nested(e) /\ e \in [Things -> Containers \cup {Void, Gone}]
            /\ Apart(e, o, dest)
            /\ r = Enter(e, q, o, dest)
            /\ \/ env[o] = Void /\ q = Totals
               \/ /\ env[o] \in Containers
                  /\ Apart(e, o, env[o])
                  /\ HasLeft(e, Totals, o, env[o], q)
<1> DEFINE e == [env EXCEPT ![o] = dest]
           q == Leave(e, Totals, o)
           r == Enter(e, q, o, dest)
<1>1. /\ env' = e /\ light' = r.light /\ weight' = r.weight /\ volume' = r.volume
      /\ closed' = closed /\ lit' = lit
      /\ dest # env[o] /\ dest # o /\ dest \notin Inside(o) /\ env[o] # Gone
  BY DEF MoveTo, Set, Exists
<1>2. /\ Nested(e) /\ e \in [Things -> Containers \cup {Void, Gone}]
      /\ env[o] \in Containers => Apart(e, o, env[o])
      /\ Apart(e, o, dest)
  BY <1>1, MoveNests
<1>3. env[o] \in Containers \/ env[o] = Void
  BY <1>1 DEF TypeOK
<1>4. env[o] # Void => q = LeaveInv(e, LeaveEnv(e, Totals, o, env[o]), o, env[o])
  BY DEF Leave
<1>5. env[o] = Void => q = Totals
  BY DEF Leave
<1>6. env[o] \in Containers => env[o] # Void
  BY ContainmentAssumption
<1> HIDE DEF q, r
<1>7. \/ env[o] = Void /\ q = Totals
      \/ /\ env[o] \in Containers
         /\ Apart(e, o, env[o])
         /\ HasLeft(e, Totals, o, env[o], q)
  BY <1>2, <1>3, <1>4, <1>5, <1>6 DEF HasLeft
<1> HIDE DEF e
<1> QED BY <1>1, <1>2, <1>7 DEF r, e

\* What a move opens in two books, its two handlers close.
LEMMA MoveCloses ==
  ASSUME NEW x, NEW from, NEW dest, NEW n \in Int, NEW a, NEW b, NEW c, NEW d,
         a = 0,
         b = a + (IF x = from THEN n ELSE 0) - (IF x = dest THEN n ELSE 0),
         c = b + (IF x = from THEN -n ELSE 0),
         d = c + (IF x = dest THEN n ELSE 0)
  PROVE  d = 0
<1>1. CASE x = from /\ x = dest
  <2>1. b = 0 + n - n /\ c = b - n /\ d = c + n
    BY <1>1
  <2> QED BY <2>1
<1>2. CASE x = from /\ x # dest
  <2>1. b = 0 + n - 0 /\ c = b + (-n) /\ d = c + 0
    BY <1>2
  <2> QED BY <2>1
<1>3. CASE x # from /\ x = dest
  <2>1. b = 0 + 0 - n /\ c = b + 0 /\ d = c + n
    BY <1>3
  <2> QED BY <2>1
<1>4. CASE x # from /\ x # dest
  <2>1. b = 0 + 0 - 0 /\ c = b + 0 /\ d = c + 0
    BY <1>4
  <2> QED BY <2>1
<1> QED BY <1>1, <1>2, <1>3, <1>4

\* As MoveCloses, where what was moved comes from nowhere.
LEMMA ArrivalCloses ==
  ASSUME NEW x, NEW from, NEW dest, x # from, NEW n \in Int, NEW a, NEW b, NEW d,
         a = 0,
         b = a + (IF x = from THEN n ELSE 0) - (IF x = dest THEN n ELSE 0),
         d = b + (IF x = dest THEN n ELSE 0)
  PROVE  d = 0
<1>1. CASE x = dest
  <2>1. b = 0 + 0 - n /\ d = b + n
    BY <1>1
  <2> QED BY <2>1
<1>2. CASE x # dest
  <2>1. b = 0 + 0 - 0 /\ d = b + 0
    BY <1>2
  <2> QED BY <2>1
<1> QED BY <1>1, <1>2

LEMMA MoveLight ==
  ASSUME TypeOK, Nested(env), LightBalanced, NEW o \in Things \ Rooms,
         NEW dest \in Containers, MoveTo(o, dest)
  PROVE  TypeOK' /\ Nested(env)' /\ LightBalanced'
<1>1. PICK e, q, r :
       /\ e = [env EXCEPT ![o] = dest]
       /\ env' = e /\ light' = r.light /\ weight' = r.weight /\ volume' = r.volume
       /\ closed' = closed /\ lit' = lit
       /\ dest # env[o] /\ Nested(e) /\ e \in [Things -> Containers \cup {Void, Gone}]
       /\ Apart(e, o, dest)
       /\ r = Enter(e, q, o, dest)
       /\ \/ env[o] = Void /\ q = Totals
          \/ /\ env[o] \in Containers
             /\ Apart(e, o, env[o])
             /\ HasLeft(e, Totals, o, env[o], q)
  BY MoveMessages
<1> DEFINE n == LightOf(closed, lit, light, o)
           from == env[o]
<1>2. Totals \in Record /\ Totals.light = light
  BY TotalsRecord
<1>3. n \in Int /\ \A x \in Containers : Lights(closed, lit, light)[x][o] = n
  <2>1. light \in Books
    BY DEF TypeOK, Books
  <2>2. \A x \in Containers : Lights(closed, lit, light)[x][o] = n
    BY DEF Lights
  <2>3. \A x \in Containers : Lights(closed, lit, light)[x][o] \in Int
    BY <2>1, LightShares DEF Shares
  <2>4. PICK x \in Containers : TRUE
    OBVIOUS
  <2> HIDE DEF n
  <2> QED BY <2>2, <2>3, <2>4
<1> HIDE DEF n
<1>4. \A x \in Containers :
        /\ LightGap(Totals, env, x) = 0
        /\ LightGap(Totals, e, x) = LightGap(Totals, env, x)
             + (IF x = from THEN n ELSE 0) - (IF x = dest THEN n ELSE 0)
  <2>1. env \in [Things -> Containers \cup {Void, Gone}]
    BY DEF TypeOK
  <2>2. light \in Books /\ Lights(closed, lit, light) \in Shares
    BY <1>2, LightShares DEF Record
  <2> DEFINE s == Lights(closed, lit, light)
  <2>3. Opened(light, s, env, e, o)
    BY <1>1, <2>1, <2>2, MoveOpensBooks
  <2>4. \A x \in Containers : s[x][o] = n
    BY <1>3
  <2>5. e[o] = dest
    BY <1>1, <2>1
  <2> HIDE DEF s
  <2> QED BY <1>2, <2>3, <2>4, <2>5 DEF LightBalanced, LightGap, Opened, s
<1>5. ASSUME env[o] = Void /\ q = Totals
      PROVE  r \in Record /\ \A x \in Containers : LightGap(r, e, x) = 0
  <2>1. \A x \in Containers : x # from
    BY <1>5, ContainmentAssumption
  <2>2. r \in Record /\ OpensLight(e, q, r, dest, n)
    BY <1>1, <1>2, <1>5, EnteringLight DEF n
  <2>3. ASSUME NEW x \in Containers PROVE LightGap(r, e, x) = 0
    <3>1. LightGap(r, e, x) = LightGap(Totals, e, x) + (IF x = dest THEN n ELSE 0)
      BY <1>5, <2>2 DEF OpensLight
    <3> HIDE DEF from
    <3> QED BY <1>3, <1>4, <2>1, <3>1, ArrivalCloses
  <2> QED BY <2>2, <2>3
<1>6. ASSUME /\ env[o] \in Containers /\ Apart(e, o, env[o])
             /\ HasLeft(e, Totals, o, env[o], q)
      PROVE  r \in Record /\ \A x \in Containers : LightGap(r, e, x) = 0
  <2>1. /\ q \in Record /\ Same(Totals, q, o)
        /\ OpensLight(e, Totals, q, from, -n)
    BY <1>1, <1>2, <1>6, LeavingLight DEF n
  <2>2. LightOf(closed, lit, q.light, o) = n
    BY <1>2, <2>1 DEF Same, Untouched, LightOf, n
  <2>3. r \in Record /\ OpensLight(e, q, r, dest, n)
    BY <1>1, <2>1, <2>2, EnteringLight
  <2>4. ASSUME NEW x \in Containers PROVE LightGap(r, e, x) = 0
    <3>1. LightGap(q, e, x) = LightGap(Totals, e, x) + (IF x = from THEN -n ELSE 0)
      BY <2>1 DEF OpensLight
    <3>2. LightGap(r, e, x) = LightGap(q, e, x) + (IF x = dest THEN n ELSE 0)
      BY <2>3 DEF OpensLight
    <3> HIDE DEF from
    <3> QED BY <1>3, <1>4, <3>1, <3>2, MoveCloses
  <2> QED BY <2>3, <2>4
<1>7. r \in Record /\ \A x \in Containers : LightGap(r, e, x) = 0
  BY <1>1, <1>5, <1>6
<1>8. LightBalanced'
  BY <1>1, <1>7 DEF LightGap, LightBalanced
<1>9. TypeOK'
  <2>1. light' \in Books /\ weight' \in Books /\ volume' \in Books
    BY <1>1, <1>7 DEF Record
  <2>2. \A x \in Rooms : env'[x] = Void
    BY <1>1, Sizes DEF TypeOK
  <2> QED BY <1>1, <2>1, <2>2 DEF TypeOK, Books
<1> QED BY <1>1, <1>8, <1>9

LEMMA MoveLoad ==
  ASSUME NEW unit, Exact(unit), TypeOK, Nested(env), Fitting(env), Exactly(unit, Totals),
         LoadBalanced, NEW o \in Things, NEW dest \in Containers, MoveTo(o, dest),
         o \in Containers => MayHold(dest, o)
  PROVE  Fitting(env)' /\ Exactly(unit, Totals)' /\ LoadBalanced'
<1>1. PICK e, q, r :
       /\ e = [env EXCEPT ![o] = dest]
       /\ env' = e /\ light' = r.light /\ weight' = r.weight /\ volume' = r.volume
       /\ closed' = closed /\ lit' = lit
       /\ dest # env[o] /\ Nested(e) /\ e \in [Things -> Containers \cup {Void, Gone}]
       /\ Apart(e, o, dest)
       /\ r = Enter(e, q, o, dest)
       /\ \/ env[o] = Void /\ q = Totals
          \/ /\ env[o] \in Containers
             /\ Apart(e, o, env[o])
             /\ HasLeft(e, Totals, o, env[o], q)
  BY MoveMessages
<1> DEFINE m(x) == WeightOf(weight, x, o)
           n(x) == VolumeOf(volume, x, o)
           from == env[o]
<1>2. /\ Totals \in Record /\ Totals.weight = weight /\ Totals.volume = volume
      /\ weight \in Books /\ volume \in Books
  BY TotalsRecord DEF Record
<1>3. \A x \in Containers : /\ m(x) \in Int /\ Weights(weight)[x][o] = m(x)
                            /\ n(x) \in Int /\ Volumes(volume)[x][o] = n(x)
  <2>1. \A x \in Containers : Weights(weight)[x][o] = m(x) /\ Volumes(volume)[x][o] = n(x)
    BY DEF Weights, Volumes
  <2>2. \A x \in Containers : Weights(weight)[x][o] \in Int /\ Volumes(volume)[x][o] \in Int
    BY <1>2, WeightShares, VolumeShares DEF Shares
  <2> HIDE DEF m, n
  <2> QED BY <2>1, <2>2
<1>4. /\ env \in [Things -> Containers \cup {Void, Gone}] /\ e[o] = dest
      /\ \A y \in Things \ {o} : e[y] = env[y]
  BY <1>1 DEF TypeOK
<1> HIDE DEF m, n
<1>5. \A x \in Containers :
        /\ WeightGap(Totals, env, x) = 0
        /\ WeightGap(Totals, e, x) = WeightGap(Totals, env, x)
             + (IF x = from THEN m(x) ELSE 0) - (IF x = dest THEN m(x) ELSE 0)
  <2> DEFINE s == Weights(weight)
  <2>1. s \in Shares
    BY <1>2, WeightShares
  <2>2. \A x \in Containers : s[x][o] = m(x)
    BY <1>3
  <2> HIDE DEF s
  <2>3. Opened(weight, s, env, e, o)
    BY <1>1, <1>2, <1>4, <2>1, MoveOpensBooks
  <2> QED BY <1>2, <1>4, <2>2, <2>3 DEF LoadBalanced, WeightGap, Opened, s
<1>6. \A x \in Containers :
        /\ VolumeGap(Totals, env, x) = 0
        /\ VolumeGap(Totals, e, x) = VolumeGap(Totals, env, x)
             + (IF x = from THEN n(x) ELSE 0) - (IF x = dest THEN n(x) ELSE 0)
  <2> DEFINE s == Volumes(volume)
  <2>1. s \in Shares
    BY <1>2, VolumeShares
  <2>2. \A x \in Containers : s[x][o] = n(x)
    BY <1>3
  <2> HIDE DEF s
  <2>3. Opened(volume, s, env, e, o)
    BY <1>1, <1>2, <1>4, <2>1, MoveOpensBooks
  <2> QED BY <1>2, <1>4, <2>2, <2>3 DEF LoadBalanced, VolumeGap, Opened, s
<1>7. Fitting(e)
  BY <1>4, Sizes DEF Fitting
<1>8. ASSUME env[o] = Void /\ q = Totals
      PROVE  /\ Exactly(unit, r)
             /\ \A x \in Containers : WeightGap(r, e, x) = 0 /\ VolumeGap(r, e, x) = 0
  <2>1. \A x \in Containers : x # from
    BY <1>8, ContainmentAssumption
  <2>2. /\ Exactly(unit, r)
        /\ OpensWeight(e, q, r, dest, m(dest))
        /\ OpensVolume(e, q, r, dest, n(dest))
    BY <1>1, <1>2, <1>7, <1>8, EnteringLoad DEF m, n
  <2>3. ASSUME NEW x \in Containers PROVE WeightGap(r, e, x) = 0
    <3>1. WeightGap(r, e, x) = WeightGap(Totals, e, x) + (IF x = dest THEN m(x) ELSE 0)
      BY <1>8, <2>2 DEF OpensWeight
    <3> HIDE DEF from
    <3> QED BY <1>3, <1>5, <2>1, <3>1, ArrivalCloses
  <2>4. ASSUME NEW x \in Containers PROVE VolumeGap(r, e, x) = 0
    <3>1. VolumeGap(r, e, x) = VolumeGap(Totals, e, x) + (IF x = dest THEN n(x) ELSE 0)
      BY <1>8, <2>2 DEF OpensVolume
    <3> HIDE DEF from
    <3> QED BY <1>3, <1>6, <2>1, <3>1, ArrivalCloses
  <2> QED BY <2>2, <2>3, <2>4
<1>9. ASSUME /\ env[o] \in Containers /\ Apart(e, o, env[o])
             /\ HasLeft(e, Totals, o, env[o], q)
      PROVE  /\ Exactly(unit, r)
             /\ \A x \in Containers : WeightGap(r, e, x) = 0 /\ VolumeGap(r, e, x) = 0
  <2>1. q \in Record /\ Same(Totals, q, o)
    BY <1>1, <1>2, <1>9, LeavingLight
  <2>2. o \in Containers => MayHold(env[o], o)
    BY <1>9 DEF Fitting
  <2>3. /\ Exactly(unit, q)
        /\ OpensWeight(e, Totals, q, from, -m(from))
        /\ OpensVolume(e, Totals, q, from, -n(from))
    BY <1>1, <1>2, <1>7, <1>9, <2>2, LeavingLoad DEF m, n
  <2>4. WeightOf(q.weight, dest, o) = m(dest) /\ VolumeOf(q.volume, dest, o) = n(dest)
    BY <1>2, <2>1, Sizes DEF Same, Untouched, WeightOf, VolumeOf, m, n
  <2>5. /\ Exactly(unit, r)
        /\ OpensWeight(e, q, r, dest, m(dest))
        /\ OpensVolume(e, q, r, dest, n(dest))
    BY <1>1, <1>7, <2>1, <2>3, <2>4, EnteringLoad
  <2>6. ASSUME NEW x \in Containers PROVE WeightGap(r, e, x) = 0
    <3>1. WeightGap(q, e, x) = WeightGap(Totals, e, x) + (IF x = from THEN -m(x) ELSE 0)
      BY <2>3 DEF OpensWeight
    <3>2. WeightGap(r, e, x) = WeightGap(q, e, x) + (IF x = dest THEN m(x) ELSE 0)
      BY <2>5 DEF OpensWeight
    <3> HIDE DEF from
    <3> QED BY <1>3, <1>5, <3>1, <3>2, MoveCloses
  <2>7. ASSUME NEW x \in Containers PROVE VolumeGap(r, e, x) = 0
    <3>1. VolumeGap(q, e, x) = VolumeGap(Totals, e, x) + (IF x = from THEN -n(x) ELSE 0)
      BY <2>3 DEF OpensVolume
    <3>2. VolumeGap(r, e, x) = VolumeGap(q, e, x) + (IF x = dest THEN n(x) ELSE 0)
      BY <2>5 DEF OpensVolume
    <3> HIDE DEF from
    <3> QED BY <1>3, <1>6, <3>1, <3>2, MoveCloses
  <2> QED BY <2>5, <2>6, <2>7
<1>10. /\ Exactly(unit, r)
       /\ \A x \in Containers : WeightGap(r, e, x) = 0 /\ VolumeGap(r, e, x) = 0
  BY <1>1, <1>8, <1>9
<1>11. LoadBalanced'
  BY <1>1, <1>10 DEF WeightGap, VolumeGap, LoadBalanced
<1>12. Exactly(unit, Totals)'
  BY <1>1, <1>10 DEF Exactly, Totals
<1>13. Fitting(env)'
  BY <1>1, <1>7 DEF Fitting
<1> QED BY <1>11, <1>12, <1>13

-----------------------------------------------------------------------------
(***************************************************************************)
(* Lamps and lids: what o accounts for changes where it is, and it tells   *)
(* the container it is in by how much.                                     *)
(***************************************************************************)

\* Only what o accounts for differs in s and u.
Reshared(s, u, o) == \A x \in Containers, y \in Things \ {o} : u[x][y] = s[x][y]

LEMMA ShareChanges ==
  ASSUME NEW e, NEW o \in Things, NEW a \in Books, NEW s \in Shares, NEW u \in Shares,
         Reshared(s, u, o), NEW x \in Containers, NEW n, n = u[x][o] - s[x][o]
  PROVE  Gap(a, u, e, x) = Gap(a, s, e, x) - (IF x = e[o] THEN n ELSE 0)
<1> DEFINE H == Held(e, x)
<1>1. IsFiniteSet(H) /\ H \in SUBSET Things
  BY SubsetsFinite DEF Held
<1>2. Integral(s[x], H) /\ Integral(u[x], H) /\ s[x][o] \in Int /\ u[x][o] \in Int
  BY DEF Integral, Shares, Held
<1>3. Sum(s[x], H) \in Int /\ a[x] \in Int
  <2>1. a[x] \in Int
    BY DEF Books
  <2> HIDE DEF H
  <2> QED BY <1>1, <1>2, <2>1, SumInt
<1>4. CASE x = e[o]
  <2>1. o \in H
    BY <1>4 DEF Held
  <2>2. Coincide(s[x], u[x], H \ {o})
    BY <1>1 DEF Coincide, Reshared
  <2>3. Sum(u[x], H) = Sum(s[x], H) + (u[x][o] - s[x][o])
    <3> HIDE DEF H
    <3> QED BY <1>1, <1>2, <2>1, <2>2, SumChange
  <2> HIDE DEF H
  <2> QED BY <1>2, <1>3, <1>4, <2>3 DEF Gap, H
<1>5. CASE x # e[o]
  <2>1. Coincide(s[x], u[x], H)
    BY <1>1, <1>5 DEF Coincide, Reshared, Held
  <2>2. Sum(u[x], H) = Sum(s[x], H)
    <3> HIDE DEF H
    <3> QED BY <1>1, <2>1, SumAgree
  <2> HIDE DEF H
  <2> QED BY <1>3, <1>5, <2>2 DEF Gap, H
<1> QED BY <1>4, <1>5

\* What is around o is above it, so that o does not notice what it tells.
LEMMA Around ==
  ASSUME NEW e, Nested(e), NEW o \in Things, e[o] \in Containers
  PROVE  Spared(e, o, e[o])
<1> PICK r : Ranked(e, r)
  BY DEF Nested
<1> DEFINE D == {z \in Things : r[e[o]] <= r[z]}
<1>1. e[o] \in Things /\ r[o] < r[e[o]] /\ r[o] \in Nat /\ r[e[o]] \in Nat
  BY Sizes DEF Ranked
<1>2. Outward(e, D)
  <2>1. ASSUME NEW x \in D, e[x] \in Things PROVE e[x] \in D
    <3>1. r[x] < r[e[x]] /\ r[x] \in Nat /\ r[e[x]] \in Nat
      BY <2>1 DEF Ranked
    <3> QED BY <1>1, <2>1, <3>1
  <2> QED BY <2>1 DEF Outward
<1>3. e[o] \in D /\ o \notin D
  BY <1>1
<1> QED BY <1>2, <1>3 DEF Spared

\* The totals after a message about o.
Noticed(o, d, r) ==
    r = IF env[o] = Void THEN Totals ELSE UpdateInternal(env, Totals, env[o], d)

LEMMA NotifyNotices ==
  ASSUME TypeOK, NEW o \in Things, Exists(o), NEW d, Notify(o, d)
  PROVE  \E r : /\ Noticed(o, d, r)
                /\ light' = r.light /\ weight' = r.weight /\ volume' = r.volume
BY DEF Notify, Set, Noticed

LEMMA NoticedLight ==
  ASSUME TypeOK, Nested(env), LightBalanced, NEW o \in Things, Exists(o),
         NEW d \in Message, NEW r, Noticed(o, d, r)
  PROVE  /\ r \in Record /\ Same(Totals, r, o)
         /\ \A x \in Containers :
              /\ LightGap(Totals, env, x) = 0
              /\ LightGap(r, env, x) = LightGap(Totals, env, x)
                   + IF x = env[o] THEN d.l ELSE 0
<1>1. Totals \in Record /\ Totals.light = light
  BY TotalsRecord
<1>2. \A x \in Containers : LightGap(Totals, env, x) = 0
  BY <1>1 DEF LightBalanced, LightGap
<1>3. CASE env[o] = Void
  <2>1. r = Totals /\ \A x \in Containers : x # env[o]
    BY <1>3, Sizes DEF Noticed
  <2> QED BY <1>1, <1>2, <2>1 DEF Same, Untouched
<1>4. CASE env[o] # Void
  <2>1. env[o] \in Containers
    BY <1>4 DEF TypeOK, Exists
  <2>2. r = UpdateInternal(env, Totals, env[o], d)
    BY <1>4 DEF Noticed
  <2>3. r \in Record
    BY <1>1, <2>1, <2>2, UpdateTyped
  <2>4. Same(Totals, r, o)
    BY <1>1, <2>1, <2>2, Around, UpdateSpares DEF Same
  <2> QED BY <1>1, <1>2, <2>1, <2>2, <2>3, <2>4, UpdateLight
<1> QED BY <1>3, <1>4

LEMMA NoticedLoad ==
  ASSUME NEW unit, Exact(unit), TypeOK, Nested(env), Fitting(env), Exactly(unit, Totals),
         LoadBalanced, NEW o \in Things, Exists(o),
         NEW d \in Message, d.w = 0, d.v = 0, NEW r, Noticed(o, d, r)
  PROVE  /\ Exactly(unit, r)
         /\ \A x \in Containers : WeightGap(r, env, x) = 0 /\ VolumeGap(r, env, x) = 0
<1>1. Totals \in Record /\ Totals.weight = weight /\ Totals.volume = volume
  BY TotalsRecord
<1>2. \A x \in Containers : WeightGap(Totals, env, x) = 0 /\ VolumeGap(Totals, env, x) = 0
  BY <1>1 DEF LoadBalanced, WeightGap, VolumeGap
<1>3. CASE env[o] = Void
  <2>1. r = Totals
    BY <1>3 DEF Noticed
  <2> QED BY <1>2, <2>1
<1>4. CASE env[o] # Void
  <2>1. env[o] \in Containers
    BY <1>4 DEF TypeOK, Exists
  <2>2. r = UpdateInternal(env, Totals, env[o], d)
    BY <1>4 DEF Noticed
  <2>3. Even(d, unit[env[o]])
    BY <2>1, MultipleZero DEF Even, Exact
  <2>4. Exactly(unit, r)
    BY <1>1, <2>1, <2>2, <2>3, UpdateExactly
  <2>5. \A x \in Containers : WeightGap(r, env, x) = WeightGap(Totals, env, x)
                                + IF x = env[o] THEN d.w ELSE 0
    BY <1>1, <2>1, <2>2, <2>3, UpdateWeight
  <2>6. \A x \in Containers : VolumeGap(r, env, x) = VolumeGap(Totals, env, x)
                                + IF x = env[o] THEN d.v ELSE 0
    BY <1>1, <2>1, <2>2, <2>3, UpdateVolume
  <2>7. \A x \in Containers : WeightGap(r, env, x) = 0 /\ VolumeGap(r, env, x) = 0
    BY <1>2, <2>5, <2>6
  <2> QED BY <2>4, <2>7
<1> QED BY <1>3, <1>4

\* Nothing but o is lit or dimmed, opened or closed.
OnlyAt(o) ==
    /\ env' = env
    /\ closed' \in SUBSET Boxes /\ lit' \in SUBSET Lamps
    /\ \A y \in Things \ {o} : (y \in closed' <=> y \in closed) /\ (y \in lit' <=> y \in lit)

LEMMA NoticeLight ==
  ASSUME TypeOK, Nested(env), LightBalanced, NEW o \in Things, Exists(o),
         NEW d \in Message, Notify(o, d), OnlyAt(o),
         d.l = LightOf(closed', lit', light, o) - LightOf(closed, lit, light, o)
  PROVE  TypeOK' /\ Nested(env)' /\ LightBalanced'
<1>1. PICK r : /\ Noticed(o, d, r)
               /\ light' = r.light /\ weight' = r.weight /\ volume' = r.volume
  BY NotifyNotices
<1>2. /\ r \in Record /\ Same(Totals, r, o)
      /\ \A x \in Containers :
           /\ LightGap(Totals, env, x) = 0
           /\ LightGap(r, env, x) = LightGap(Totals, env, x)
                + IF x = env[o] THEN d.l ELSE 0
  BY <1>1, NoticedLight
<1>3. light' \in Books /\ weight' \in Books /\ volume' \in Books
  BY <1>1, <1>2 DEF Record
<1> DEFINE s == Lights(closed, lit, light')
           u == Lights(closed', lit', light')
<1>4. s \in Shares /\ u \in Shares
  BY <1>3, LightShares
<1>5. Reshared(s, u, o)
  <2>1. \A y \in Things \ {o} :
          LightOf(closed', lit', light', y) = LightOf(closed, lit, light', y)
    BY DEF OnlyAt, LightOf
  <2> QED BY <2>1 DEF Reshared, Lights
<1>6. \A x \in Containers : d.l = u[x][o] - s[x][o]
  <2>1. o \in Containers => light'[o] = light[o]
    BY <1>1, <1>2, TotalsRecord DEF Same, Untouched
  <2>2. /\ LightOf(closed', lit', light', o) = LightOf(closed', lit', light, o)
        /\ LightOf(closed, lit, light', o) = LightOf(closed, lit, light, o)
    BY <2>1 DEF LightOf
  <2> QED BY <2>2 DEF Lights
<1>7. ASSUME NEW x \in Containers
      PROVE  Gap(light', u, env, x) = 0
  <2>1. Gap(light', s, env, x) = 0 + IF x = env[o] THEN d.l ELSE 0
    BY <1>1, <1>2 DEF LightGap
  <2>2. Gap(light', u, env, x) = Gap(light', s, env, x) - (IF x = env[o] THEN d.l ELSE 0)
    <3> HIDE DEF s, u
    <3> QED BY <1>3, <1>4, <1>5, <1>6, ShareChanges
  <2>3. d.l \in Int
    BY DEF Message
  <2> HIDE DEF s, u
  <2> QED BY <2>1, <2>2, <2>3
<1>8. LightBalanced'
  BY <1>7 DEF LightBalanced, OnlyAt
<1>9. TypeOK'
  BY <1>3 DEF TypeOK, OnlyAt, Books
<1> QED BY <1>8, <1>9 DEF OnlyAt

LEMMA NoticeLoad ==
  ASSUME NEW unit, Exact(unit), TypeOK, Nested(env), Fitting(env), Exactly(unit, Totals),
         LoadBalanced, NEW o \in Things, Exists(o), NEW d \in Message, d.w = 0, d.v = 0,
         Notify(o, d), env' = env
  PROVE  Fitting(env)' /\ Exactly(unit, Totals)' /\ LoadBalanced'
<1>1. PICK r : /\ Noticed(o, d, r)
               /\ light' = r.light /\ weight' = r.weight /\ volume' = r.volume
  BY NotifyNotices
<1>2. /\ Exactly(unit, r)
      /\ \A x \in Containers : WeightGap(r, env, x) = 0 /\ VolumeGap(r, env, x) = 0
  BY <1>1, NoticedLoad
<1>3. LoadBalanced'
  BY <1>1, <1>2 DEF WeightGap, VolumeGap, LoadBalanced
<1>4. Exactly(unit, Totals)'
  BY <1>1, <1>2 DEF Exactly, Totals
<1> QED BY <1>3, <1>4

\* What the four of them tell is what has changed.
LEMMA LampNotice ==
  ASSUME TypeOK, NEW o \in Lamps, Shine(o) \/ Dim(o)
  PROVE  \E d \in Message :
            /\ o \in Things /\ Exists(o) /\ Notify(o, d) /\ OnlyAt(o) /\ d.w = 0 /\ d.v = 0
            /\ d.l = LightOf(closed', lit', light, o) - LightOf(closed, lit, light, o)
<1>1. o \in Things /\ o \notin Containers /\ Bright \in Nat
  BY Sizes
<1>2. CASE Shine(o)
  <2> DEFINE d == [Nothing EXCEPT !.l = Bright]
  <2>1. d \in Message /\ d.l = Bright /\ d.w = 0 /\ d.v = 0
    BY <1>1 DEF Message, Nothing
  <2>2. Exists(o) /\ Notify(o, d) /\ OnlyAt(o)
    BY <1>2 DEF Shine, OnlyAt, TypeOK
  <2>3. LightOf(closed', lit', light, o) = Bright /\ LightOf(closed, lit, light, o) = 0
    BY <1>1, <1>2 DEF Shine, LightOf
  <2> HIDE DEF d
  <2> QED BY <1>1, <2>1, <2>2, <2>3
<1>3. CASE Dim(o)
  <2> DEFINE d == [Nothing EXCEPT !.l = -Bright]
  <2>1. d \in Message /\ d.l = -Bright /\ d.w = 0 /\ d.v = 0
    BY <1>1 DEF Message, Nothing
  <2>2. Exists(o) /\ Notify(o, d) /\ OnlyAt(o)
    BY <1>3 DEF Dim, OnlyAt, TypeOK
  <2>3. LightOf(closed', lit', light, o) = 0 /\ LightOf(closed, lit, light, o) = Bright
    BY <1>1, <1>3 DEF Dim, LightOf
  <2> HIDE DEF d
  <2> QED BY <1>1, <2>1, <2>2, <2>3
<1> QED BY <1>2, <1>3

LEMMA LidNotice ==
  ASSUME TypeOK, NEW o \in Boxes, Open(o) \/ Close(o)
  PROVE  \E d \in Message :
            /\ o \in Things /\ Exists(o) /\ Notify(o, d) /\ OnlyAt(o) /\ d.w = 0 /\ d.v = 0
            /\ d.l = LightOf(closed', lit', light, o) - LightOf(closed, lit, light, o)
<1>1. o \in Things /\ o \in Containers /\ light[o] \in Int
  BY Sizes DEF TypeOK
<1>2. CASE Open(o)
  <2> DEFINE n == IF o \in Shining THEN 0 ELSE 1 * light[o]
             d == [Nothing EXCEPT !.l = n]
  <2>1. n \in Int
    BY <1>1
  <2>2. d \in Message /\ d.l = n /\ d.w = 0 /\ d.v = 0
    <3> HIDE DEF n
    <3> QED BY <2>1 DEF Message, Nothing
  <2>3. Exists(o) /\ Notify(o, d) /\ OnlyAt(o)
    BY <1>2, Sizes DEF Open, Veil, OnlyAt, TypeOK
  <2>4. n = LightOf(closed', lit', light, o) - LightOf(closed, lit, light, o)
    BY <1>1, <1>2 DEF Open, LightOf
  <2> HIDE DEF d, n
  <2> QED BY <1>1, <2>2, <2>3, <2>4
<1>3. CASE Close(o)
  <2> DEFINE n == IF o \in Shining THEN 0 ELSE (-1) * light[o]
             d == [Nothing EXCEPT !.l = n]
  <2>1. n \in Int
    BY <1>1
  <2>2. d \in Message /\ d.l = n /\ d.w = 0 /\ d.v = 0
    <3> HIDE DEF n
    <3> QED BY <2>1 DEF Message, Nothing
  <2>3. Exists(o) /\ Notify(o, d) /\ OnlyAt(o)
    BY <1>3, Sizes DEF Close, Veil, OnlyAt, TypeOK
  <2>4. n = LightOf(closed', lit', light, o) - LightOf(closed, lit, light, o)
    BY <1>1, <1>3 DEF Close, LightOf
  <2> HIDE DEF d, n
  <2> QED BY <1>1, <2>2, <2>3, <2>4
<1> QED BY <1>2, <1>3

-----------------------------------------------------------------------------
(***************************************************************************)
(* Removing one object and all that is in it, one after the other.         *)
(***************************************************************************)
Begun == [env |-> env, totals |-> Totals]

Lessened(s, S) == Removed(s, First(Innermost(s, S)))

\* f[n] is how things stand after n of S have been removed.
Removal(f, S, L) == f = [n \in L |-> IF n = 0 THEN Begun ELSE Lessened(f[n - 1], S)]

LEMMA RemovalNext ==
  ASSUME NEW S, NEW k \in Nat, NEW f, Removal(f, S, 0 .. k)
  PROVE  \E h : Removal(h, S, 0 .. (k + 1))
<1> DEFINE h == [n \in 0 .. (k + 1) |-> IF n = k + 1 THEN Lessened(f[k], S) ELSE f[n]]
<1>1. \A n \in 0 .. k : f[n] = IF n = 0 THEN Begun ELSE Lessened(f[n - 1], S)
  BY DEF Removal
<1>2. /\ h[k + 1] = Lessened(f[k], S)
      /\ \A n \in 0 .. k : h[n] = f[n]
  OBVIOUS
<1>3. h = [n \in 0 .. (k + 1) |-> h[n]]
  BY Zenon
<1> HIDE DEF h
<1>4. ASSUME NEW n \in 0 .. (k + 1)
      PROVE  h[n] = IF n = 0 THEN Begun ELSE Lessened(h[n - 1], S)
  <2>1. CASE n = k + 1
    <3>1. n # 0 /\ n - 1 = k /\ k \in 0 .. k
      BY <2>1
    <3> QED BY <1>2, <2>1, <3>1
  <2>2. CASE n = 0
    <3>1. 0 \in 0 .. k
      OBVIOUS
    <3> QED BY <1>1, <1>2, <2>2, <3>1
  <2>3. CASE n # 0 /\ n # k + 1
    <3>1. n \in 0 .. k /\ n - 1 \in 0 .. k
      BY <2>3
    <3> QED BY <1>1, <1>2, <2>3, <3>1
  <2> QED BY <2>1, <2>2, <2>3
<1>5. h = [n \in 0 .. (k + 1) |-> IF n = 0 THEN Begun ELSE Lessened(h[n - 1], S)]
  BY <1>3, <1>4
<1> QED BY <1>5 DEF Removal

LEMMA RemovalExists ==
  ASSUME NEW S, NEW k \in Nat
  PROVE  \E f : Removal(f, S, 0 .. k)
<1> DEFINE P(n) == \E f : Removal(f, S, 0 .. n)
           T == {n \in Nat : ~P(n)}
<1>1. P(0)
  <2> DEFINE f == [n \in 0 .. 0 |-> Begun]
  <2>1. \A n \in 0 .. 0 : n = 0
    OBVIOUS
  <2>2. f = [n \in 0 .. 0 |-> IF n = 0 THEN Begun ELSE Lessened(f[n - 1], S)]
    BY <2>1
  <2> HIDE DEF f
  <2> QED BY <2>2 DEF Removal
<1>2. ASSUME NEW n \in Nat, P(n) PROVE P(n + 1)
  BY <1>2, RemovalNext
<1> HIDE DEF P
<1>3. T = {}
  <2> SUFFICES ASSUME T # {} PROVE FALSE
    OBVIOUS
  <2>1. PICK m \in T : \A n \in T : m <= n
    BY SmallestNumber
  <2>2. m # 0 /\ m - 1 \in Nat /\ m - 1 \notin T
    BY <1>1, <2>1
  <2>3. P(m - 1) /\ (m - 1) + 1 = m
    BY <2>2
  <2> QED BY <1>2, <2>2, <2>3
<1> QED BY <1>3 DEF P

LEMMA RemoveAllSteps ==
  ASSUME NEW S, Cardinality(S) \in Nat, RemoveAll(S)
  PROVE  \E f : /\ Removal(f, S, 0 .. Cardinality(S))
                /\ env' = f[Cardinality(S)].env
                /\ light' = f[Cardinality(S)].totals.light
                /\ weight' = f[Cardinality(S)].totals.weight
                /\ volume' = f[Cardinality(S)].totals.volume
<1> DEFINE f == CHOOSE g : Removal(g, S, 0 .. Cardinality(S))
<1>1. Removal(f, S, 0 .. Cardinality(S))
  BY RemovalExists
<1>2. /\ env' = f[Cardinality(S)].env
      /\ Set(f[Cardinality(S)].totals)
  BY DEF RemoveAll, Removal, Begun, Lessened, First
<1> HIDE DEF f
<1> QED BY <1>1, <1>2 DEF Set

\* What removing one object relies on, and keeps.
Sound(s) ==
    /\ s.env \in [Things -> Containers \cup {Void, Gone}]
    /\ Nested(s.env)
    /\ s.totals \in Record
    /\ \A x \in Containers : LightGap(s.totals, s.env, x) = 0

Loaded(unit, s) ==
    /\ Fitting(s.env)
    /\ Exactly(unit, s.totals)
    /\ \A x \in Containers : /\ WeightGap(s.totals, s.env, x) = 0
                             /\ VolumeGap(s.totals, s.env, x) = 0

\* What leaving opens in a book, having left closes.
LEMMA RemovalCloses ==
  ASSUME NEW x, NEW from, NEW to, x # to, NEW n \in Int, NEW a, NEW b, NEW c,
         a = 0,
         b = a + (IF x = from THEN -n ELSE 0),
         c = b + (IF x = from THEN n ELSE 0) - (IF x = to THEN n ELSE 0)
  PROVE  c = 0
<1>1. CASE x = from
  <2>1. b = 0 + (-n) /\ c = b + n - 0
    BY <1>1
  <2> QED BY <2>1
<1>2. CASE x # from
  <2>1. b = 0 + 0 /\ c = b + 0 - 0
    BY <1>2
  <2> QED BY <2>1
<1> QED BY <1>1, <1>2

LEMMA RemovedLeaves ==
  ASSUME NEW s, Sound(s), NEW x \in Things, s.env[x] # Gone, NEW r, r = Removed(s, x)
  PROVE  /\ r.env = [s.env EXCEPT ![x] = Gone]
         /\ r.env \in [Things -> Containers \cup {Void, Gone}]
         /\ r.env[x] = Gone /\ \A y \in Things \ {x} : r.env[y] = s.env[y]
         /\ Nested(r.env)
         /\ \/ s.env[x] = Void /\ r.totals = s.totals
            \/ /\ s.env[x] \in Containers
               /\ Apart(s.env, x, s.env[x])
               /\ HasLeft(s.env, s.totals, x, s.env[x], r.totals)
<1>1. s.env \in [Things -> Containers \cup {Void, Gone}] /\ Nested(s.env)
  BY DEF Sound
<1>2. /\ r.env = [s.env EXCEPT ![x] = Gone]
      /\ r.totals = IF s.env[x] = Void THEN s.totals
                    ELSE LeaveEnv(s.env, LeaveInv(s.env, s.totals, x, s.env[x]), x, s.env[x])
  BY DEF Removed
<1>3. /\ r.env \in [Things -> Containers \cup {Void, Gone}]
      /\ r.env[x] = Gone /\ \A y \in Things \ {x} : r.env[y] = s.env[y]
  BY <1>1, <1>2
<1>4. Nested(r.env)
  <2>1. PICK q : Ranked(s.env, q)
    BY <1>1 DEF Nested
  <2>2. Ranked(r.env, q)
    BY <1>3, <2>1, Sizes DEF Ranked
  <2> QED BY <2>2 DEF Nested
<1>5. CASE s.env[x] = Void
  BY <1>2, <1>3, <1>4, <1>5
<1>6. CASE s.env[x] # Void
  <2>1. s.env[x] \in Containers
    BY <1>1, <1>6
  <2>2. Apart(s.env, x, s.env[x])
    BY <1>1, <2>1, Around DEF Apart
  <2>3. HasLeft(s.env, s.totals, x, s.env[x], r.totals)
    BY <1>2, <1>6 DEF HasLeft
  <2> QED BY <1>2, <1>3, <1>4, <2>1, <2>2, <2>3
<1> QED BY <1>5, <1>6

LEMMA RemovedSound ==
  ASSUME NEW s, Sound(s), NEW x \in Things, s.env[x] # Gone, NEW r, r = Removed(s, x)
  PROVE  Sound(r)
<1> DEFINE t == s.totals
           u == r.totals
           e == s.env
           f == r.env
           from == s.env[x]
           n == LightOf(closed, lit, t.light, x)
<1>1. /\ f = [e EXCEPT ![x] = Gone] /\ f[x] = Gone
      /\ f \in [Things -> Containers \cup {Void, Gone}]
      /\ Nested(f)
      /\ \/ from = Void /\ u = t
         \/ from \in Containers /\ Apart(e, x, from) /\ HasLeft(e, t, x, from, u)
  BY RemovedLeaves
<1>2. /\ e \in [Things -> Containers \cup {Void, Gone}] /\ Nested(e) /\ t \in Record
      /\ \A c \in Containers : LightGap(t, e, c) = 0
      /\ Gone # e[x]
  BY DEF Sound
<1>3. \A c \in Containers : c # Gone /\ c # Void
  BY Sizes
<1>4. n \in Int
  BY <1>2, Sizes DEF LightOf, Record, Books
<1> HIDE DEF n
<1>5. /\ u \in Record /\ LightOf(closed, lit, u.light, x) = n
      /\ \A c \in Containers : LightGap(u, e, c) = LightGap(t, e, c)
                                 + (IF c = from THEN -n ELSE 0)
  <2>1. CASE from = Void /\ u = t
    <3>1. \A c \in Containers : c # from
      BY <1>3, <2>1
    <3> HIDE DEF from
    <3> QED BY <1>2, <2>1, <3>1 DEF n
  <2>2. CASE from \in Containers /\ Apart(e, x, from) /\ HasLeft(e, t, x, from, u)
    <3>1. u \in Record /\ Same(t, u, x) /\ OpensLight(e, t, u, from, -n)
      BY <1>2, <2>2, LeavingLight DEF n
    <3>2. LightOf(closed, lit, u.light, x) = n
      BY <3>1 DEF Same, Untouched, LightOf, n
    <3> QED BY <3>1, <3>2 DEF OpensLight
  <2> QED BY <1>1, <2>1, <2>2
<1>6. \A c \in Containers :
        LightGap(u, f, c) = LightGap(u, e, c)
          + (IF c = from THEN n ELSE 0) - (IF c = Gone THEN n ELSE 0)
  <2> DEFINE h == Lights(closed, lit, u.light)
  <2>1. h \in Shares /\ u.light \in Books
    BY <1>5, LightShares DEF Record
  <2>2. \A c \in Containers : h[c][x] = n
    BY <1>5 DEF Lights
  <2> HIDE DEF h
  <2>3. Opened(u.light, h, e, f, x)
    BY <1>1, <1>2, <2>1, MoveOpensBooks
  <2> QED BY <1>1, <2>2, <2>3 DEF LightGap, Opened, h
<1>7. ASSUME NEW c \in Containers PROVE LightGap(u, f, c) = 0
  <2> HIDE DEF t, u, e, f, from
  <2> QED BY <1>2, <1>3, <1>4, <1>5, <1>6, RemovalCloses
<1> QED BY <1>1, <1>5, <1>7 DEF Sound

LEMMA RemovedLoaded ==
  ASSUME NEW unit, Exact(unit), NEW s, Sound(s), Loaded(unit, s),
         NEW x \in Things, s.env[x] # Gone, NEW r, r = Removed(s, x)
  PROVE  Loaded(unit, r)
<1> DEFINE t == s.totals
           u == r.totals
           e == s.env
           f == r.env
           from == s.env[x]
           m(c) == WeightOf(t.weight, c, x)
           n(c) == VolumeOf(t.volume, c, x)
<1>1. /\ f = [e EXCEPT ![x] = Gone] /\ f[x] = Gone
      /\ f \in [Things -> Containers \cup {Void, Gone}]
      /\ \A y \in Things \ {x} : f[y] = e[y]
      /\ \/ from = Void /\ u = t
         \/ from \in Containers /\ Apart(e, x, from) /\ HasLeft(e, t, x, from, u)
  BY RemovedLeaves
<1>2. /\ e \in [Things -> Containers \cup {Void, Gone}] /\ Nested(e) /\ t \in Record
      /\ Fitting(e) /\ Exactly(unit, t)
      /\ \A c \in Containers : WeightGap(t, e, c) = 0 /\ VolumeGap(t, e, c) = 0
      /\ Gone # e[x]
  BY DEF Sound, Loaded
<1>3. \A c \in Containers : c # Gone /\ c # Void
  BY Sizes
<1>4. \A c \in Containers : /\ m(c) \in Int /\ Weights(t.weight)[c][x] = m(c)
                            /\ n(c) \in Int /\ Volumes(t.volume)[c][x] = n(c)
  <2>1. \A c \in Containers : Weights(t.weight)[c][x] = m(c) /\ Volumes(t.volume)[c][x] = n(c)
    BY DEF Weights, Volumes
  <2>2. t.weight \in Books /\ t.volume \in Books
    BY <1>2 DEF Record
  <2>3. \A c \in Containers :
          Weights(t.weight)[c][x] \in Int /\ Volumes(t.volume)[c][x] \in Int
    BY <2>2, WeightShares, VolumeShares DEF Shares
  <2> HIDE DEF m, n, t
  <2> QED BY <2>1, <2>3
<1> HIDE DEF m, n
<1>5. /\ u \in Record /\ Exactly(unit, u)
      /\ \A c \in Containers :
           /\ WeightOf(u.weight, c, x) = m(c) /\ VolumeOf(u.volume, c, x) = n(c)
           /\ WeightGap(u, e, c) = WeightGap(t, e, c) + (IF c = from THEN -m(c) ELSE 0)
           /\ VolumeGap(u, e, c) = VolumeGap(t, e, c) + (IF c = from THEN -n(c) ELSE 0)
  <2>1. CASE from = Void /\ u = t
    <3>1. \A c \in Containers : c # from
      BY <1>3, <2>1
    <3> HIDE DEF from
    <3> QED BY <1>2, <2>1, <3>1 DEF m, n
  <2>2. CASE from \in Containers /\ Apart(e, x, from) /\ HasLeft(e, t, x, from, u)
    <3>1. u \in Record /\ Same(t, u, x)
      BY <1>2, <2>2, LeavingLight
    <3>2. x \in Containers => MayHold(from, x)
      BY <1>2, <2>2 DEF Fitting
    <3>3. /\ Exactly(unit, u)
          /\ OpensWeight(e, t, u, from, -m(from))
          /\ OpensVolume(e, t, u, from, -n(from))
      BY <1>2, <2>2, <3>2, LeavingLoad DEF m, n
    <3>4. \A c \in Containers : WeightOf(u.weight, c, x) = m(c) /\ VolumeOf(u.volume, c, x) = n(c)
      BY <3>1, Sizes DEF Same, Untouched, WeightOf, VolumeOf, m, n
    <3>5. \A c \in Containers :
            /\ WeightGap(u, e, c) = WeightGap(t, e, c) + (IF c = from THEN -m(c) ELSE 0)
            /\ VolumeGap(u, e, c) = VolumeGap(t, e, c) + (IF c = from THEN -n(c) ELSE 0)
      <4> HIDE DEF from, t, u, e
      <4> QED BY <3>3 DEF OpensWeight, OpensVolume
    <3> QED BY <3>1, <3>3, <3>4, <3>5
  <2> QED BY <1>1, <2>1, <2>2
<1>6. \A c \in Containers :
        /\ WeightGap(u, f, c) = WeightGap(u, e, c)
             + (IF c = from THEN m(c) ELSE 0) - (IF c = Gone THEN m(c) ELSE 0)
        /\ VolumeGap(u, f, c) = VolumeGap(u, e, c)
             + (IF c = from THEN n(c) ELSE 0) - (IF c = Gone THEN n(c) ELSE 0)
  <2> DEFINE h == Weights(u.weight)
             k == Volumes(u.volume)
  <2>1. h \in Shares /\ k \in Shares /\ u.weight \in Books /\ u.volume \in Books
    BY <1>5, WeightShares, VolumeShares DEF Record
  <2>2. \A c \in Containers : h[c][x] = m(c) /\ k[c][x] = n(c)
    BY <1>5 DEF Weights, Volumes
  <2> HIDE DEF h, k
  <2>3. Opened(u.weight, h, e, f, x) /\ Opened(u.volume, k, e, f, x)
    BY <1>1, <1>2, <2>1, MoveOpensBooks
  <2>4. \A c \in Containers :
          WeightGap(u, f, c) = WeightGap(u, e, c)
             + (IF c = from THEN m(c) ELSE 0) - (IF c = Gone THEN m(c) ELSE 0)
    BY <1>1, <2>2, <2>3 DEF WeightGap, Opened, h
  <2>5. \A c \in Containers :
          VolumeGap(u, f, c) = VolumeGap(u, e, c)
             + (IF c = from THEN n(c) ELSE 0) - (IF c = Gone THEN n(c) ELSE 0)
    BY <1>1, <2>2, <2>3 DEF VolumeGap, Opened, k
  <2> QED BY <2>4, <2>5
<1>7. ASSUME NEW c \in Containers PROVE WeightGap(u, f, c) = 0
  <2> HIDE DEF t, u, e, f, from
  <2> QED BY <1>2, <1>3, <1>4, <1>5, <1>6, RemovalCloses
<1>8. ASSUME NEW c \in Containers PROVE VolumeGap(u, f, c) = 0
  <2> HIDE DEF t, u, e, f, from
  <2> QED BY <1>2, <1>3, <1>4, <1>5, <1>6, RemovalCloses
<1>9. Fitting(f)
  BY <1>1, <1>2, Sizes DEF Fitting
<1> QED BY <1>5, <1>7, <1>8, <1>9 DEF Loaded

\* A of S have been removed, and nothing else is gone that was there.
Lost(s, S, A) ==
    /\ A \in SUBSET S
    /\ \A x \in Things : s.env[x] = IF x \in A THEN Gone ELSE env[x]

LEMMA RemovalGoesOn ==
  ASSUME NEW S \in SUBSET Things, \A x \in S : Exists(x), NEW s, Sound(s),
         NEW A, Lost(s, S, A), A # S
  PROVE  \E x \in S \ A : /\ s.env[x] # Gone
                          /\ Lessened(s, S) = Removed(s, x)
                          /\ Lost(Lessened(s, S), S, A \cup {x})
<1> DEFINE T == S \ A
<1>1. A \in SUBSET S /\ \A y \in Things : s.env[y] = IF y \in A THEN Gone ELSE env[y]
  BY DEF Lost
<1>2. Innermost(s, S) # {}
  <2>1. PICK r : Ranked(s.env, r)
    BY DEF Sound, Nested
  <2>2. r \in [Things -> Nat] /\ T \in SUBSET Things /\ T # {}
    BY <1>1, <2>1 DEF Ranked
  <2>3. PICK z \in T : \A y \in T : r[z] <= r[y]
    <3> HIDE DEF T
    <3> QED BY <2>2, LowestRank
  <2>4. s.env[z] # Gone /\ z \in S /\ z \in Things
    BY <1>1 DEF Exists
  <2>5. ASSUME NEW y \in S, s.env[y] = z PROVE FALSE
    <3>1. y \notin A
      BY <1>1, <2>4, <2>5, Sizes
    <3>2. r[z] <= r[y] /\ r[z] \in Nat /\ r[y] \in Nat
      BY <2>2, <2>3, <2>4, <3>1
    <3>3. r[y] < r[z]
      BY <2>1, <2>4, <2>5 DEF Ranked
    <3> QED BY <3>2, <3>3
  <2> QED BY <2>4, <2>5 DEF Innermost
<1>3. PICK x \in Innermost(s, S) : x = First(Innermost(s, S))
  BY <1>2 DEF First
<1>4. x \in S /\ s.env[x] # Gone
  BY DEF Innermost
<1>5. Lessened(s, S) = Removed(s, x)
  BY <1>3 DEF Lessened
<1>6. x \notin A /\ x \in Things
  BY <1>1, <1>4
<1>7. Lost(Lessened(s, S), S, A \cup {x})
  <2>1. PICK r : r = Removed(s, x)
    OBVIOUS
  <2>2. r.env = [s.env EXCEPT ![x] = Gone]
    BY <2>1 DEF Removed
  <2>3. s.env \in [Things -> Containers \cup {Void, Gone}]
    BY DEF Sound
  <2> QED BY <1>1, <1>4, <1>5, <1>6, <2>1, <2>2, <2>3 DEF Lost
<1> QED BY <1>4, <1>5, <1>6, <1>7

\* After n of them n are gone, and the light is right.
Gathered(s, S, n) == Sound(s) /\ \E A : Lost(s, S, A) /\ Cardinality(A) = n

LEMMA RemovalStep ==
  ASSUME NEW S \in SUBSET Things, \A x \in S : Exists(x), NEW s, NEW n \in Nat,
         n < Cardinality(S), Gathered(s, S, n)
  PROVE  /\ Gathered(Lessened(s, S), S, n + 1)
         /\ \E x \in Things : s.env[x] # Gone /\ Lessened(s, S) = Removed(s, x)
<1> PICK A : Lost(s, S, A) /\ Cardinality(A) = n
  BY DEF Gathered
<1>1. A # S /\ IsFiniteSet(A) /\ Sound(s)
  <2>1. IsFiniteSet(S) /\ A \in SUBSET Things
    BY SubsetsFinite DEF Lost
  <2>2. IsFiniteSet(A)
    BY <2>1, SubsetsFinite
  <2>3. Cardinality(S) \in Nat
    BY <2>1, FS_CardinalityType
  <2> QED BY <2>2, <2>3 DEF Gathered
<1>2. PICK x \in S \ A : /\ s.env[x] # Gone
                         /\ Lessened(s, S) = Removed(s, x)
                         /\ Lost(Lessened(s, S), S, A \cup {x})
  BY <1>1, RemovalGoesOn
<1>3. Cardinality(A \cup {x}) = n + 1
  BY <1>1, <1>2, FS_AddElement
<1>4. Sound(Lessened(s, S))
  BY <1>1, <1>2, RemovedSound
<1>5. Gathered(Lessened(s, S), S, n + 1)
  BY <1>2, <1>3, <1>4 DEF Gathered
<1> QED BY <1>2, <1>5

LEMMA RemovalGathers ==
  ASSUME TypeOK, Nested(env), LightBalanced,
         NEW S \in SUBSET Things, \A x \in S : Exists(x),
         NEW k \in Nat, k = Cardinality(S), NEW f, Removal(f, S, 0 .. k)
  PROVE  \A n \in 0 .. k : Gathered(f[n], S, n)
<1> DEFINE T == {n \in 0 .. k : ~Gathered(f[n], S, n)}
<1> SUFFICES ASSUME T # {} PROVE FALSE
  OBVIOUS
<1>1. PICK m \in T : \A n \in T : m <= n
  <2>1. T \in SUBSET Nat
    OBVIOUS
  <2> HIDE DEF T
  <2> QED BY <2>1, SmallestNumber
<1>2. f[m] = IF m = 0 THEN Begun ELSE Lessened(f[m - 1], S)
  BY DEF Removal
<1>3. CASE m = 0
  <2>1. f[0] = Begun
    BY <1>2, <1>3
  <2>2. Sound(Begun)
    BY TotalsRecord DEF Begun, Sound, TypeOK, LightBalanced, LightGap
  <2>3. Lost(Begun, S, {})
    BY DEF Begun, Lost
  <2>4. Gathered(Begun, S, 0)
    BY <2>2, <2>3, FS_EmptySet DEF Gathered
  <2> QED BY <1>3, <2>1, <2>4
<1>4. CASE m # 0
  <2>1. m - 1 \in 0 .. k /\ m - 1 \in Nat /\ m - 1 < k /\ m - 1 < m /\ (m - 1) + 1 = m
    BY <1>4
  <2>2. Gathered(f[m - 1], S, m - 1)
    BY <1>1, <2>1
  <2>3. Gathered(Lessened(f[m - 1], S), S, (m - 1) + 1)
    <3> HIDE DEF T
    <3> QED BY <2>1, <2>2, RemovalStep
  <2> QED BY <1>2, <1>4, <2>1, <2>3
<1> QED BY <1>3, <1>4

\* The load is kept too, from one removal to the next.
LEMMA RemovalLoads ==
  ASSUME NEW unit, Exact(unit), TypeOK, Nested(env), LightBalanced,
         Fitting(env), Exactly(unit, Totals), LoadBalanced,
         NEW S \in SUBSET Things, \A x \in S : Exists(x),
         NEW k \in Nat, k = Cardinality(S), NEW f, Removal(f, S, 0 .. k)
  PROVE  \A n \in 0 .. k : Loaded(unit, f[n])
<1> DEFINE T == {n \in 0 .. k : ~Loaded(unit, f[n])}
<1> SUFFICES ASSUME T # {} PROVE FALSE
  OBVIOUS
<1>1. PICK m \in T : \A n \in T : m <= n
  <2>1. T \in SUBSET Nat
    OBVIOUS
  <2> HIDE DEF T
  <2> QED BY <2>1, SmallestNumber
<1>2. f[m] = IF m = 0 THEN Begun ELSE Lessened(f[m - 1], S)
  BY DEF Removal
<1>3. CASE m = 0
  <2>1. f[0] = Begun
    BY <1>2, <1>3
  <2>2. Loaded(unit, Begun)
    BY TotalsRecord DEF Begun, Loaded, LoadBalanced, WeightGap, VolumeGap
  <2> QED BY <1>3, <2>1, <2>2
<1>4. CASE m # 0
  <2>1. m - 1 \in 0 .. k /\ m - 1 \in Nat /\ m - 1 < k /\ m - 1 < m
    BY <1>4
  <2>2. Gathered(f[m - 1], S, m - 1)
    BY <2>1, RemovalGathers
  <2>3. Loaded(unit, f[m - 1])
    BY <1>1, <2>1
  <2>4. PICK x \in Things : f[m - 1].env[x] # Gone /\ Lessened(f[m - 1], S) = Removed(f[m - 1], x)
    <3> HIDE DEF T
    <3> QED BY <2>1, <2>2, RemovalStep
  <2>5. Loaded(unit, Lessened(f[m - 1], S))
    BY <2>2, <2>3, <2>4, RemovedLoaded DEF Gathered
  <2> QED BY <1>2, <1>4, <2>5
<1> QED BY <1>3, <1>4

\* o and what is in it are there, and none of it is a room.
LEMMA RemovedTree ==
  ASSUME TypeOK, NEW o \in Things \ Rooms, Exists(o)
  PROVE  /\ Inside(o) \cup {o} \in SUBSET (Things \ Rooms)
         /\ \A x \in Inside(o) \cup {o} : Exists(x)
         /\ \A x \in Things : env[x] \in Inside(o) \cup {o} => x \in Inside(o) \cup {o}
         /\ Cardinality(Inside(o) \cup {o}) \in Nat
<1>1. Within(env, o, Inside(o))
  BY InsideIsWithin
<1>2. ASSUME NEW x \in Inside(o) PROVE x \in Things \ Rooms /\ Exists(x)
  <2>1. x \in Things /\ env[x] \in Things
    BY <1>1 DEF Within
  <2> QED BY <2>1, Sizes DEF TypeOK, Exists
<1>3. Inside(o) \cup {o} \in SUBSET (Things \ Rooms)
  BY <1>2
<1>4. \A x \in Things : env[x] \in Inside(o) \cup {o} => x \in Inside(o) \cup {o}
  BY <1>1 DEF Within
<1>5. Cardinality(Inside(o) \cup {o}) \in Nat
  <2>1. Inside(o) \cup {o} \in SUBSET Things
    BY <1>3
  <2> QED BY <2>1, SubsetsFinite, FS_CardinalityType
<1> QED BY <1>2, <1>3, <1>4, <1>5

LEMMA RemoveObjectEnds ==
  ASSUME TypeOK, Nested(env), LightBalanced, NEW o \in Things, RemoveObject(o),
         NEW S, S = Inside(o) \cup {o}
  PROVE  \E s : /\ Sound(s)
                /\ env' = s.env /\ light' = s.totals.light
                /\ weight' = s.totals.weight /\ volume' = s.totals.volume
                /\ \A x \in Things : s.env[x] = IF x \in S THEN Gone ELSE env[x]
                /\ \A unit : /\ Exact(unit) /\ Fitting(env)
                             /\ Exactly(unit, Totals) /\ LoadBalanced
                             => Loaded(unit, s)
<1>1. /\ S \in SUBSET Things /\ \A x \in S : Exists(x)
      /\ Cardinality(S) \in Nat /\ RemoveAll(S)
  <2>1. o \in Things \ Rooms /\ Exists(o) /\ RemoveAll(S)
    BY DEF RemoveObject
  <2> QED BY <2>1, RemovedTree
<1>2. PICK f : /\ Removal(f, S, 0 .. Cardinality(S))
               /\ env' = f[Cardinality(S)].env
               /\ light' = f[Cardinality(S)].totals.light
               /\ weight' = f[Cardinality(S)].totals.weight
               /\ volume' = f[Cardinality(S)].totals.volume
  BY <1>1, RemoveAllSteps
<1>3. PICK k \in Nat : k = Cardinality(S)
  BY <1>1
<1> DEFINE s == f[k]
<1>4. Gathered(s, S, k)
  <2>1. k \in 0 .. k
    OBVIOUS
  <2> QED BY <1>1, <1>2, <1>3, <2>1, RemovalGathers
<1>5. \A x \in Things : s.env[x] = IF x \in S THEN Gone ELSE env[x]
  <2>1. PICK A : Lost(s, S, A) /\ Cardinality(A) = k
    BY <1>4 DEF Gathered
  <2>2. A = S
    <3>1. IsFiniteSet(S) /\ A \in SUBSET S
      BY <1>1, <2>1, SubsetsFinite DEF Lost
    <3> HIDE DEF s
    <3> QED BY <1>3, <2>1, <3>1, FS_Subset
  <2> QED BY <2>1, <2>2 DEF Lost
<1>6. ASSUME NEW unit, Exact(unit), Fitting(env), Exactly(unit, Totals), LoadBalanced
      PROVE  Loaded(unit, s)
  <2>1. k \in 0 .. k
    OBVIOUS
  <2>2. \A n \in 0 .. k : Loaded(unit, f[n])
    BY <1>1, <1>2, <1>3, <1>6, RemovalLoads
  <2> QED BY <2>1, <2>2
<1> HIDE DEF s
<1>7. /\ env' = s.env /\ light' = s.totals.light
      /\ weight' = s.totals.weight /\ volume' = s.totals.volume
  BY <1>2, <1>3 DEF s
<1> QED BY <1>4, <1>5, <1>6, <1>7 DEF Gathered

LEMMA RemoveObjectLight ==
  ASSUME TypeOK, Nested(env), LightBalanced, NEW o \in Things, RemoveObject(o)
  PROVE  TypeOK' /\ Nested(env)' /\ LightBalanced'
<1> PICK S : S = Inside(o) \cup {o}
  OBVIOUS
<1>1. PICK s : /\ Sound(s)
               /\ env' = s.env /\ light' = s.totals.light
               /\ weight' = s.totals.weight /\ volume' = s.totals.volume
               /\ \A x \in Things : s.env[x] = IF x \in S THEN Gone ELSE env[x]
  BY RemoveObjectEnds
<1>2. closed' = closed /\ lit' = lit /\ o \in Things \ Rooms /\ Exists(o)
  BY DEF RemoveObject
<1>3. S \in SUBSET (Things \ Rooms)
  BY <1>2, RemovedTree
<1>4. light' \in Books /\ weight' \in Books /\ volume' \in Books
  BY <1>1 DEF Sound, Record
<1>5. Nested(env)' /\ env' \in [Things -> Containers \cup {Void, Gone}]
  BY <1>1 DEF Sound
<1>6. ASSUME NEW x \in Rooms PROVE env'[x] = Void
  <2>1. x \in Things /\ x \notin S /\ env[x] = Void
    BY <1>3, Sizes DEF TypeOK
  <2> QED BY <1>1, <2>1
<1>7. TypeOK'
  BY <1>2, <1>4, <1>5, <1>6 DEF TypeOK, Books
<1>8. LightBalanced'
  BY <1>1, <1>2 DEF Sound, LightGap, LightBalanced
<1> QED BY <1>5, <1>7, <1>8

LEMMA RemoveObjectLoad ==
  ASSUME NEW unit, Exact(unit), TypeOK, Nested(env), LightBalanced,
         Fitting(env), Exactly(unit, Totals), LoadBalanced, NEW o \in Things, RemoveObject(o)
  PROVE  Fitting(env)' /\ Exactly(unit, Totals)' /\ LoadBalanced'
<1>1. PICK s : /\ Loaded(unit, s)
               /\ env' = s.env /\ light' = s.totals.light
               /\ weight' = s.totals.weight /\ volume' = s.totals.volume
  BY RemoveObjectEnds
<1>2. LoadBalanced'
  BY <1>1 DEF Loaded, WeightGap, VolumeGap, LoadBalanced
<1>3. Exactly(unit, Totals)'
  BY <1>1 DEF Loaded, Exactly, Totals
<1>4. Fitting(env)'
  BY <1>1 DEF Loaded, Fitting
<1> QED BY <1>2, <1>3, <1>4

-----------------------------------------------------------------------------
(***************************************************************************)
(* No container takes more than it can hold.                               *)
(***************************************************************************)

\* What is moved only if it fits, and weighs what it weighs wherever it is.
Plain == Things \ (Containers \cup Forced)

Fills(P, c) ==
    P # {} => /\ Weight[c] + Sum(Weight, P) <= MaxWeight[c]
              /\ Volume[c] + Sum(Volume, P) <= MaxVolume[c]

\* Whatever else is in it: the plain things in it were let in.
Limited(e) == \A c \in Containers \ Rooms : Fills(Held(e, c) \cap Plain, c)

LEMMA SizesNatural ==
  ASSUME NEW P \in SUBSET Things
  PROVE  /\ IsFiniteSet(P) /\ Natural(Weight, P) /\ Natural(Volume, P)
         /\ Integral(Weight, P) /\ Integral(Volume, P)
         /\ Sum(Weight, P) \in Nat /\ Sum(Volume, P) \in Nat
<1>1. IsFiniteSet(P) /\ Natural(Weight, P) /\ Natural(Volume, P)
  BY SubsetsFinite, Sizes DEF Natural
<1>2. Integral(Weight, P) /\ Integral(Volume, P)
  BY <1>1 DEF Natural, Integral
<1> QED BY <1>1, <1>2, SumNat

LEMMA FewerFill ==
  ASSUME NEW P \in SUBSET Things, NEW R \in SUBSET P, NEW c \in Containers \ Rooms, Fills(P, c)
  PROVE  Fills(R, c)
<1> SUFFICES ASSUME R # {}
             PROVE  /\ Weight[c] + Sum(Weight, R) <= MaxWeight[c]
                    /\ Volume[c] + Sum(Volume, R) <= MaxVolume[c]
  BY DEF Fills
<1>1. /\ Weight[c] + Sum(Weight, P) <= MaxWeight[c]
      /\ Volume[c] + Sum(Volume, P) <= MaxVolume[c]
  BY DEF Fills
<1>2. Sum(Weight, R) <= Sum(Weight, P) /\ Sum(Volume, R) <= Sum(Volume, P)
  BY SizesNatural, SumPart
<1>3. /\ Sum(Weight, R) \in Nat /\ Sum(Weight, P) \in Nat
      /\ Sum(Volume, R) \in Nat /\ Sum(Volume, P) \in Nat
      /\ Weight[c] \in Nat /\ Volume[c] \in Nat /\ MaxWeight[c] \in Nat /\ MaxVolume[c] \in Nat
  <2>1. R \in SUBSET Things /\ c \in Things
    BY Sizes
  <2> QED BY <2>1, SizesNatural, Sizes
<1> QED BY <1>1, <1>2, <1>3

LEMMA ReducedNat ==
  ASSUME NEW x \in Containers, NEW n \in Nat
  PROVE  Reduced(x, n) \in Nat
<1>1. Reduce[x] \in Nat \ {0} /\ n * 100 \in Nat
  BY Sizes
<1>2. Quotient(n * 100, Reduce[x]) = (n * 100) \div Reduce[x]
  BY <1>1 DEF Quotient
<1>3. (n * 100) \div Reduce[x] \in Nat
  BY <1>1
<1> QED BY <1>2, <1>3 DEF Reduced

\* Nothing is lighter than nothing: a total is that of what is in it, which
\* does not weigh less either.
LEMMA TotalsNatural ==
  ASSUME TypeOK, Nested(env), LoadBalanced
  PROVE  \A x \in Containers :
            /\ weight[x] \in Nat /\ volume[x] \in Nat
            /\ Natural(Weights(weight)[x], Held(env, x))
            /\ Natural(Volumes(volume)[x], Held(env, x))
            /\ weight[x] = Sum(Weights(weight)[x], Held(env, x))
            /\ volume[x] = Sum(Volumes(volume)[x], Held(env, x))
<1>1. PICK r : Ranked(env, r)
  BY DEF Nested
<1>2. /\ weight \in Books /\ volume \in Books
      /\ Weights(weight) \in Shares /\ Volumes(volume) \in Shares
  BY WeightShares, VolumeShares DEF TypeOK, Books
<1>3. ASSUME NEW x \in Containers
      PROVE  /\ IsFiniteSet(Held(env, x))
             /\ weight[x] = Sum(Weights(weight)[x], Held(env, x))
             /\ volume[x] = Sum(Volumes(volume)[x], Held(env, x))
  <2>1. IsFiniteSet(Held(env, x)) /\ Held(env, x) \in SUBSET Things
    BY SubsetsFinite DEF Held
  <2>2. Integral(Weights(weight)[x], Held(env, x)) /\ Integral(Volumes(volume)[x], Held(env, x))
    BY <1>2, <2>1 DEF Shares, Integral
  <2>3. /\ Sum(Weights(weight)[x], Held(env, x)) \in Int
        /\ Sum(Volumes(volume)[x], Held(env, x)) \in Int
    BY <2>1, <2>2, SumInt
  <2>4. weight[x] \in Int /\ volume[x] \in Int
    BY <1>2 DEF Books
  <2>5. /\ weight[x] - Sum(Weights(weight)[x], Held(env, x)) = 0
        /\ volume[x] - Sum(Volumes(volume)[x], Held(env, x)) = 0
    BY DEF LoadBalanced, Gap
  <2> QED BY <2>1, <2>3, <2>4, <2>5
<1>4. ASSUME NEW x \in Containers,
             \A y \in Containers : env[y] = x => weight[y] \in Nat /\ volume[y] \in Nat
      PROVE  /\ Natural(Weights(weight)[x], Held(env, x))
             /\ Natural(Volumes(volume)[x], Held(env, x))
             /\ weight[x] \in Nat /\ volume[x] \in Nat
  <2>1. ASSUME NEW y \in Held(env, x)
        PROVE  WeightOf(weight, x, y) \in Nat /\ VolumeOf(volume, x, y) \in Nat
    <3>1. y \in Things /\ env[y] = x /\ Weight[y] \in Nat /\ Volume[y] \in Nat
      BY Sizes DEF Held
    <3>2. y \in Containers => Reduced(x, weight[y]) \in Nat /\ Reduced(x, volume[y]) \in Nat
      BY <1>4, <3>1, ReducedNat
    <3>3. y \in Rigid => MaxVolume[y] \in Nat
      BY Sizes
    <3> QED BY <3>1, <3>2, <3>3 DEF WeightOf, VolumeOf
  <2>2. \A y \in Held(env, x) : y \in Things
    BY DEF Held
  <2>3. Natural(Weights(weight)[x], Held(env, x)) /\ Natural(Volumes(volume)[x], Held(env, x))
    BY <2>1, <2>2 DEF Natural, Weights, Volumes
  <2> QED BY <1>3, <2>3, SumNat
<1> DEFINE T == {x \in Containers : ~(weight[x] \in Nat /\ volume[x] \in Nat)}
<1>5. T = {}
  <2> SUFFICES ASSUME T # {} PROVE FALSE
    OBVIOUS
  <2>1. T \in SUBSET Things /\ r \in [Things -> Nat]
    BY <1>1, Sizes DEF Ranked
  <2>2. PICK x \in T : \A y \in T : r[x] <= r[y]
    <3> HIDE DEF T
    <3> QED BY <2>1, LowestRank
  <2>3. ASSUME NEW y \in Containers, env[y] = x PROVE y \notin T
    <3>1. x \in Things /\ y \in Things /\ r[y] < r[x] /\ r[x] \in Nat /\ r[y] \in Nat
      BY <1>1, <2>1, <2>3, Sizes DEF Ranked
    <3> QED BY <2>2, <3>1
  <2> QED BY <1>4, <2>2, <2>3
<1> QED BY <1>3, <1>4, <1>5

\* The plain things in a container are part of its total.
LEMMA PlainPart ==
  ASSUME TypeOK, Nested(env), LoadBalanced, NEW c \in Containers,
         NEW P, P = Held(env, c) \cap Plain
  PROVE  Sum(Weight, P) <= weight[c] /\ Sum(Volume, P) <= volume[c]
<1>1. P \in SUBSET Held(env, c) /\ Held(env, c) \in SUBSET Things
  BY DEF Held
<1>2. IsFiniteSet(Held(env, c)) /\ IsFiniteSet(P)
  BY <1>1, SubsetsFinite
<1>3. Coincide(Weight, Weights(weight)[c], P) /\ Coincide(Volume, Volumes(volume)[c], P)
  <2>1. \A y \in P : y \in Things /\ y \notin Containers /\ y \notin Rigid
    BY <1>1, Sizes DEF Plain
  <2>2. \A y \in P : WeightOf(weight, c, y) = Weight[y] + 0 /\ VolumeOf(volume, c, y) = Volume[y]
    BY <2>1 DEF WeightOf, VolumeOf
  <2>3. \A y \in P : Weight[y] \in Int
    BY <2>1, Sizes
  <2> QED BY <2>1, <2>2, <2>3 DEF Coincide, Weights, Volumes
<1>4. /\ Sum(Weight, P) = Sum(Weights(weight)[c], P)
      /\ Sum(Volume, P) = Sum(Volumes(volume)[c], P)
  BY <1>2, <1>3, SumAgree
<1>5. /\ Sum(Weights(weight)[c], P) <= Sum(Weights(weight)[c], Held(env, c))
      /\ Sum(Volumes(volume)[c], P) <= Sum(Volumes(volume)[c], Held(env, c))
  BY <1>1, <1>2, TotalsNatural, SumPart
<1> QED BY <1>4, <1>5, TotalsNatural

\* What was let in fits.
LEMMA LetIn ==
  ASSUME TypeOK, Nested(env), LoadBalanced, NEW o \in Things, NEW dest \in Containers \ Rooms,
         Move(o, dest)
  PROVE  /\ Weight[dest] + weight[dest] + Burden(Totals, o).w <= MaxWeight[dest]
         /\ Volume[dest] + volume[dest] + Burden(Totals, o).v <= MaxVolume[dest]
         /\ Burden(Totals, o) \in Message
<1>1. Burden(Totals, o) \in Message
  BY TotalsRecord, BurdenFields
<1>2. /\ Burden(Totals, o).w \in Int /\ Burden(Totals, o).v \in Int
      /\ weight[dest] \in Int /\ volume[dest] \in Int
  BY <1>1 DEF Message, TypeOK
<1>3. /\ Weight[dest] \in Nat /\ Volume[dest] \in Nat
      /\ MaxWeight[dest] \in Nat /\ MaxVolume[dest] \in Nat
  BY Sizes
<1>4. /\ MaxWeight[dest] - (Weight[dest] + weight[dest]) >= Burden(Totals, o).w
      /\ MaxVolume[dest] - (Volume[dest] + volume[dest]) >= Burden(Totals, o).v
  BY DEF Move, MayMove, Fits, WeightLeft, VolumeLeft
<1> QED BY <1>1, <1>2, <1>3, <1>4

\* A container that is let in is not too heavy by itself.
LEMMA LetInHolds ==
  ASSUME TypeOK, Nested(env), LoadBalanced, NEW o \in Containers \ Rooms,
         NEW dest \in Containers, Move(o, dest)
  PROVE  MayHold(dest, o)
<1>1. dest # o
  BY DEF Move, MoveTo
<1>2. CASE dest \in Rooms
  BY <1>1, <1>2 DEF MayHold
<1>3. CASE dest \notin Rooms
  <2>1. Weight[dest] + weight[dest] + Burden(Totals, o).w <= MaxWeight[dest]
    BY <1>3, LetIn, Sizes
  <2>2. Burden(Totals, o).w = Weight[o] + weight[o]
    BY DEF Burden, Totals
  <2>3. weight[dest] \in Nat /\ weight[o] \in Nat
    BY TotalsNatural
  <2>4. Weight[dest] \in Nat /\ MaxWeight[dest] \in Nat /\ Weight[o] \in Nat
    BY Sizes
  <2>5. Weight[dest] + Weight[o] <= MaxWeight[dest]
    BY <2>1, <2>2, <2>3, <2>4
  <2> QED BY <1>1, <2>5 DEF MayHold
<1> QED BY <1>2, <1>3

LEMMA MoveLimits ==
  ASSUME TypeOK, Nested(env), LoadBalanced, Limited(env), NEW o \in Things,
         NEW dest \in Containers, Move(o, dest)
  PROVE  Limited(env)'
<1> SUFFICES ASSUME NEW c \in Containers \ Rooms
             PROVE  Fills(Held(env', c) \cap Plain, c)
  BY DEF Limited
<1>1. env' = [env EXCEPT ![o] = dest] /\ env \in [Things -> Containers \cup {Void, Gone}]
  BY DEF Move, MoveTo, TypeOK
<1> DEFINE P == Held(env, c) \cap Plain
           R == Held(env', c) \cap Plain
<1>2. P \in SUBSET Things /\ Fills(P, c)
  BY DEF Limited, Held
<1>3. CASE c # dest \/ o \notin Plain
  <2>1. R \in SUBSET P
    BY <1>1, <1>3 DEF Held
  <2> HIDE DEF P, R
  <2>2. Fills(R, c)
    BY <1>2, <2>1, FewerFill
  <2> QED BY <2>2 DEF R
<1>4. CASE c = dest /\ o \in Plain
  <2>1. R = P \cup {o} /\ o \notin Containers
    BY <1>1, <1>4 DEF Held, Plain
  <2>2. o \notin P
    BY <1>4 DEF Held, Move, MoveTo
  <2>3. R \in SUBSET Things /\ o \in R /\ R \ {o} = P
    BY <1>2, <2>1, <2>2
  <2>4. Sum(Weight, P) <= weight[c] /\ Sum(Volume, P) <= volume[c]
    BY PlainPart
  <2>5. Burden(Totals, o).w = Weight[o] /\ Burden(Totals, o).v = Volume[o]
    BY <2>1 DEF Burden
  <2>6. /\ Weight[c] + weight[c] + Weight[o] <= MaxWeight[c]
        /\ Volume[c] + volume[c] + Volume[o] <= MaxVolume[c]
    BY <1>4, <2>5, LetIn
  <2> HIDE DEF P, R
  <2>7. /\ Sum(Weight, P) \in Nat /\ Sum(Volume, P) \in Nat
        /\ weight[c] \in Nat /\ volume[c] \in Nat
    BY <1>2, SizesNatural, TotalsNatural
  <2>8. Sum(Weight, R) = Weight[o] + Sum(Weight, P)
    BY <2>3, SizesNatural, SumWithout
  <2>9. Sum(Volume, R) = Volume[o] + Sum(Volume, P)
    BY <2>3, SizesNatural, SumWithout
  <2>10. /\ Weight[c] \in Nat /\ Volume[c] \in Nat /\ MaxWeight[c] \in Nat
         /\ MaxVolume[c] \in Nat /\ Weight[o] \in Nat /\ Volume[o] \in Nat
    BY Sizes
  <2>11. /\ Weight[c] + Sum(Weight, R) <= MaxWeight[c]
         /\ Volume[c] + Sum(Volume, R) <= MaxVolume[c]
    BY <2>4, <2>6, <2>7, <2>8, <2>9, <2>10
  <2>12. Fills(R, c)
    BY <2>11 DEF Fills
  <2> QED BY <2>12 DEF R
<1> QED BY <1>3, <1>4

LEMMA ForceLimits ==
  ASSUME TypeOK, Limited(env), NEW o \in Things, NEW dest \in Containers, ForceMove(o, dest)
  PROVE  Limited(env)'
<1> SUFFICES ASSUME NEW c \in Containers \ Rooms
             PROVE  Fills(Held(env', c) \cap Plain, c)
  BY DEF Limited
<1>1. env' = [env EXCEPT ![o] = dest] /\ env \in [Things -> Containers \cup {Void, Gone}]
  BY DEF ForceMove, MoveTo, TypeOK
<1>2. Fills(Held(env, c) \cap Plain, c)
  BY DEF Limited
<1>3. Held(env', c) \cap Plain \in SUBSET (Held(env, c) \cap Plain)
  BY <1>1 DEF Held, Plain, ForceMove
<1>4. Held(env, c) \cap Plain \in SUBSET Things
  BY DEF Held
<1> QED BY <1>2, <1>3, <1>4, FewerFill

LEMMA RemoveObjectLimits ==
  ASSUME TypeOK, Nested(env), LightBalanced, Limited(env), NEW o \in Things, RemoveObject(o)
  PROVE  Limited(env)'
<1> SUFFICES ASSUME NEW c \in Containers \ Rooms
             PROVE  Fills(Held(env', c) \cap Plain, c)
  BY DEF Limited
<1> PICK S : S = Inside(o) \cup {o}
  OBVIOUS
<1>1. \A x \in Things : env'[x] = IF x \in S THEN Gone ELSE env[x]
  BY RemoveObjectEnds
<1>2. Fills(Held(env, c) \cap Plain, c)
  BY DEF Limited
<1>3. Held(env', c) \cap Plain \in SUBSET (Held(env, c) \cap Plain)
  BY <1>1, Sizes DEF Held
<1>4. Held(env, c) \cap Plain \in SUBSET Things
  BY DEF Held
<1> QED BY <1>2, <1>3, <1>4, FewerFill

\* What is gone has nothing in it, and nothing is put there.
Orphaned == \E o \in Things : env[o] \in Things /\ ~Exists(env[o])

LEMMA MoveOrphans ==
  ASSUME TypeOK, NEW o \in Things, NEW dest \in Containers, MoveTo(o, dest), ~Orphaned
  PROVE  ~Orphaned'
<1>1. /\ env' = [env EXCEPT ![o] = dest] /\ env \in [Things -> Containers \cup {Void, Gone}]
      /\ dest \in Things /\ env[dest] # Gone /\ dest # Gone
  BY Sizes DEF MoveTo, TypeOK, Exists
<1>2. \A x \in Things : env[x] \in Things => env[env[x]] # Gone
  BY DEF Orphaned, Exists
<1>3. ASSUME NEW x \in Things, env'[x] \in Things PROVE env'[env'[x]] # Gone
  BY <1>1, <1>2, <1>3
<1> QED BY <1>3 DEF Orphaned, Exists

LEMMA RemoveObjectOrphans ==
  ASSUME TypeOK, Nested(env), LightBalanced, NEW o \in Things, RemoveObject(o), ~Orphaned
  PROVE  ~Orphaned'
<1> PICK S : S = Inside(o) \cup {o}
  OBVIOUS
<1>1. \A x \in Things : env'[x] = IF x \in S THEN Gone ELSE env[x]
  BY RemoveObjectEnds
<1>2. \A x \in Things : env[x] \in S => x \in S
  BY RemovedTree DEF RemoveObject
<1>3. \A x \in Things : env[x] \in Things => env[env[x]] # Gone
  BY DEF Orphaned, Exists
<1>4. ASSUME NEW x \in Things, env'[x] \in Things PROVE env'[env'[x]] # Gone
  <2>1. x \notin S /\ env'[x] = env[x]
    BY <1>1, <1>4, Sizes
  <2>2. env[x] \notin S /\ env[x] \in Things
    BY <1>2, <1>4, <2>1
  <2> QED BY <1>1, <1>3, <2>1, <2>2
<1> QED BY <1>4 DEF Orphaned, Exists

-----------------------------------------------------------------------------
(***************************************************************************)
(* The invariants, and the theorems.                                       *)
(***************************************************************************)
LightInv == TypeOK /\ Nested(env) /\ LightBalanced

LoadInv(unit) == Fitting(env) /\ Exactly(unit, Totals) /\ LoadBalanced /\ Limited(env)

LEMMA NothingHeld ==
  ASSUME Init, NEW c
  PROVE  c \in Containers => Held(env, c) = {}
BY Sizes DEF Init, Held

LEMMA InitLight ==
  ASSUME Init
  PROVE  LightInv /\ ~Orphaned
<1>1. TypeOK
  BY Sizes DEF Init, TypeOK
<1>2. Nested(env)
  <2> DEFINE r == [x \in Things |-> 0]
  <2>1. r \in [Things -> Nat]
    OBVIOUS
  <2>2. \A x \in Things : env[x] \notin Things
    BY Sizes DEF Init
  <2> HIDE DEF r
  <2>3. Ranked(env, r)
    BY <2>1, <2>2 DEF Ranked
  <2> QED BY <2>3 DEF Nested
<1>3. ASSUME NEW c \in Containers PROVE Gap(light, Lights(closed, lit, light), env, c) = 0
  <2>1. Held(env, c) = {} /\ light[c] = 0
    BY NothingHeld DEF Init
  <2> QED BY <2>1, SumEmpty DEF Gap
<1>4. ~Orphaned
  BY Sizes DEF Init, Orphaned
<1> QED BY <1>1, <1>2, <1>3, <1>4 DEF LightInv, LightBalanced

LEMMA InitLoad ==
  ASSUME Init, NEW unit, Exact(unit)
  PROVE  LoadInv(unit)
<1>1. Fitting(env)
  BY Sizes DEF Init, Fitting
<1>2. Exactly(unit, Totals)
  <2>1. \A x \in Containers : unit[x] \in Nat \ {0} /\ weight[x] = 0 /\ volume[x] = 0
    BY DEF Exact, Init
  <2>2. \A x \in Containers : Multiple(0, unit[x])
    BY <2>1, MultipleZero
  <2> QED BY <2>1, <2>2 DEF Exactly, Whole, Totals
<1>3. ASSUME NEW c \in Containers
      PROVE  /\ Gap(weight, Weights(weight), env, c) = 0
             /\ Gap(volume, Volumes(volume), env, c) = 0
             /\ Fills(Held(env, c) \cap Plain, c)
  <2>1. Held(env, c) = {} /\ weight[c] = 0 /\ volume[c] = 0
    BY NothingHeld DEF Init
  <2> QED BY <2>1, SumEmpty DEF Gap, Fills
<1> QED BY <1>1, <1>2, <1>3, Sizes DEF LoadInv, LoadBalanced, Limited

LEMMA StepLight ==
  ASSUME LightInv, ~Orphaned, [Next]_vars
  PROVE  LightInv' /\ ~Orphaned'
<1> USE DEF LightInv
<1>1. ASSUME NEW o \in Things \ Rooms, NEW c \in Containers, Move(o, c) \/ ForceMove(o, c)
      PROVE  LightInv' /\ ~Orphaned'
  <2>1. MoveTo(o, c)
    BY <1>1 DEF Move, ForceMove
  <2> QED BY <2>1, MoveLight, MoveOrphans
<1>2. ASSUME NEW o \in Lamps, Shine(o) \/ Dim(o)
      PROVE  LightInv' /\ ~Orphaned'
  <2>1. PICK d \in Message :
            /\ o \in Things /\ Exists(o) /\ Notify(o, d) /\ OnlyAt(o) /\ d.w = 0 /\ d.v = 0
            /\ d.l = LightOf(closed', lit', light, o) - LightOf(closed, lit, light, o)
    BY <1>2, LampNotice
  <2>2. TypeOK' /\ Nested(env)' /\ LightBalanced'
    BY <2>1, NoticeLight
  <2> QED BY <2>1, <2>2 DEF OnlyAt, Orphaned, Exists
<1>3. ASSUME NEW o \in Boxes, Open(o) \/ Close(o)
      PROVE  LightInv' /\ ~Orphaned'
  <2>1. PICK d \in Message :
            /\ o \in Things /\ Exists(o) /\ Notify(o, d) /\ OnlyAt(o) /\ d.w = 0 /\ d.v = 0
            /\ d.l = LightOf(closed', lit', light, o) - LightOf(closed, lit, light, o)
    BY <1>3, LidNotice
  <2>2. TypeOK' /\ Nested(env)' /\ LightBalanced'
    BY <2>1, NoticeLight
  <2> QED BY <2>1, <2>2 DEF OnlyAt, Orphaned, Exists
<1>4. ASSUME NEW o \in Things, RemoveObject(o)
      PROVE  LightInv' /\ ~Orphaned'
  BY <1>4, RemoveObjectLight, RemoveObjectOrphans
<1>5. CASE UNCHANGED vars
  BY <1>5 DEF vars, TypeOK, Nested, Ranked, LightBalanced, Gap, Held, Lights, LightOf,
              Orphaned, Exists
<1> QED BY <1>1, <1>2, <1>3, <1>4, <1>5 DEF Next

LEMMA StepLoad ==
  ASSUME NEW unit, Exact(unit), LightInv, LoadInv(unit), [Next]_vars
  PROVE  LoadInv(unit)'
<1> USE DEF LightInv, LoadInv
<1>1. ASSUME NEW o \in Things \ Rooms, NEW c \in Containers, Move(o, c)
      PROVE  LoadInv(unit)'
  <2>1. MoveTo(o, c)
    BY <1>1 DEF Move
  <2>2. o \in Containers => MayHold(c, o)
    BY <1>1, LetInHolds
  <2>3. Fitting(env)' /\ Exactly(unit, Totals)' /\ LoadBalanced'
    BY <2>1, <2>2, MoveLoad
  <2>4. Limited(env)'
    BY <1>1, MoveLimits
  <2> QED BY <2>3, <2>4
<1>2. ASSUME NEW o \in Things \ Rooms, NEW c \in Containers, ForceMove(o, c)
      PROVE  LoadInv(unit)'
  <2>1. MoveTo(o, c) /\ o \in Forced
    BY <1>2 DEF ForceMove
  <2>2. o \in Containers => MayHold(c, o)
    BY <2>1 DEF MayHold, MoveTo
  <2>3. Fitting(env)' /\ Exactly(unit, Totals)' /\ LoadBalanced'
    BY <2>1, <2>2, MoveLoad
  <2>4. Limited(env)'
    BY <1>2, ForceLimits
  <2> QED BY <2>3, <2>4
<1>3. ASSUME NEW o \in Lamps, Shine(o) \/ Dim(o)
      PROVE  LoadInv(unit)'
  <2>1. PICK d \in Message :
            /\ o \in Things /\ Exists(o) /\ Notify(o, d) /\ OnlyAt(o) /\ d.w = 0 /\ d.v = 0
    BY <1>3, LampNotice
  <2>2. env' = env
    BY <2>1 DEF OnlyAt
  <2>3. Fitting(env)' /\ Exactly(unit, Totals)' /\ LoadBalanced'
    BY <2>1, <2>2, NoticeLoad
  <2> QED BY <2>2, <2>3 DEF Limited
<1>4. ASSUME NEW o \in Boxes, Open(o) \/ Close(o)
      PROVE  LoadInv(unit)'
  <2>1. PICK d \in Message :
            /\ o \in Things /\ Exists(o) /\ Notify(o, d) /\ OnlyAt(o) /\ d.w = 0 /\ d.v = 0
    BY <1>4, LidNotice
  <2>2. env' = env
    BY <2>1 DEF OnlyAt
  <2>3. Fitting(env)' /\ Exactly(unit, Totals)' /\ LoadBalanced'
    BY <2>1, <2>2, NoticeLoad
  <2> QED BY <2>2, <2>3 DEF Limited
<1>5. ASSUME NEW o \in Things, RemoveObject(o)
      PROVE  LoadInv(unit)'
  BY <1>5, RemoveObjectLoad, RemoveObjectLimits
<1>6. CASE UNCHANGED vars
  BY <1>6 DEF vars, Fitting, Exactly, Totals, LoadBalanced, Gap, Held, Weights, Volumes,
              WeightOf, VolumeOf, Limited
<1> QED BY <1>1, <1>2, <1>3, <1>4, <1>5, <1>6 DEF Next

\* The books balance: the properties say so in their own words.
LEMMA LightFollows ==
  ASSUME LightInv
  PROVE  LightIsTrue
<1> SUFFICES ASSUME NEW c \in Containers
             PROVE  light[c] = Total(c, [o \in Things |-> Burden(Totals, o).l])
  BY DEF LightIsTrue
<1> DEFINE f == [o \in Things |-> Burden(Totals, o).l]
           g == Lights(closed, lit, light)[c]
           H == Held(env, c)
<1>1. Totals \in Record /\ Totals.light = light /\ light \in Books
  BY TotalsRecord DEF LightInv, Record
<1>2. \A o \in Things : f[o] = g[o]
  <2>1. \A o \in Things : Burden(Totals, o).l = LightOf(closed, lit, light, o)
    BY <1>1, BurdenFields
  <2> QED BY <2>1 DEF Lights
<1>3. IsFiniteSet(H) /\ H \in SUBSET Things /\ H = Inventory(c)
  BY SubsetsFinite DEF Held, Inventory
<1>4. Integral(g, H)
  BY <1>1, <1>3, LightShares DEF Shares, Integral
<1>5. Coincide(g, f, H)
  <2> HIDE DEF f, g
  <2> QED BY <1>2, <1>3 DEF Coincide
<1> HIDE DEF f, g, H
<1>6. Sum(g, H) \in Int /\ Sum(g, H) = Sum(f, H)
  BY <1>3, <1>4, <1>5, SumInt, SumAgree
<1>7. light[c] - Sum(g, H) = 0 /\ light[c] \in Int
  BY <1>1 DEF LightInv, LightBalanced, Gap, g, H, Books
<1>8. light[c] = Sum(f, H)
  BY <1>6, <1>7
<1>9. light[c] = Total(c, f)
  BY <1>3, <1>8 DEF Total, Sum
<1> QED BY <1>9 DEF f

LEMMA LoadFollows ==
  ASSUME LightInv, LoadBalanced
  PROVE  LoadIsTrue
<1> SUFFICES ASSUME NEW c \in Containers
             PROVE  /\ weight[c] = Total(c, [o \in Things |->
                         Weight[o] + IF o \in Containers THEN Reduced(c, weight[o]) ELSE 0])
                    /\ volume[c] = Total(c, [o \in Things |->
                         CASE o \in Rigid -> MaxVolume[o]
                           [] o \in Containers \ Rigid -> Volume[o] + Reduced(c, volume[o])
                           [] OTHER -> Volume[o]])
  BY DEF LoadIsTrue
<1> DEFINE f == [o \in Things |->
                   Weight[o] + IF o \in Containers THEN Reduced(c, weight[o]) ELSE 0]
           g == [o \in Things |->
                   CASE o \in Rigid -> MaxVolume[o]
                     [] o \in Containers \ Rigid -> Volume[o] + Reduced(c, volume[o])
                     [] OTHER -> Volume[o]]
           H == Held(env, c)
<1>1. /\ weight[c] = Sum(Weights(weight)[c], H)
      /\ volume[c] = Sum(Volumes(volume)[c], H)
  BY TotalsNatural DEF LightInv
<1>2. IsFiniteSet(H) /\ H \in SUBSET Things /\ H = Inventory(c)
  BY SubsetsFinite DEF Held, Inventory
<1>3. \A o \in Things : Weights(weight)[c][o] = f[o]
  BY DEF Weights, WeightOf
<1>4. ASSUME NEW o \in Things PROVE Volumes(volume)[c][o] = g[o]
  <2>1. Volumes(volume)[c][o] = VolumeOf(volume, c, o)
    BY DEF Volumes
  <2>2. CASE o \in Rigid
    BY <2>1, <2>2 DEF VolumeOf
  <2>3. CASE o \in Containers \ Rigid
    BY <2>1, <2>3 DEF VolumeOf
  <2>4. CASE o \notin Containers
    <3>1. o \notin Rigid /\ o \notin Containers \ Rigid
      BY <2>4, Sizes
    <3> QED BY <2>1, <2>4, <3>1 DEF VolumeOf
  <2> QED BY <2>2, <2>3, <2>4
<1>5. Coincide(Weights(weight)[c], f, H) /\ Coincide(Volumes(volume)[c], g, H)
  <2> HIDE DEF f, g
  <2> QED BY <1>2, <1>3, <1>4 DEF Coincide
<1> HIDE DEF f, g, H
<1>6. Sum(Weights(weight)[c], H) = Sum(f, H) /\ Sum(Volumes(volume)[c], H) = Sum(g, H)
  BY <1>2, <1>5, SumAgree
<1>7. weight[c] = Total(c, f) /\ volume[c] = Total(c, g)
  BY <1>1, <1>2, <1>6 DEF Total, Sum
<1> QED BY <1>7 DEF f, g

LEMMA LimitsFollow ==
  ASSUME LightInv, LoadBalanced, Limited(env)
  PROVE  WithinLimits
<1> SUFFICES ASSUME NEW c \in Containers \ Rooms, Inventory(c) # {},
                    Inventory(c) \cap (Containers \cup Forced) = {}
             PROVE  /\ Weight[c] + weight[c] <= MaxWeight[c]
                    /\ Volume[c] + volume[c] <= MaxVolume[c]
  BY DEF WithinLimits
<1> PICK P : P = Held(env, c)
  OBVIOUS
<1>1. P = Inventory(c) /\ P = Held(env, c) \cap Plain /\ P # {}
  BY DEF Held, Inventory, Plain
<1>2. IsFiniteSet(P) /\ P \in SUBSET Things
  BY SubsetsFinite DEF Held
<1>3. /\ Weight[c] + Sum(Weight, P) <= MaxWeight[c]
      /\ Volume[c] + Sum(Volume, P) <= MaxVolume[c]
  BY <1>1 DEF Limited, Fills
<1>4. Coincide(Weight, Weights(weight)[c], P) /\ Coincide(Volume, Volumes(volume)[c], P)
  <2>1. \A y \in P : y \in Things /\ y \notin Containers /\ y \notin Rigid
    BY <1>1, <1>2, Sizes DEF Plain
  <2>2. \A y \in P : WeightOf(weight, c, y) = Weight[y] + 0 /\ VolumeOf(volume, c, y) = Volume[y]
    BY <2>1 DEF WeightOf, VolumeOf
  <2>3. \A y \in P : Weight[y] \in Int
    BY <2>1, Sizes
  <2> QED BY <2>1, <2>2, <2>3 DEF Coincide, Weights, Volumes
<1>5. /\ Sum(Weight, P) = Sum(Weights(weight)[c], P)
      /\ Sum(Volume, P) = Sum(Volumes(volume)[c], P)
  BY <1>2, <1>4, SumAgree
<1>6. /\ weight[c] = Sum(Weights(weight)[c], P)
      /\ volume[c] = Sum(Volumes(volume)[c], P)
  BY TotalsNatural DEF LightInv
<1> QED BY <1>3, <1>5, <1>6

LEMMA EmptyFollows ==
  ASSUME LightInv, LoadBalanced
  PROVE  EmptyIsWeightless
<1> SUFFICES ASSUME NEW c \in Containers, Inventory(c) = {}
             PROVE  weight[c] = 0
  BY DEF EmptyIsWeightless
<1>1. Held(env, c) = {}
  BY DEF Held, Inventory
<1> QED BY <1>1, TotalsNatural, SumEmpty DEF LightInv

\* The containers' totals are numbers, whatever moves, and rooms are in nothing.
THEOREM ContainmentTyped == Spec => []TypeOK
<1>1. Init => LightInv /\ ~Orphaned
  BY InitLight
<1>2. LightInv /\ ~Orphaned /\ [Next]_vars => LightInv' /\ ~Orphaned'
  BY StepLight
<1>3. LightInv => TypeOK
  BY DEF LightInv
<1> QED BY <1>1, <1>2, <1>3, PTL DEF Spec

\* The light of a container is that of what is seen in it, however objects are
\* moved, lit, shut away and destroyed, one inside the other: each change has
\* been told, once, to every container it can be seen from.
THEOREM LightAlwaysTrue == Spec => []LightIsTrue
<1>1. Init => LightInv /\ ~Orphaned
  BY InitLight
<1>2. LightInv /\ ~Orphaned /\ [Next]_vars => LightInv' /\ ~Orphaned'
  BY StepLight
<1>3. LightInv => LightIsTrue
  BY LightFollows
<1> QED BY <1>1, <1>2, <1>3, PTL DEF Spec

\* Nothing stays behind in what has been removed, and nothing gets into it.
THEOREM NothingIsLost == Spec => []~Orphaned
<1>1. Init => LightInv /\ ~Orphaned
  BY InitLight
<1>2. LightInv /\ ~Orphaned /\ [Next]_vars => LightInv' /\ ~Orphaned'
  BY StepLight
<1> QED BY <1>1, <1>2, PTL DEF Spec

\* Weight and volume are those of what is in a container, if no division is
\* rounded: what a message added is then exactly what its opposite takes back.
THEOREM LoadAlwaysTrue ==
  ASSUME NEW CONSTANT unit, Exact(unit)
  PROVE  Spec => []LoadIsTrue
<1> DEFINE Inv == LightInv /\ ~Orphaned /\ LoadInv(unit)
<1>1. Init => Inv
  BY InitLight, InitLoad
<1>2. Inv /\ [Next]_vars => Inv'
  BY StepLight, StepLoad
<1>3. Inv => LoadIsTrue
  BY LoadFollows DEF LoadInv
<1> HIDE DEF Inv
<1> QED BY <1>1, <1>2, <1>3, PTL DEF Spec

\* What was moved into a container by its leave never overfills it.
THEOREM AlwaysWithinLimits ==
  ASSUME NEW CONSTANT unit, Exact(unit)
  PROVE  Spec => []WithinLimits
<1> DEFINE Inv == LightInv /\ ~Orphaned /\ LoadInv(unit)
<1>1. Init => Inv
  BY InitLight, InitLoad
<1>2. Inv /\ [Next]_vars => Inv'
  BY StepLight, StepLoad
<1>3. Inv => WithinLimits
  BY LimitsFollow DEF LoadInv
<1> HIDE DEF Inv
<1> QED BY <1>1, <1>2, <1>3, PTL DEF Spec

\* What is emptied weighs nothing again: only rounding can leave some weight.
THEOREM EmptyAlwaysWeightless ==
  ASSUME NEW CONSTANT unit, Exact(unit)
  PROVE  Spec => []EmptyIsWeightless
<1> DEFINE Inv == LightInv /\ ~Orphaned /\ LoadInv(unit)
<1>1. Init => Inv
  BY InitLight, InitLoad
<1>2. Inv /\ [Next]_vars => Inv'
  BY StepLight, StepLoad
<1>3. Inv => EmptyIsWeightless
  BY EmptyFollows DEF LoadInv
<1> HIDE DEF Inv
<1> QED BY <1>1, <1>2, <1>3, PTL DEF Spec
=============================================================================
