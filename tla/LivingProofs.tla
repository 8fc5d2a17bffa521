---------------------------- MODULE LivingProofs ----------------------------
(***************************************************************************)
(* Proofs about what a living keeps of others (std/living/combat.c): its   *)
(* fights (Combat), and at the end its team (Team).                        *)
(*                                                                         *)
(* A command runs the combat objects of several livings one after the      *)
(* other, so the proofs are about states S and T of all livings, as the    *)
(* operators of Combat are.  For each operator there is a predicate that   *)
(* says what it changes (Engaged for cb_attack, Ceased for cb_stop_fight,  *)
(* Looked for cb_update_attack, Gone and Buried for death ...) and a lemma *)
(* that it does, from the state it is called in; then Good(S, T) is shown  *)
(* of the steps made of them.  Fit, the first conjunct of Good, is the     *)
(* inductive invariant.  Within a step it does not hold: one who fights on *)
(* may aim at a ghost until cb_update_attack puts an end to the round      *)
(* (Flying), and Struck and Fought are what is known then.                 *)
(*                                                                         *)
(* The lists that the code builds one after the other (of those in a room, *)
(* of those who are told) have no bound, so Without and CallAll are dealt  *)
(* with by their first failure.                                            *)
(***************************************************************************)
EXTENDS Combat, Team, Sums, SequenceTheorems

-----------------------------------------------------------------------------
(***************************************************************************)
(* Lists without some of their elements.                                   *)
(***************************************************************************)
Sieve(g, s, es, n) ==
    g = [i \in 0 .. n |->
           IF i = 0 THEN <<>>
           ELSE IF s[i] \in es THEN g[i - 1] ELSE Append(g[i - 1], s[i])]

LEMMA SieveNext ==
    ASSUME NEW s, NEW es, NEW n \in Nat, NEW g, Sieve(g, s, es, n)
    PROVE  \E h : Sieve(h, s, es, n + 1)
  <1> DEFINE m == n + 1
             h == [i \in 0 .. m |->
                     IF i = 0 THEN <<>>
                     ELSE IF s[i] \in es THEN g[i - 1] ELSE Append(g[i - 1], s[i])]
  <1>1. m \in Nat /\ \A i \in 0 .. m : i = 0 \/ (i - 1 \in 0 .. n /\ i - 1 \in 0 .. m)
    OBVIOUS
  <1>2. \A i \in 0 .. n : i \in 0 .. m
    OBVIOUS
  <1>3. \A i \in 0 .. n : g[i] = h[i]
    BY <1>2 DEF Sieve
  <1>4. h = [i \in 0 .. m |->
               IF i = 0 THEN <<>>
               ELSE IF s[i] \in es THEN h[i - 1] ELSE Append(h[i - 1], s[i])]
    BY <1>1, <1>3
  <1>5. QED
    BY <1>4 DEF Sieve

LEMMA SieveExists ==
    ASSUME NEW s, NEW es, NEW n \in Nat
    PROVE  \E g : Sieve(g, s, es, n)
  <1> DEFINE P(k) == \E g : Sieve(g, s, es, k)
             T == {k \in Nat : ~P(k)}
  <1>1. P(0)
    <2> DEFINE g == [i \in {0} |-> <<>>]
    <2>1. 0 .. 0 = {0}
      OBVIOUS
    <2>2. Sieve(g, s, es, 0)
      BY <2>1 DEF Sieve
    <2>3. QED
      BY <2>2
  <1>2. \A k \in Nat : P(k) => P(k + 1)
    BY SieveNext
  <1> HIDE DEF P
  <1>3. SUFFICES ASSUME T # {} PROVE FALSE
    BY DEF P
  <1>4. PICK k \in T : \A j \in T : k <= j
    <2>1. T \in SUBSET Nat
      OBVIOUS
    <2> HIDE DEF T
    <2>2. QED
      BY <1>3, <2>1, SmallestNumber
  <1>5. k \in Nat /\ k # 0 /\ ~P(k)
    BY <1>1, <1>4
  <1>6. k - 1 \in Nat /\ k - 1 \notin T /\ (k - 1) + 1 = k
    BY <1>4, <1>5
  <1>7. QED
    BY <1>2, <1>5, <1>6

\* What is left is what is not in es, once if it was there once.
LEMMA WithoutFacts ==
    ASSUME NEW X, NEW s \in Seq(X), NEW es
    PROVE  /\ Without(s, es) \in Seq(X)
           /\ Len(Without(s, es)) <= Len(s)
           /\ Range(Without(s, es)) = Range(s) \ es
           /\ IsInjective(s) => IsInjective(Without(s, es))
  <1> DEFINE n == Len(s)
             g == CHOOSE h : Sieve(h, s, es, n)
             Part(i) == {s[j] : j \in 1 .. i}
             Q(i) == /\ g[i] \in Seq(X) /\ Len(g[i]) <= i
                     /\ Range(g[i]) = Part(i) \ es
                     /\ IsInjective(s) => IsInjective(g[i])
             T == {i \in 0 .. n : ~Q(i)}
  <1>1. n \in Nat /\ DOMAIN s = 1 .. n /\ \A i \in 1 .. n : s[i] \in X
    BY LenProperties, ElementOfSeq
  <1>2. Without(s, es) = g[n]
    BY DEF Without, Sieve
  <1>3. Sieve(g, s, es, n)
    BY <1>1, SieveExists
  <1> HIDE DEF g, n
  <1>4. Q(0)
    <2>1. g[0] = <<>>
      BY <1>1, <1>3 DEF Sieve
    <2>2. 1 .. 0 = {} /\ <<>> \in Seq(X) /\ Len(<<>>) = 0 /\ DOMAIN <<>> = {}
      OBVIOUS
    <2>3. Range(<<>>) = {} /\ Part(0) = {} /\ IsInjective(<<>>)
      BY <2>2 DEF Range, IsInjective
    <2>4. QED
      BY <2>1, <2>2, <2>3
  <1>5. ASSUME NEW i \in 1 .. n, Q(i - 1)
        PROVE  Q(i)
    <2> DEFINE w == g[i - 1]
    <2>1. /\ w \in Seq(X) /\ Len(w) <= i - 1 /\ Range(w) = Part(i - 1) \ es
          /\ IsInjective(s) => IsInjective(w)
      BY <1>5
    <2>2. g[i] = IF s[i] \in es THEN w ELSE Append(w, s[i])
      <3>1. i \in 0 .. n /\ i # 0
        BY <1>1
      <3>2. QED
        BY <1>3, <3>1 DEF Sieve
    <2>3. i \in Nat /\ s[i] \in X /\ Part(i) = Part(i - 1) \cup {s[i]}
      BY <1>1
    <2> HIDE DEF w
    <2>4. Len(w) \in Nat /\ DOMAIN w = 1 .. Len(w)
      BY <2>1, LenProperties
    <2>5. CASE s[i] \in es
      <3>1. Part(i) \ es = Part(i - 1) \ es
        BY <2>3, <2>5
      <3> HIDE DEF Part
      <3>2. QED
        BY <2>1, <2>2, <2>3, <2>4, <2>5, <3>1
    <2>6. CASE s[i] \notin es
      <3> DEFINE a == Append(w, s[i])
      <3>1. /\ a \in Seq(X) /\ Len(a) = Len(w) + 1
            /\ \A j \in 1 .. Len(w) : a[j] = w[j]
            /\ a[Len(w) + 1] = s[i]
        BY <2>1, <2>3, AppendProperties
      <3>2. g[i] = a
        BY <2>2, <2>6
      <3> HIDE DEF a
      <3>3. DOMAIN a = 1 .. Len(w) + 1
        BY <3>1, LenProperties
      <3>4. Range(a) = Range(w) \cup {s[i]}
        BY <2>4, <3>1, <3>3 DEF Range
      <3>5. Part(i) \ es = (Part(i - 1) \ es) \cup {s[i]}
        BY <2>3, <2>6
      <3>6. ASSUME IsInjective(s)
            PROVE  IsInjective(a)
        <4>1. s[i] \notin Part(i - 1)
          BY <1>1, <3>6 DEF IsInjective
        <4>2. s[i] \notin Range(w)
          BY <2>1, <4>1
        <4>3. \A j \in 1 .. Len(w) : w[j] # s[i]
          BY <2>4, <4>2 DEF Range
        <4>4. \A j, k \in 1 .. Len(w) : w[j] = w[k] => j = k
          BY <2>1, <2>4, <3>6 DEF IsInjective
        <4>5. QED
          BY <2>4, <3>1, <3>3, <4>3, <4>4 DEF IsInjective
      <3> HIDE DEF Part
      <3>7. QED
        BY <2>1, <2>3, <2>4, <3>1, <3>2, <3>4, <3>5, <3>6
    <2>7. QED
      BY <2>5, <2>6
  <1> HIDE DEF Q
  <1>6. T = {}
    <2>1. SUFFICES ASSUME T # {} PROVE FALSE
      OBVIOUS
    <2>2. PICK i \in T : \A j \in T : i <= j
      <3>1. T \in SUBSET Nat
        BY <1>1
      <3> HIDE DEF T
      <3>2. QED
        BY <2>1, <3>1, SmallestNumber
    <2>3. i \in 1 .. n /\ ~Q(i)
      BY <1>1, <1>4, <2>2
    <2>4. i - 1 \in 0 .. n /\ i - 1 \notin T
      BY <1>1, <2>2, <2>3
    <2>5. QED
      BY <1>5, <2>3, <2>4
  <1>7. Q(n)
    BY <1>1, <1>6
  <1>8. Range(s) = Part(n)
    BY <1>1 DEF Range
  <1>9. QED
    BY <1>2, <1>7, <1>8 DEF Q, n

-----------------------------------------------------------------------------
(***************************************************************************)
(* Lists of enemies.                                                       *)
(***************************************************************************)
Proper(s, l) == s \in Seq(Livings \ {l}) /\ Len(s) <= MaxEnemies /\ IsInjective(s)

\* No list of enemies can be full.
Roomy == Cardinality(Livings) <= MaxEnemies + 1

\* The list that cb_add_enemy makes of s.
Wished(s, e, force) ==
    IF force THEN <<e>> \o Without(s, {e})
    ELSE IF e \in Range(s) THEN s ELSE Append(s, e)
Listed(s, e, force) ==
    LET all == Wished(s, e, force)
    IN SubSeq(all, 1, IF Len(all) > MaxEnemies THEN MaxEnemies ELSE Len(all))

LEMMA InjectiveLength ==
    ASSUME NEW X, IsFiniteSet(X), NEW s \in Seq(X), IsInjective(s)
    PROVE  Len(s) <= Cardinality(X)
  <1> DEFINE n == Len(s)
  <1>1. n \in Nat /\ s \in [1 .. n -> X]
    BY LenProperties
  <1> HIDE DEF n
  <1>2. s \in Injection(1 .. n, X)
    BY <1>1 DEF Injection
  <1>3. Cardinality(1 .. n) <= Cardinality(X)
    BY <1>2, FS_Injection
  <1>4. 1 \in Int /\ n \in Int
    BY <1>1
  <1>5. Cardinality(1 .. n) = IF 1 > n THEN 0 ELSE n - 1 + 1
    BY <1>4, FS_Interval
  <1>6. n <= Cardinality(X)
    BY <1>1, <1>3, <1>5
  <1>7. QED
    BY <1>6 DEF n

LEMMA WishedFacts ==
    ASSUME NEW l \in Livings, NEW s, Proper(s, l), NEW e \in Livings \ {l}, NEW force \in BOOLEAN
    PROVE  LET w == Wished(s, e, force)
           IN /\ w \in Seq(Livings \ {l}) /\ IsInjective(w)
              /\ Range(w) = Range(s) \cup {e}
              /\ force => w[1] = e /\ Len(w) > 0
  <1> DEFINE X == Livings \ {l}
             w == Wished(s, e, force)
  <1>1. s \in Seq(X) /\ IsInjective(s) /\ e \in X
    BY DEF Proper
  <1>2. Len(s) \in Nat /\ DOMAIN s = 1 .. Len(s)
    BY <1>1, LenProperties
  <1> HIDE DEF X
  <1>3. CASE force = TRUE
    <2> DEFINE r == Without(s, {e})
    <2>1. r \in Seq(X) /\ Range(r) = Range(s) \ {e} /\ IsInjective(r)
      BY <1>1, WithoutFacts
    <2>2. w = <<e>> \o r
      BY <1>3 DEF Wished
    <2> HIDE DEF r
    <2>3. Len(r) \in Nat /\ DOMAIN r = 1 .. Len(r)
      BY <2>1, LenProperties
    <2>4. <<e>> \in Seq(X) /\ Len(<<e>>) = 1 /\ <<e>>[1] = e
      BY <1>1
    <2>5. /\ w \in Seq(X) /\ Len(w) = 1 + Len(r)
          /\ \A i \in 1 .. 1 + Len(r) : w[i] = IF i <= 1 THEN <<e>>[i] ELSE r[i - 1]
      BY <2>1, <2>2, <2>4, ConcatProperties
    <2> HIDE DEF w
    <2>6. DOMAIN w = 1 .. 1 + Len(r)
      BY <2>5, LenProperties
    <2>7. /\ w[1] = e
          /\ \A i \in 2 .. 1 + Len(r) : i - 1 \in 1 .. Len(r) /\ w[i] = r[i - 1]
          /\ \A i \in 1 .. Len(r) : w[i + 1] = r[i] /\ i + 1 \in 2 .. 1 + Len(r)
      BY <2>3, <2>4, <2>5
    <2>8. Range(w) = Range(r) \cup {e}
      <3>1. \A i \in DOMAIN w : i = 1 \/ i \in 2 .. 1 + Len(r)
        BY <2>3, <2>6
      <3>2. 1 \in DOMAIN w /\ \A i \in 2 .. 1 + Len(r) : i \in DOMAIN w
        BY <2>3, <2>6
      <3>3. Range(w) \subseteq Range(r) \cup {e}
        <4>1. SUFFICES ASSUME NEW i \in DOMAIN w PROVE w[i] \in Range(r) \cup {e}
          BY DEF Range
        <4>2. CASE i = 1
          BY <2>7, <4>2
        <4>3. CASE i \in 2 .. 1 + Len(r)
          <5>1. i - 1 \in DOMAIN r /\ w[i] = r[i - 1]
            BY <2>3, <2>7, <4>3
          <5>2. QED
            BY <5>1 DEF Range
        <4>4. QED
          BY <3>1, <4>2, <4>3
      <3>4. ASSUME NEW i \in DOMAIN r PROVE r[i] \in Range(w)
        <4>1. i + 1 \in DOMAIN w /\ w[i + 1] = r[i]
          BY <2>3, <2>7, <3>2
        <4>2. QED
          BY <4>1 DEF Range
      <3>5. e \in Range(w)
        BY <2>7, <3>2 DEF Range
      <3>6. QED
        BY <3>3, <3>4, <3>5 DEF Range
    <2>9. \A i \in 1 .. Len(r) : r[i] # e
      BY <2>1, <2>3 DEF Range
    <2>10. IsInjective(w)
      <3>1. ASSUME NEW i \in DOMAIN w, NEW j \in DOMAIN w, w[i] = w[j]
            PROVE  i = j
        <4>1. i \in Nat /\ j \in Nat /\ (i = 1 \/ i \in 2 .. 1 + Len(r))
              /\ (j = 1 \/ j \in 2 .. 1 + Len(r))
          BY <2>3, <2>6
        <4>2. CASE i = 1 \/ j = 1
          BY <2>7, <2>9, <3>1, <4>1, <4>2
        <4>3. CASE i # 1 /\ j # 1
          <5>1. r[i - 1] = r[j - 1] /\ i - 1 \in DOMAIN r /\ j - 1 \in DOMAIN r
            BY <2>3, <2>7, <3>1, <4>1, <4>3
          <5>2. i - 1 = j - 1
            BY <2>1, <5>1 DEF IsInjective
          <5>3. QED
            BY <4>1, <5>2
        <4>4. QED
          BY <4>2, <4>3
      <3>2. QED
        BY <3>1 DEF IsInjective
    <2>11. Range(w) = Range(s) \cup {e}
      BY <2>1, <2>8
    <2>12. QED
      BY <2>3, <2>5, <2>7, <2>10, <2>11 DEF X, w
  <1>4. CASE force = FALSE /\ e \in Range(s)
    <2>1. w = s
      BY <1>4 DEF Wished
    <2> HIDE DEF w
    <2>2. QED
      BY <1>1, <1>4, <2>1 DEF X, w
  <1>5. CASE force = FALSE /\ e \notin Range(s)
    <2>1. w = Append(s, e)
      BY <1>5 DEF Wished
    <2>2. /\ w \in Seq(X) /\ Len(w) = Len(s) + 1
          /\ \A i \in 1 .. Len(s) : w[i] = s[i]
          /\ w[Len(s) + 1] = e
      BY <1>1, <2>1, AppendProperties
    <2> HIDE DEF w
    <2>3. DOMAIN w = 1 .. Len(s) + 1
      BY <2>2, LenProperties
    <2>4. Range(w) = Range(s) \cup {e}
      BY <1>2, <2>2, <2>3 DEF Range
    <2>5. IsInjective(w)
      <3>1. \A i \in 1 .. Len(s) : s[i] # e
        BY <1>2, <1>5 DEF Range
      <3>2. \A i, j \in 1 .. Len(s) : s[i] = s[j] => i = j
        BY <1>1, <1>2 DEF IsInjective
      <3>3. QED
        BY <1>2, <2>2, <2>3, <3>1, <3>2 DEF IsInjective
    <2>6. QED
      BY <1>5, <2>2, <2>4, <2>5 DEF X, w
  <1>6. QED
    BY <1>3, <1>4, <1>5

\* cb_add_enemy keeps the list in order; who is put first is in it, and nobody is
\* left out unless the list was full.
LEMMA ListedFacts ==
    ASSUME NEW l \in Livings, NEW s, Proper(s, l), NEW e \in Livings \ {l}, NEW force \in BOOLEAN
    PROVE  LET w == Listed(s, e, force)
           IN /\ Proper(w, l)
              /\ Range(w) \subseteq Range(s) \cup {e}
              /\ force => e \in Range(w)
              /\ Roomy => Range(w) = Range(s) \cup {e}
  <1> DEFINE X == Livings \ {l}
             all == Wished(s, e, force)
             n == IF Len(all) > MaxEnemies THEN MaxEnemies ELSE Len(all)
             w == SubSeq(all, 1, n)
  <1>1. /\ all \in Seq(X) /\ IsInjective(all) /\ Range(all) = Range(s) \cup {e}
        /\ force => all[1] = e /\ Len(all) > 0
    BY WishedFacts
  <1>2. IsFiniteSet(X) /\ Cardinality(X) = Cardinality(Livings) - 1 /\ Cardinality(Livings) \in Nat
    BY CombatAssumption, FS_RemoveElement, FS_CardinalityType
  <1>3. Listed(s, e, force) = w
    BY DEF Listed
  <1> HIDE DEF all, X
  <1>4. Len(all) \in Nat /\ DOMAIN all = 1 .. Len(all) /\ MaxEnemies \in Nat \ {0}
    BY <1>1, LenProperties, CombatAssumption
  <1>5. n \in Nat /\ n <= MaxEnemies /\ n <= Len(all) /\ (Len(all) > 0 => n > 0)
    BY <1>4
  <1>6. Roomy => n = Len(all)
    <2>1. SUFFICES ASSUME Roomy PROVE n = Len(all)
      OBVIOUS
    <2>2. Len(all) <= Cardinality(X)
      BY <1>1, <1>2, InjectiveLength
    <2>3. Len(all) <= MaxEnemies
      BY <1>2, <1>4, <2>1, <2>2 DEF Roomy
    <2>4. ~(Len(all) > MaxEnemies)
      BY <1>4, <2>3
    <2>5. QED
      BY <2>4
  <1> HIDE DEF n
  <1>7. \A i \in 1 .. n : i \in 1 .. Len(all) /\ all[i] \in X
    <2>1. \A i \in 1 .. Len(all) : all[i] \in X
      BY <1>1, ElementOfSeq
    <2>2. QED
      BY <1>4, <1>5, <2>1
  <1>8. /\ w \in Seq(X) /\ Len(w) = n
        /\ \A i \in 1 .. n : w[i] = all[i]
    <2>1. /\ w \in Seq(X)
          /\ Len(w) = IF 1 <= n THEN n - 1 + 1 ELSE 0
          /\ \A i \in 1 .. n - 1 + 1 : w[i] = all[1 + i - 1]
      <3>1. 1 \in Int /\ n \in Int
        BY <1>5
      <3>2. \A i \in 1 .. n : all[i] \in X
        BY <1>7
      <3>3. QED
        BY <3>1, <3>2, SubSeqProperties
    <2> HIDE DEF w
    <2>2. QED
      BY <1>5, <2>1
  <1> HIDE DEF w
  <1>9. DOMAIN w = 1 .. n
    BY <1>8, LenProperties
  <1>10. IsInjective(w)
    BY <1>1, <1>4, <1>7, <1>8, <1>9 DEF IsInjective
  <1>11. Range(w) \subseteq Range(all)
    BY <1>4, <1>7, <1>8, <1>9 DEF Range
  <1>12. Roomy => Range(w) = Range(all)
    BY <1>4, <1>6, <1>8, <1>9 DEF Range
  <1>13. force => e \in Range(w)
    <2>1. ASSUME force PROVE w[1] = e /\ 1 \in DOMAIN w
      BY <1>1, <1>4, <1>5, <1>8, <1>9, <2>1
    <2>2. QED
      BY <2>1 DEF Range
  <1>14. QED
    BY <1>1, <1>3, <1>5, <1>8, <1>10, <1>11, <1>12, <1>13 DEF Proper, X

-----------------------------------------------------------------------------
(***************************************************************************)
(* What the functions of the combat object of one living do.               *)
(***************************************************************************)
States ==
    [env : [Livings -> Rooms \cup {Hospital, None}], ghost : SUBSET Players,
     enemies : [Livings -> Seq(Livings)], attack : [Livings -> Livings \cup {None}],
     heart : [Livings -> BOOLEAN], recent : [Livings -> BOOLEAN],
     sparring : [Livings -> SUBSET Livings], offers : [Livings -> SUBSET Livings]]

\* The inductive invariant, of a state of all livings.
Sane(S) ==
    S \in States /\ \A l \in Livings : Proper(S.enemies[l], l) /\ S.attack[l] # l

Foes(S, l) == Range(S.enemies[l])

LEMMA FoesAreOthers ==
    ASSUME NEW S, Sane(S), NEW l \in Livings
    PROVE  Foes(S, l) \subseteq Livings \ {l}
  <1> DEFINE s == S.enemies[l]
             X == Livings \ {l}
  <1>1. s \in Seq(X)
    BY DEF Sane, Proper
  <1> HIDE DEF s, X
  <1>2. Range(s) \in SUBSET X
    BY <1>1, RangeOfSeq
  <1>3. QED
    BY <1>2 DEF s, X, Foes

\* T is S but for the combat object of l.
Fighting(S, T, l) ==
    /\ T.env = S.env /\ T.ghost = S.ghost /\ T.sparring = S.sparring /\ T.offers = S.offers
    /\ \A x \in Livings \ {l} : /\ T.enemies[x] = S.enemies[x] /\ T.attack[x] = S.attack[x]
                                /\ T.heart[x] = S.heart[x] /\ T.recent[x] = S.recent[x]

\* e is on the list of l now, if there was room.
Added(S, T, l, e) ==
    /\ Foes(T, l) \subseteq Foes(S, l) \cup {e}
    /\ Roomy => Foes(T, l) = Foes(S, l) \cup {e}

LEMMA AddEnemyFacts ==
    ASSUME NEW S, Sane(S), NEW l \in Livings, NEW e \in Livings \ {l}, NEW force \in BOOLEAN
    PROVE  LET T == AddEnemy(S, l, e, force)
           IN /\ Sane(T) /\ Fighting(S, T, l) /\ Added(S, T, l, e)
              /\ force => e \in Foes(T, l)
              /\ T.attack = S.attack /\ T.heart = S.heart /\ T.recent = S.recent
  <1> DEFINE w == Listed(S.enemies[l], e, force)
             T == AddEnemy(S, l, e, force)
  <1>1. T = [S EXCEPT !.enemies[l] = w]
    BY DEF AddEnemy, Listed, Wished, Hunts
  <1>2. Proper(S.enemies[l], l) /\ S \in States
    BY DEF Sane
  <1>3. /\ Proper(w, l) /\ Range(w) \subseteq Range(S.enemies[l]) \cup {e}
        /\ force => e \in Range(w)
        /\ Roomy => Range(w) = Range(S.enemies[l]) \cup {e}
    BY <1>2, ListedFacts
  <1> HIDE DEF w, T
  <1>4. w \in Seq(Livings)
    <2>1. w \in Seq(Livings \ {l}) /\ Livings \ {l} \subseteq Livings
      BY <1>3 DEF Proper
    <2>2. QED
      BY <2>1, SeqMonotonic
  <1>5. /\ T \in States /\ T.enemies = [S.enemies EXCEPT ![l] = w]
        /\ T.env = S.env /\ T.ghost = S.ghost /\ T.sparring = S.sparring
        /\ T.offers = S.offers /\ T.attack = S.attack /\ T.heart = S.heart
        /\ T.recent = S.recent
    BY <1>1, <1>2, <1>4 DEF States
  <1>6. T.enemies[l] = w /\ \A x \in Livings \ {l} : T.enemies[x] = S.enemies[x]
    BY <1>2, <1>5 DEF States
  <1>7. Sane(T)
    BY <1>3, <1>5, <1>6 DEF Sane
  <1>8. Fighting(S, T, l)
    BY <1>5, <1>6 DEF Fighting
  <1>9. QED
    BY <1>3, <1>5, <1>6, <1>7, <1>8 DEF Added, Foes, T

LEMMA FightingTwice ==
    ASSUME NEW S, NEW U, NEW T, NEW l \in Livings, Fighting(S, U, l), Fighting(U, T, l)
    PROVE  Fighting(S, T, l)
  BY DEF Fighting

\* l has o to attack, and perhaps other settings of the heart and the time.
Setting(S, T, l, o) ==
    \E b, r \in BOOLEAN : T = [S EXCEPT !.attack[l] = o, !.heart[l] = b, !.recent[l] = r]

LEMMA SettingFacts ==
    ASSUME NEW S, Sane(S), NEW l \in Livings, NEW o \in (Livings \ {l}) \cup {None},
           NEW T, Setting(S, T, l, o)
    PROVE  Sane(T) /\ Fighting(S, T, l) /\ T.enemies = S.enemies /\ T.attack[l] = o
  <1>1. PICK b \in BOOLEAN, r \in BOOLEAN :
            T = [S EXCEPT !.attack[l] = o, !.heart[l] = b, !.recent[l] = r]
    BY DEF Setting
  <1>2. /\ T \in States /\ T.enemies = S.enemies
        /\ T.env = S.env /\ T.ghost = S.ghost /\ T.sparring = S.sparring
        /\ T.offers = S.offers /\ T.attack = [S.attack EXCEPT ![l] = o]
        /\ T.heart = [S.heart EXCEPT ![l] = b] /\ T.recent = [S.recent EXCEPT ![l] = r]
    BY <1>1 DEF Sane, States
  <1>3. S.attack \in [Livings -> Livings \cup {None}] /\ S.heart \in [Livings -> BOOLEAN]
        /\ S.recent \in [Livings -> BOOLEAN]
    BY DEF Sane, States
  <1>4. o # l
    BY CombatAssumption
  <1>5. QED
    BY <1>2, <1>3, <1>4 DEF Sane, Fighting

\* One living has an opponent more, and its heart beats.
Roused(S, T, l, o) ==
    /\ Fighting(S, T, l) /\ Added(S, T, l, o)
    /\ T.heart[l] = TRUE
    /\ T.attack[l] \in {S.attack[l], o} /\ T.attack[l] # None

\* o is put on the list of l, which then has a to attack.
Rouses(S, T, l, o, a) ==
    T = RestartHeart([AddEnemy(S, l, o, FALSE) EXCEPT !.attack[l] = a], l)

LEMMA RousedFacts ==
    ASSUME NEW S, Sane(S), NEW l \in Livings, NEW o \in Livings \ {l},
           NEW a \in {S.attack[l], o}, a # None, NEW T, Rouses(S, T, l, o, a)
    PROVE  Sane(T) /\ Roused(S, T, l, o)
  <1> DEFINE U == AddEnemy(S, l, o, FALSE)
  <1>1. /\ Sane(U) /\ Fighting(S, U, l) /\ Added(S, U, l, o)
        /\ U.attack = S.attack /\ U.heart = S.heart /\ U.recent = S.recent
    <2> DEFINE f == FALSE
    <2>1. f \in BOOLEAN /\ U = AddEnemy(S, l, o, f)
      BY Zenon
    <2> HIDE DEF f
    <2>2. LET V == AddEnemy(S, l, o, f)
          IN /\ Sane(V) /\ Fighting(S, V, l) /\ Added(S, V, l, o)
             /\ f => o \in Foes(V, l)
             /\ V.attack = S.attack /\ V.heart = S.heart /\ V.recent = S.recent
      BY <2>1, AddEnemyFacts, Zenon
    <2>3. QED
      BY <2>1, <2>2
  <1>2. T = RestartHeart([U EXCEPT !.attack[l] = a], l)
    BY DEF Rouses
  <1> HIDE DEF U
  <1>3. Setting(U, T, l, a) /\ T.heart[l] = TRUE
    <2> DEFINE r == l \in Timed
               b == TRUE
    <2>1. U \in States
      BY <1>1 DEF Sane
    <2>2. /\ T = [U EXCEPT !.attack[l] = a, !.heart[l] = b, !.recent[l] = r]
          /\ T.heart = [U.heart EXCEPT ![l] = TRUE] /\ U.heart \in [Livings -> BOOLEAN]
      BY <1>2, <2>1 DEF RestartHeart, Clock, States
    <2>3. T.heart[l] = TRUE
      BY <2>2
    <2>4. r \in BOOLEAN /\ b \in BOOLEAN
      OBVIOUS
    <2> HIDE DEF r, b
    <2>5. Setting(U, T, l, a)
      BY <2>2, <2>4 DEF Setting
    <2>6. QED
      BY <2>3, <2>5
  <1>4. a \in (Livings \ {l}) \cup {None}
    BY DEF Sane, States
  <1>5. Sane(T) /\ Fighting(U, T, l) /\ T.enemies = U.enemies /\ T.attack[l] = a
    BY <1>1, <1>3, <1>4, SettingFacts
  <1>6. Foes(T, l) = Foes(U, l)
    BY <1>5 DEF Foes
  <1>7. Fighting(S, T, l)
    BY <1>1, <1>5, FightingTwice
  <1>8. QED
    BY <1>1, <1>3, <1>5, <1>6, <1>7 DEF Roused, Added

LEMMA AttackedByFacts ==
    ASSUME NEW S, Sane(S), NEW l \in Livings, NEW o \in Livings \ {l}
    PROVE  Sane(AttackedBy(S, l, o)) /\ Roused(S, AttackedBy(S, l, o), l, o)
  <1> DEFINE U == AddEnemy(S, l, o, FALSE)
             a == IF S.attack[l] = None \/ (S.attack[l] \notin Players /\ o \in Players)
                  THEN o ELSE S.attack[l]
  <1>1. U.attack[l] = S.attack[l]
    BY AddEnemyFacts
  <1>2. Rouses(S, AttackedBy(S, l, o), l, o, a)
    BY <1>1 DEF AttackedBy, Rouses
  <1>3. a \in {S.attack[l], o} /\ a # None
    BY CombatAssumption
  <1> HIDE DEF a
  <1>4. QED
    BY <1>2, <1>3, RousedFacts

LEMMA HitMeFacts ==
    ASSUME NEW S, Sane(S), NEW l \in Livings, NEW o \in Livings \ {l}
    PROVE  Sane(HitMe(S, l, o)) /\ Roused(S, HitMe(S, l, o), l, o)
  <1> DEFINE U == AddEnemy(S, l, o, FALSE)
             a == IF S.attack[l] = None THEN o ELSE S.attack[l]
  <1>1. U.attack[l] = S.attack[l]
    BY AddEnemyFacts
  <1>2. Rouses(S, HitMe(S, l, o), l, o, a)
    BY <1>1 DEF HitMe, Rouses
  <1>3. a \in {S.attack[l], o} /\ a # None
    BY CombatAssumption
  <1> HIDE DEF a
  <1>4. QED
    BY <1>2, <1>3, RousedFacts

\* The heart of l beats, and nothing else is different for anybody else.
Restarted(S, T, l) ==
    /\ Fighting(S, T, l) /\ T.enemies = S.enemies
    /\ T.attack[l] = S.attack[l] /\ T.heart[l] = TRUE

LEMMA RestartFacts ==
    ASSUME NEW S, Sane(S), NEW l \in Livings
    PROVE  Sane(RestartHeart(S, l)) /\ Restarted(S, RestartHeart(S, l), l)
  <1> DEFINE T == RestartHeart(S, l)
             a == S.attack[l]
             r == l \in Timed
             b == TRUE
  <1>1. S \in States
    BY DEF Sane
  <1>2. /\ T = [S EXCEPT !.attack[l] = a, !.heart[l] = b, !.recent[l] = r]
        /\ T.heart = [S.heart EXCEPT ![l] = TRUE] /\ S.heart \in [Livings -> BOOLEAN]
    BY <1>1 DEF RestartHeart, Clock, States
  <1>3. T.heart[l] = TRUE
    BY <1>2
  <1>4. a \in (Livings \ {l}) \cup {None} /\ r \in BOOLEAN /\ b \in BOOLEAN
    BY <1>1 DEF States, Sane
  <1> HIDE DEF T, a, r, b
  <1>5. Setting(S, T, l, a)
    BY <1>2, <1>4 DEF Setting
  <1>6. Sane(T) /\ Fighting(S, T, l) /\ T.enemies = S.enemies /\ T.attack[l] = a
    BY <1>4, <1>5, SettingFacts
  <1>7. QED
    BY <1>3, <1>6 DEF Restarted, T, a

\* One living has chosen whom to attack.
Turned(S, T, l, v) ==
    /\ Fighting(S, T, l) /\ Added(S, T, l, v) /\ v \in Foes(T, l)
    /\ T.attack[l] = v /\ T.heart[l] = TRUE

\* One living has attacked another.
Engaged(S, T, l, v) ==
    \/ (v = S.attack[l] \/ v \in S.ghost) /\ Restarted(S, T, l)
    \/ v \notin S.ghost /\ \E U : Sane(U) /\ Turned(S, U, l, v) /\ Roused(U, T, v, l)

LEMMA TurnedFacts ==
    ASSUME NEW S, Sane(S), NEW l \in Livings, NEW v \in Livings \ {l}, S.heart[l] = TRUE
    PROVE  LET U == [AddEnemy(S, l, v, TRUE) EXCEPT !.attack[l] = v]
           IN Sane(U) /\ Turned(S, U, l, v)
  <1> DEFINE f == TRUE
             V == AddEnemy(S, l, v, f)
             U == [V EXCEPT !.attack[l] = v]
  <1>1. f \in BOOLEAN /\ f
    OBVIOUS
  <1>2. U = [AddEnemy(S, l, v, TRUE) EXCEPT !.attack[l] = v]
    BY Zenon
  <1> HIDE DEF f
  <1>3. /\ Sane(V) /\ Fighting(S, V, l) /\ Added(S, V, l, v)
        /\ f => v \in Foes(V, l)
        /\ V.attack = S.attack /\ V.heart = S.heart /\ V.recent = S.recent
    BY <1>1, AddEnemyFacts, ZenonT(60)
  <1>4. v \in Foes(V, l)
    BY <1>1, <1>3, Zenon
  <1>5. U.heart = V.heart
    <2>1. V \in States
      BY <1>3 DEF Sane
    <2> HIDE DEF V
    <2>2. QED
      BY <2>1 DEF States
  <1>6. Setting(V, U, l, v)
    <2> DEFINE b == V.heart[l]
               r == V.recent[l]
    <2>1. V \in States
      BY <1>3 DEF Sane
    <2> HIDE DEF V
    <2>2. V.heart \in [Livings -> BOOLEAN] /\ V.recent \in [Livings -> BOOLEAN]
      BY <2>1 DEF States
    <2>3. b \in BOOLEAN /\ r \in BOOLEAN
      BY <2>2
    <2>4. U = [V EXCEPT !.attack[l] = v, !.heart[l] = b, !.recent[l] = r]
      BY <2>1 DEF States
    <2> HIDE DEF U, b, r
    <2>5. QED
      BY <2>3, <2>4 DEF Setting
  <1>7. v \in (Livings \ {l}) \cup {None}
    OBVIOUS
  <1> HIDE DEF U, V
  <1>8. Sane(U) /\ Fighting(V, U, l) /\ U.enemies = V.enemies /\ U.attack[l] = v
    BY <1>3, <1>6, <1>7, SettingFacts
  <1>9. Foes(U, l) = Foes(V, l)
    BY <1>8 DEF Foes
  <1>10. Fighting(S, U, l)
    BY <1>3, <1>8, FightingTwice
  <1>11. Turned(S, U, l, v)
    BY <1>3, <1>4, <1>5, <1>8, <1>9, <1>10 DEF Turned, Added
  <1>12. QED
    BY <1>2, <1>8, <1>11, Zenon

LEMMA AttackFacts ==
    ASSUME NEW S, Sane(S), NEW l \in Livings, NEW v \in Livings \ {l}
    PROVE  Sane(Attack(S, l, v)) /\ Engaged(S, Attack(S, l, v), l, v)
  <1> DEFINE R == RestartHeart(S, l)
             U == [AddEnemy(R, l, v, TRUE) EXCEPT !.attack[l] = v]
  <1>1. Sane(R) /\ Restarted(S, R, l)
    BY RestartFacts
  <1>2. CASE v = S.attack[l] \/ v \in S.ghost
    BY <1>1, <1>2 DEF Attack, Engaged
  <1>3. CASE ~(v = S.attack[l] \/ v \in S.ghost)
    <2>1. Attack(S, l, v) = AttackedBy(U, v, l)
      BY <1>3, Zenon DEF Attack
    <2> HIDE DEF R
    <2>2. Sane(U) /\ Turned(R, U, l, v)
      BY <1>1, TurnedFacts, Zenon DEF Restarted
    <2> HIDE DEF U
    <2>3. v \in Livings /\ l \in Livings \ {v}
      OBVIOUS
    <2>4. Sane(AttackedBy(U, v, l)) /\ Roused(U, AttackedBy(U, v, l), v, l)
      BY <2>2, <2>3, AttackedByFacts
    <2>5. Fighting(S, R, l) /\ Fighting(R, U, l) /\ Foes(R, l) = Foes(S, l)
      BY <1>1, <2>2 DEF Restarted, Turned, Foes
    <2>6. Fighting(S, U, l)
      BY <2>5, FightingTwice
    <2>7. Turned(S, U, l, v)
      BY <2>2, <2>5, <2>6 DEF Turned, Added
    <2>8. QED
      BY <1>3, <2>1, <2>2, <2>4, <2>7 DEF Engaged
  <1>4. QED
    BY <1>2, <1>3

\* l has forgotten es, and has turned to an enemy at hand if there is one.
Ceased(S, T, l, es) ==
    /\ Fighting(S, T, l) /\ Foes(T, l) = Foes(S, l) \ es /\ T.heart[l] = S.heart[l]
    /\ \/ T.attack[l] \in Foes(T, l) \cap Others(S, l)
       \/ /\ Foes(T, l) \cap Others(S, l) = {}
          /\ T.attack[l] = IF S.attack[l] \in es THEN None ELSE S.attack[l]

LEMMA HeadFacts ==
    ASSUME NEW X, NEW s \in Seq(X)
    PROVE  s # <<>> => s[1] \in Range(s)
  <1>1. Len(s) \in Nat /\ DOMAIN s = 1 .. Len(s) /\ (s # <<>> => Len(s) # 0)
    BY LenProperties, EmptySeq
  <1>2. QED
    BY <1>1 DEF Range

LEMMA StopFightFacts ==
    ASSUME NEW S, Sane(S), NEW l \in Livings, NEW es
    PROVE  Sane(StopFight(S, l, es)) /\ Ceased(S, StopFight(S, l, es), l, es)
  <1> DEFINE rest == Without(S.enemies[l], es)
             out == Livings \ Others(S, l)
             local == Without(rest, out)
             a == IF local # <<>> THEN local[1]
                  ELSE IF S.attack[l] \in es THEN None ELSE S.attack[l]
             T == StopFight(S, l, es)
  <1>1. T = [S EXCEPT !.enemies[l] = rest, !.attack[l] = a]
    BY DEF StopFight
  <1>2. S \in States /\ S.enemies[l] \in Seq(Livings \ {l}) /\ Len(S.enemies[l]) <= MaxEnemies
        /\ IsInjective(S.enemies[l]) /\ S.attack[l] # l
    BY DEF Sane, Proper
  <1>3. /\ rest \in Seq(Livings \ {l}) /\ Len(rest) <= Len(S.enemies[l])
        /\ Range(rest) = Foes(S, l) \ es /\ IsInjective(rest)
    BY <1>2, WithoutFacts DEF Foes
  <1> HIDE DEF rest, out
  <1>4. local \in Seq(Livings \ {l}) /\ Range(local) = Range(rest) \ out
    BY <1>3, WithoutFacts
  <1>5. \A x \in Range(rest) : x \in Livings
    BY <1>3, RangeOfSeq
  <1>6. Range(local) = Range(rest) \cap Others(S, l)
    BY <1>4, <1>5 DEF out, Others
  <1>7. /\ local # <<>> => local[1] \in Range(local)
        /\ local = <<>> => Range(local) = {}
    <2>1. local # <<>> => local[1] \in Range(local)
      BY <1>4, HeadFacts
    <2>2. DOMAIN <<>> = {}
      OBVIOUS
    <2>3. Range(<<>>) = {}
      BY <2>2 DEF Range
    <2>4. QED
      BY <2>1, <2>3
  <1> HIDE DEF local
  <1>8. a \in Livings \cup {None} /\ a # l /\ rest \in Seq(Livings)
    <2>1. S.attack[l] \in Livings \cup {None}
      BY <1>2 DEF States
    <2>2. rest \in Seq(Livings)
      <3>1. Livings \ {l} \subseteq Livings
        OBVIOUS
      <3>2. QED
        BY <1>3, <3>1, SeqMonotonic
    <2>3. \A x \in Range(rest) : x # l
      BY <1>3, RangeOfSeq
    <2>4. None # l
      BY CombatAssumption
    <2>5. QED
      BY <1>2, <1>5, <1>6, <1>7, <2>1, <2>2, <2>3, <2>4
  <1>9. /\ a \in Range(rest) \cap Others(S, l)
        \/ /\ Range(rest) \cap Others(S, l) = {}
           /\ a = IF S.attack[l] \in es THEN None ELSE S.attack[l]
    BY <1>6, <1>7
  <1>10. Proper(rest, l)
    <2>1. Len(rest) \in Nat /\ Len(S.enemies[l]) \in Nat /\ MaxEnemies \in Nat
      BY <1>2, <1>3, LenProperties, CombatAssumption
    <2>2. QED
      BY <1>2, <1>3, <2>1 DEF Proper
  <1> HIDE DEF a, T
  <1>11. /\ T \in States /\ T.enemies = [S.enemies EXCEPT ![l] = rest]
         /\ T.attack = [S.attack EXCEPT ![l] = a]
         /\ T.env = S.env /\ T.ghost = S.ghost /\ T.sparring = S.sparring
         /\ T.offers = S.offers /\ T.heart = S.heart /\ T.recent = S.recent
    BY <1>1, <1>2, <1>8 DEF States
  <1>12. T.enemies[l] = rest /\ T.attack[l] = a
         /\ \A x \in Livings \ {l} : T.enemies[x] = S.enemies[x] /\ T.attack[x] = S.attack[x]
    BY <1>2, <1>11 DEF States
  <1>13. Sane(T)
    BY <1>8, <1>10, <1>11, <1>12 DEF Sane
  <1>14. Fighting(S, T, l)
    BY <1>11, <1>12 DEF Fighting
  <1>15. Foes(T, l) = Range(rest) /\ T.heart[l] = S.heart[l]
    BY <1>11, <1>12 DEF Foes
  <1>16. Ceased(S, T, l, es)
    BY <1>3, <1>9, <1>12, <1>14, <1>15 DEF Ceased
  <1>17. QED
    BY <1>13, <1>16 DEF T

\* l has looked for somebody in its room, inv, to fight.
Looked(S, T, l, inv) ==
    \/ Opponent(S, l) # None /\ T = S
    \/ /\ Opponent(S, l) = None
       /\ Fighting(S, T, l) /\ T.enemies = S.enemies
       /\ \/ T.attack[l] \in Foes(S, l) \cap Range(inv) /\ T.heart[l] = S.heart[l]
          \/ Foes(S, l) \cap Range(inv) = {} /\ T.attack[l] = None /\ T.heart[l] = FALSE

LEMMA UpdateAttackFacts ==
    ASSUME NEW S, Sane(S), NEW l \in Livings, NEW inv \in Seq(Livings)
    PROVE  Sane(UpdateAttack(S, l, inv)) /\ Looked(S, UpdateAttack(S, l, inv), l, inv)
  <1> DEFINE out == Livings \ Range(S.enemies[l])
             targets == Without(inv, out)
             T == UpdateAttack(S, l, inv)
  <1>1. CASE Opponent(S, l) # None
    BY <1>1 DEF UpdateAttack, Looked
  <1>2. CASE Opponent(S, l) = None
    <2>1. T = IF targets # <<>> THEN [S EXCEPT !.attack[l] = targets[1]]
              ELSE [S EXCEPT !.attack[l] = None, !.heart[l] = FALSE]
      BY <1>2 DEF UpdateAttack
    <2> HIDE DEF out, T
    <2>2. targets \in Seq(Livings) /\ Range(targets) = Range(inv) \ out
      BY WithoutFacts
    <2>3. \A x \in Range(inv) : x \in Livings
      BY RangeOfSeq
    <2>4. Range(targets) = Foes(S, l) \cap Range(inv)
      BY <2>2, <2>3 DEF out, Foes
    <2>5. targets # <<>> => targets[1] \in Range(targets)
      BY <2>2, HeadFacts
    <2> HIDE DEF targets
    <2>6. S \in States
      BY DEF Sane
    <2>7. S.heart \in [Livings -> BOOLEAN] /\ S.recent \in [Livings -> BOOLEAN]
      BY <2>6 DEF States
    <2>8. CASE targets # <<>>
      <3> DEFINE b == S.heart[l]
                 r == S.recent[l]
      <3>1. T = [S EXCEPT !.attack[l] = targets[1], !.heart[l] = b, !.recent[l] = r]
        BY <2>1, <2>6, <2>8 DEF States
      <3>2. b \in BOOLEAN /\ r \in BOOLEAN
        BY <2>7
      <3>3. T.heart[l] = S.heart[l]
        BY <2>1, <2>6, <2>8 DEF States
      <3>4. /\ targets[1] \in Livings \ {l}
            /\ targets[1] \in Foes(S, l) \cap Range(inv)
        <4>1. \A x \in Foes(S, l) : x # l
          BY FoesAreOthers
        <4>2. QED
          BY <2>3, <2>4, <2>5, <2>8, <4>1
      <3>5. PICK o \in (Livings \ {l}) \cup {None} : o = targets[1]
        BY <3>4
      <3> HIDE DEF b, r
      <3>6. Setting(S, T, l, o)
        BY <3>1, <3>2, <3>5 DEF Setting
      <3>7. Sane(T) /\ Fighting(S, T, l) /\ T.enemies = S.enemies /\ T.attack[l] = o
        BY <3>5, <3>6, SettingFacts
      <3>8. QED
        BY <1>2, <3>3, <3>4, <3>5, <3>7 DEF Looked, T
    <2>9. CASE targets = <<>>
      <3> DEFINE b == FALSE
                 r == S.recent[l]
      <3>1. T = [S EXCEPT !.attack[l] = None, !.heart[l] = b, !.recent[l] = r]
        BY <2>1, <2>6, <2>9 DEF States
      <3>2. b \in BOOLEAN /\ r \in BOOLEAN
        BY <2>7
      <3>3. T.heart[l] = FALSE
        <4>1. T.heart = [S.heart EXCEPT ![l] = FALSE]
          BY <2>1, <2>6, <2>9 DEF States
        <4>2. QED
          BY <2>7, <4>1
      <3>4. Range(targets) = {}
        <4>1. DOMAIN <<>> = {}
          OBVIOUS
        <4>2. QED
          BY <2>9, <4>1 DEF Range
      <3>5. PICK o \in (Livings \ {l}) \cup {None} : o = None
        OBVIOUS
      <3> HIDE DEF b, r
      <3>6. Setting(S, T, l, o)
        BY <3>1, <3>2, <3>5 DEF Setting
      <3>7. Sane(T) /\ Fighting(S, T, l) /\ T.enemies = S.enemies /\ T.attack[l] = o
        BY <3>5, <3>6, SettingFacts
      <3>8. Looked(S, T, l, inv)
        BY <1>2, <2>4, <3>3, <3>4, <3>5, <3>7 DEF Looked
      <3>9. QED
        BY <3>7, <3>8 DEF T
    <2>10. QED
      BY <2>8, <2>9
  <1>3. QED
    BY <1>1, <1>2

\* v is no more, and nobody remembers it.
Gone(S, T, v) ==
    /\ T.env[v] = None /\ T.ghost = S.ghost \ {v} /\ T.sparring[v] = {}
    /\ Foes(T, v) = {} /\ T.attack[v] = None /\ T.heart[v] = FALSE
    /\ \A m \in Livings \ {v} :
         /\ T.env[m] = S.env[m] /\ T.heart[m] = S.heart[m]
         /\ Foes(T, m) = Foes(S, m) \ {v} /\ T.sparring[m] = S.sparring[m] \ {v}
         /\ T.attack[m] = IF S.attack[m] = v THEN None ELSE S.attack[m]

LEMMA ProperEmpty ==
    ASSUME NEW l \in Livings
    PROVE  Proper(<<>>, l) /\ <<>> \in Seq(Livings) /\ Range(<<>>) = {}
  <1>1. DOMAIN <<>> = {} /\ Len(<<>>) = 0 /\ <<>> \in Seq(Livings) /\ <<>> \in Seq(Livings \ {l})
    OBVIOUS
  <1>2. MaxEnemies \in Nat
    BY CombatAssumption
  <1>3. QED
    BY <1>1, <1>2 DEF Proper, IsInjective, Range

\* A shorter list of a living is still one.
LEMMA ProperWithout ==
    ASSUME NEW l \in Livings, NEW s, Proper(s, l), NEW es
    PROVE  /\ Proper(Without(s, es), l) /\ Without(s, es) \in Seq(Livings)
           /\ Range(Without(s, es)) = Range(s) \ es
  <1> DEFINE w == Without(s, es)
  <1>1. s \in Seq(Livings \ {l}) /\ Len(s) <= MaxEnemies /\ IsInjective(s)
    BY DEF Proper
  <1>2. /\ w \in Seq(Livings \ {l}) /\ Len(w) <= Len(s)
        /\ Range(w) = Range(s) \ es /\ IsInjective(w)
    BY <1>1, WithoutFacts
  <1> HIDE DEF w
  <1>3. Len(w) \in Nat /\ Len(s) \in Nat /\ MaxEnemies \in Nat
    BY <1>1, <1>2, LenProperties, CombatAssumption
  <1>4. Livings \ {l} \subseteq Livings
    OBVIOUS
  <1>5. w \in Seq(Livings)
    BY <1>2, <1>4, SeqMonotonic
  <1>6. QED
    BY <1>1, <1>2, <1>3, <1>5 DEF Proper, w

LEMMA DestructFacts ==
    ASSUME NEW S, Sane(S), NEW v \in Livings
    PROVE  Sane(Destruct(S, v)) /\ Gone(S, Destruct(S, v), v)
  <1> DEFINE T == Destruct(S, v)
             lists == [m \in Livings |-> IF m = v THEN <<>> ELSE Without(S.enemies[m], {v})]
             aims == [m \in Livings |-> IF m = v \/ S.attack[m] = v THEN None ELSE S.attack[m]]
             bouts == [m \in Livings |-> IF m = v THEN {} ELSE S.sparring[m] \ {v}]
             words == [m \in Livings |-> IF m = v THEN {} ELSE S.offers[m] \ {v}]
  <1>1. S \in States /\ \A m \in Livings : Proper(S.enemies[m], m) /\ S.attack[m] # m
        /\ None # m
    BY CombatAssumption DEF Sane
  <1>2. \A m \in Livings : /\ Proper(lists[m], m) /\ lists[m] \in Seq(Livings)
                           /\ Range(lists[m]) = IF m = v THEN {} ELSE Foes(S, m) \ {v}
    <2>1. SUFFICES ASSUME NEW m \in Livings
                   PROVE  /\ Proper(lists[m], m) /\ lists[m] \in Seq(Livings)
                          /\ Range(lists[m]) = IF m = v THEN {} ELSE Foes(S, m) \ {v}
      OBVIOUS
    <2>2. CASE m = v
      BY <2>2, ProperEmpty
    <2>3. CASE m # v
      <3> DEFINE s == S.enemies[m]
                 es == {v}
      <3>1. Proper(s, m) /\ lists[m] = Without(s, es)
        BY <1>1, <2>3
      <3> HIDE DEF s, es, lists
      <3>2. /\ Proper(Without(s, es), m) /\ Without(s, es) \in Seq(Livings)
            /\ Range(Without(s, es)) = Range(s) \ es
        BY <3>1, ProperWithout
      <3>3. QED
        BY <2>3, <3>1, <3>2 DEF s, es, Foes
    <2>4. QED
      BY <2>2, <2>3
  <1>3. /\ S.attack \in [Livings -> Livings \cup {None}] /\ S.sparring \in [Livings -> SUBSET Livings]
        /\ S.offers \in [Livings -> SUBSET Livings] /\ S.heart \in [Livings -> BOOLEAN]
        /\ S.env \in [Livings -> Rooms \cup {Hospital, None}]
    BY <1>1 DEF States
  <1>4. /\ lists \in [Livings -> Seq(Livings)] /\ aims \in [Livings -> Livings \cup {None}]
        /\ bouts \in [Livings -> SUBSET Livings] /\ words \in [Livings -> SUBSET Livings]
    <2>1. lists \in [Livings -> Seq(Livings)]
      BY <1>2
    <2>2. QED
      BY <1>3, <2>1
  <1>5. T = [S EXCEPT !.env[v] = None, !.ghost = @ \ {v}, !.enemies = lists, !.attack = aims,
                      !.heart[v] = FALSE, !.recent[v] = FALSE, !.sparring = bouts,
                      !.offers = words]
    BY DEF Destruct
  <1>6. \A m \in Livings : aims[m] = IF m = v \/ S.attack[m] = v THEN None ELSE S.attack[m]
    OBVIOUS
  <1>7. \A m \in Livings : bouts[m] = IF m = v THEN {} ELSE S.sparring[m] \ {v}
    OBVIOUS
  <1> HIDE DEF T, lists, aims, bouts, words
  <1>8. /\ T \in States /\ T.enemies = lists /\ T.attack = aims /\ T.sparring = bouts
        /\ T.ghost = S.ghost \ {v} /\ T.env = [S.env EXCEPT ![v] = None]
        /\ T.heart = [S.heart EXCEPT ![v] = FALSE]
    <2> DEFINE places == [S.env EXCEPT ![v] = None]
               dead == S.ghost \ {v}
               hearts == [S.heart EXCEPT ![v] = FALSE]
               clocks == [S.recent EXCEPT ![v] = FALSE]
    <2>1. /\ places \in [Livings -> Rooms \cup {Hospital, None}] /\ dead \in SUBSET Players
          /\ hearts \in [Livings -> BOOLEAN] /\ clocks \in [Livings -> BOOLEAN]
      BY <1>1 DEF States
    <2>2. T = [S EXCEPT !.env = places, !.ghost = dead, !.enemies = lists, !.attack = aims,
                        !.heart = hearts, !.recent = clocks, !.sparring = bouts,
                        !.offers = words]
      BY <1>1, <1>5
    <2> HIDE DEF places, dead, hearts, clocks
    <2>3. /\ T \in States /\ T.enemies = lists /\ T.attack = aims /\ T.sparring = bouts
          /\ T.ghost = dead /\ T.env = places /\ T.heart = hearts
      BY <1>1, <1>4, <2>1, <2>2 DEF States
    <2>4. QED
      BY <2>3 DEF places, dead, hearts
  <1>9. Sane(T)
    BY <1>1, <1>2, <1>6, <1>8 DEF Sane
  <1>10. /\ T.env[v] = None /\ T.heart[v] = FALSE
         /\ \A m \in Livings \ {v} : T.env[m] = S.env[m] /\ T.heart[m] = S.heart[m]
    BY <1>3, <1>8
  <1>11. \A m \in Livings : Foes(T, m) = IF m = v THEN {} ELSE Foes(S, m) \ {v}
    BY <1>2, <1>8 DEF Foes
  <1>12. Gone(S, T, v)
    BY <1>6, <1>7, <1>8, <1>10, <1>11 DEF Gone
  <1>13. QED
    BY <1>9, <1>12 DEF T

\* Nobody fights differently now.
Unfought(S, T) ==
    /\ T.env = S.env /\ T.ghost = S.ghost /\ T.enemies = S.enemies /\ T.attack = S.attack
    /\ T.heart = S.heart

\* The combat object of v is as new.
Retired(S, T, v) ==
    /\ Fighting(S, T, v) /\ Foes(T, v) = {} /\ T.attack[v] = None /\ T.heart[v] = FALSE

LEMMA RetiredFacts ==
    ASSUME NEW S, Sane(S), NEW v \in Livings
    PROVE  LET D == [S EXCEPT !.enemies[v] = <<>>, !.attack[v] = None,
                              !.heart[v] = FALSE, !.recent[v] = FALSE]
           IN Sane(D) /\ Retired(S, D, v)
  <1> DEFINE D == [S EXCEPT !.enemies[v] = <<>>, !.attack[v] = None,
                            !.heart[v] = FALSE, !.recent[v] = FALSE]
             e == <<>>
  <1>1. S \in States /\ \A m \in Livings : Proper(S.enemies[m], m) /\ S.attack[m] # m
        /\ None # m
    BY CombatAssumption DEF Sane
  <1>2. Proper(e, v) /\ e \in Seq(Livings) /\ Range(e) = {}
    BY ProperEmpty
  <1>3. D = [S EXCEPT !.enemies[v] = e, !.attack[v] = None,
                      !.heart[v] = FALSE, !.recent[v] = FALSE]
    OBVIOUS
  <1> HIDE DEF e, D
  <1>4. /\ D \in States /\ D.enemies = [S.enemies EXCEPT ![v] = e]
        /\ D.attack = [S.attack EXCEPT ![v] = None]
        /\ D.heart = [S.heart EXCEPT ![v] = FALSE] /\ D.recent = [S.recent EXCEPT ![v] = FALSE]
        /\ D.env = S.env /\ D.ghost = S.ghost /\ D.sparring = S.sparring /\ D.offers = S.offers
    BY <1>1, <1>2, <1>3 DEF States
  <1>5. /\ S.attack \in [Livings -> Livings \cup {None}] /\ S.heart \in [Livings -> BOOLEAN]
        /\ S.recent \in [Livings -> BOOLEAN] /\ S.enemies \in [Livings -> Seq(Livings)]
    BY <1>1 DEF States
  <1>6. /\ D.enemies[v] = e /\ D.attack[v] = None /\ D.heart[v] = FALSE
        /\ \A m \in Livings \ {v} : /\ D.enemies[m] = S.enemies[m] /\ D.attack[m] = S.attack[m]
                                    /\ D.heart[m] = S.heart[m] /\ D.recent[m] = S.recent[m]
    BY <1>4, <1>5
  <1>7. Sane(D)
    BY <1>1, <1>2, <1>4, <1>6 DEF Sane
  <1>8. Retired(S, D, v)
    BY <1>2, <1>4, <1>6 DEF Retired, Fighting, Foes
  <1>9. QED
    BY <1>7, <1>8 DEF D

\* v has become a ghost.
Buried(S, T, v) ==
    /\ v \in Players /\ T.ghost = S.ghost \cup {v}
    /\ T.env[v] = Hospital /\ \A m \in Livings \ {v} : T.env[m] = S.env[m]
    /\ Foes(T, v) = {} /\ T.attack[v] = None /\ T.heart[v] = FALSE
    /\ T.sparring = S.sparring
    /\ \A m \in Livings \ {v} : /\ Foes(T, m) = Foes(S, m) /\ T.attack[m] = S.attack[m]
                                /\ T.heart[m] = S.heart[m]

\* v and k have ended their bout.
Parted(S, T, v, k) ==
    /\ k \in S.sparring[v]
    /\ \E U, W : /\ Sane(U) /\ Sane(W) /\ Ceased(S, U, k, {v}) /\ Ceased(U, W, v, {k})
                 /\ Unfought(W, T)
    /\ \A m \in Livings : T.sparring[m] = S.sparring[m] \ (IF m = k THEN {v}
                                                           ELSE IF m = v THEN {k} ELSE {})

LEMMA BuriedFacts ==
    ASSUME NEW S, NEW D, Sane(D), NEW v \in Players, Retired(S, D, v)
    PROVE  LET T == [D EXCEPT !.ghost = @ \cup {v}, !.env[v] = Hospital]
           IN Sane(T) /\ Buried(S, T, v)
  <1> DEFINE T == [D EXCEPT !.ghost = @ \cup {v}, !.env[v] = Hospital]
  <1>1. D \in States /\ v \in Livings
    BY CombatAssumption DEF Sane
  <1>2. /\ T \in States /\ T.ghost = D.ghost \cup {v} /\ T.env = [D.env EXCEPT ![v] = Hospital]
        /\ T.enemies = D.enemies /\ T.attack = D.attack /\ T.heart = D.heart
        /\ T.sparring = D.sparring
    BY <1>1 DEF States
  <1> HIDE DEF T
  <1>3. D.env \in [Livings -> Rooms \cup {Hospital, None}]
    BY <1>1 DEF States
  <1>4. T.env[v] = Hospital /\ \A m \in Livings \ {v} : T.env[m] = D.env[m]
    BY <1>1, <1>2, <1>3
  <1>5. Sane(T)
    BY <1>2 DEF Sane
  <1>6. Buried(S, T, v)
    BY <1>1, <1>2, <1>4 DEF Buried, Retired, Fighting, Foes
  <1>7. QED
    BY <1>5, <1>6 DEF T

LEMMA DoDieFacts ==
    ASSUME NEW S, Sane(S), NEW v \in Livings, NEW k
    PROVE  LET T == DoDie(S, v, k)
           IN /\ Sane(T)
              /\ \/ Parted(S, T, v, k)
                 \/ k \notin S.sparring[v] /\ (Buried(S, T, v) \/ Gone(S, T, v))
  <1> DEFINE T == DoDie(S, v, k)
             D == [S EXCEPT !.enemies[v] = <<>>, !.attack[v] = None,
                            !.heart[v] = FALSE, !.recent[v] = FALSE]
             U == StopFight(S, k, {v})
             W == StopFight(U, v, {k})
  <1>1. CASE k \in S.sparring[v]
    <2>1. T = [W EXCEPT !.sparring[k] = @ \ {v}, !.sparring[v] = @ \ {k}]
      BY <1>1 DEF DoDie
    <2>2. k \in Livings
      BY <1>1 DEF Sane, States
    <2>3. Sane(U) /\ Ceased(S, U, k, {v})
      BY <2>2, StopFightFacts
    <2> HIDE DEF U
    <2>4. Sane(W) /\ Ceased(U, W, v, {k})
      BY <2>3, StopFightFacts
    <2> HIDE DEF W, T
    <2>5. W \in States /\ W.sparring = S.sparring
      BY <2>3, <2>4 DEF Sane, Ceased, Fighting
    <2> DEFINE one == W.sparring[k] \ {v}
               bouts == [W.sparring EXCEPT ![k] = one]
               two == bouts[v] \ {k}
    <2>6. T = [W EXCEPT !.sparring = [bouts EXCEPT ![v] = two]]
      BY <2>1, <2>5 DEF States
    <2>7. /\ W.sparring \in [Livings -> SUBSET Livings]
          /\ bouts \in [Livings -> SUBSET Livings] /\ one \subseteq Livings /\ two \subseteq Livings
      BY <2>2, <2>5 DEF States
    <2>8. \A m \in Livings : [bouts EXCEPT ![v] = two][m]
                               = W.sparring[m] \ (IF m = k THEN {v} ELSE IF m = v THEN {k} ELSE {})
      BY <2>2, <2>7
    <2>9. [bouts EXCEPT ![v] = two] \in [Livings -> SUBSET Livings]
      BY <2>7
    <2> DEFINE ends == [bouts EXCEPT ![v] = two]
    <2> HIDE DEF ends
    <2>10. T = [W EXCEPT !.sparring = ends] /\ ends \in [Livings -> SUBSET Livings]
           /\ \A m \in Livings : ends[m]
                               = W.sparring[m] \ (IF m = k THEN {v} ELSE IF m = v THEN {k} ELSE {})
      BY <2>6, <2>8, <2>9, Zenon DEF ends
    <2>11. T \in States /\ Unfought(W, T) /\ T.sparring = ends
      BY <2>5, <2>10 DEF States, Unfought
    <2>12. Sane(T)
      BY <2>4, <2>11 DEF Sane, Unfought
    <2>13. Parted(S, T, v, k)
      BY <1>1, <2>3, <2>4, <2>5, <2>10, <2>11 DEF Parted
    <2>14. QED
      BY <2>12, <2>13 DEF T
  <1>2. CASE k \notin S.sparring[v]
    <2>1. T = IF v \in Players THEN [D EXCEPT !.ghost = @ \cup {v}, !.env[v] = Hospital]
              ELSE Destruct(D, v)
      BY <1>2 DEF DoDie
    <2>2. Sane(D) /\ Retired(S, D, v)
      BY RetiredFacts
    <2> HIDE DEF D, T
    <2>3. CASE v \in Players
      <3>1. Sane(T) /\ Buried(S, T, v)
        BY <2>1, <2>2, <2>3, BuriedFacts
      <3>2. QED
        BY <1>2, <3>1 DEF T
    <2>4. CASE v \notin Players
      <3>1. Sane(T) /\ Gone(D, T, v)
        BY <2>1, <2>2, <2>4, DestructFacts
      <3>2. Gone(S, T, v)
        BY <2>2, <3>1 DEF Gone, Retired, Fighting, Foes
      <3>3. QED
        BY <1>2, <3>1, <3>2 DEF T
    <2>5. QED
      BY <2>3, <2>4
  <1>3. QED
    BY <1>1, <1>2

\* l has turned its back on everybody in the room.
Left(S, T, l) ==
    /\ Fighting(S, T, l) /\ Foes(T, l) = Foes(S, l) \ Others(S, l) /\ T.heart[l] = S.heart[l]
    /\ T.attack[l] = IF S.attack[l] \in Foes(S, l) \cap Others(S, l) THEN None ELSE S.attack[l]

LEMMA LeaveFightFacts ==
    ASSUME NEW S, Sane(S), NEW l \in Livings
    PROVE  Sane(LeaveFight(S, l)) /\ Left(S, LeaveFight(S, l), l)
  <1> DEFINE inv == {m \in Others(S, l) : Hunts(S, l, m)}
  <1>1. inv = Foes(S, l) \cap Others(S, l)
    BY DEF Hunts, Foes
  <1>2. LeaveFight(S, l) = IF inv = {} THEN S ELSE StopFight(S, l, inv)
    BY DEF LeaveFight
  <1> HIDE DEF inv
  <1>3. CASE inv = {}
    <2>1. Left(S, S, l)
      BY <1>1, <1>3 DEF Left, Fighting
    <2>2. QED
      BY <1>2, <1>3, <2>1
  <1>4. CASE inv # {}
    <2> DEFINE T == StopFight(S, l, inv)
    <2>1. Sane(T) /\ Ceased(S, T, l, inv)
      BY StopFightFacts
    <2> HIDE DEF T
    <2>2. Foes(T, l) = Foes(S, l) \ Others(S, l)
      BY <1>1, <2>1 DEF Ceased
    <2>3. Left(S, T, l)
      BY <1>1, <2>1, <2>2 DEF Ceased, Left
    <2>4. QED
      BY <1>2, <1>4, <2>1, <2>3 DEF T
  <1>5. QED
    BY <1>3, <1>4

-----------------------------------------------------------------------------
(***************************************************************************)
(* A fight that only gets fiercer, whoever attacks or is attacked.         *)
(***************************************************************************)
Rising(S, T) ==
    /\ T.env = S.env /\ T.ghost = S.ghost /\ T.sparring = S.sparring /\ T.offers = S.offers
    /\ \A x \in Livings :
         /\ S.heart[x] = TRUE => T.heart[x] = TRUE
         /\ S.attack[x] # None => T.attack[x] # None
         /\ T.attack[x] = S.attack[x] \/ T.heart[x] = TRUE
         /\ Foes(T, x) \subseteq Foes(S, x) \/ (T.heart[x] = TRUE /\ T.attack[x] # None)
         /\ Roomy => Foes(S, x) \subseteq Foes(T, x)
         /\ Roomy => T.attack[x] = S.attack[x] \/ T.attack[x] \in Foes(T, x)

LEMMA RisingTwice ==
    ASSUME NEW S, NEW U, NEW T, Rising(S, U), Rising(U, T)
    PROVE  Rising(S, T)
  <1>1. SUFFICES ASSUME NEW x \in Livings
        PROVE  /\ S.heart[x] = TRUE => T.heart[x] = TRUE
               /\ S.attack[x] # None => T.attack[x] # None
               /\ T.attack[x] = S.attack[x] \/ T.heart[x] = TRUE
               /\ Foes(T, x) \subseteq Foes(S, x) \/ (T.heart[x] = TRUE /\ T.attack[x] # None)
               /\ Roomy => Foes(S, x) \subseteq Foes(T, x)
               /\ Roomy => T.attack[x] = S.attack[x] \/ T.attack[x] \in Foes(T, x)
    BY DEF Rising
  <1>2. /\ S.heart[x] = TRUE => U.heart[x] = TRUE
        /\ S.attack[x] # None => U.attack[x] # None
        /\ U.attack[x] = S.attack[x] \/ U.heart[x] = TRUE
        /\ Foes(U, x) \subseteq Foes(S, x) \/ (U.heart[x] = TRUE /\ U.attack[x] # None)
        /\ Roomy => Foes(S, x) \subseteq Foes(U, x)
        /\ Roomy => U.attack[x] = S.attack[x] \/ U.attack[x] \in Foes(U, x)
    BY DEF Rising
  <1>3. /\ U.heart[x] = TRUE => T.heart[x] = TRUE
        /\ U.attack[x] # None => T.attack[x] # None
        /\ T.attack[x] = U.attack[x] \/ T.heart[x] = TRUE
        /\ Foes(T, x) \subseteq Foes(U, x) \/ (T.heart[x] = TRUE /\ T.attack[x] # None)
        /\ Roomy => Foes(U, x) \subseteq Foes(T, x)
        /\ Roomy => T.attack[x] = U.attack[x] \/ T.attack[x] \in Foes(T, x)
    BY DEF Rising
  <1>4. QED
    BY <1>2, <1>3

\* One step of a fight that gets fiercer is that of one living, l.
LEMMA RisingOfOne ==
    ASSUME NEW S, NEW T, NEW l \in Livings, Fighting(S, T, l), T.heart[l] = TRUE,
           Roomy => Foes(S, l) \subseteq Foes(T, l),
           S.attack[l] # None => T.attack[l] # None,
           Foes(T, l) \subseteq Foes(S, l) \/ T.attack[l] # None,
           Roomy => T.attack[l] = S.attack[l] \/ T.attack[l] \in Foes(T, l)
    PROVE  Rising(S, T)
  <1>1. SUFFICES ASSUME NEW x \in Livings
        PROVE  /\ S.heart[x] = TRUE => T.heart[x] = TRUE
               /\ S.attack[x] # None => T.attack[x] # None
               /\ T.attack[x] = S.attack[x] \/ T.heart[x] = TRUE
               /\ Foes(T, x) \subseteq Foes(S, x) \/ (T.heart[x] = TRUE /\ T.attack[x] # None)
               /\ Roomy => Foes(S, x) \subseteq Foes(T, x)
               /\ Roomy => T.attack[x] = S.attack[x] \/ T.attack[x] \in Foes(T, x)
    BY DEF Rising, Fighting
  <1>2. CASE x = l
    BY <1>2
  <1>3. CASE x # l
    <2>1. /\ T.heart[x] = S.heart[x] /\ T.attack[x] = S.attack[x]
          /\ T.enemies[x] = S.enemies[x]
      BY <1>3 DEF Fighting
    <2>2. Foes(T, x) = Foes(S, x)
      BY <2>1 DEF Foes
    <2>3. QED
      BY <2>1, <2>2
  <1>4. QED
    BY <1>2, <1>3

LEMMA RestartedRises ==
    ASSUME NEW S, NEW T, NEW l \in Livings, Restarted(S, T, l)
    PROVE  Rising(S, T) /\ \A x \in Livings : Foes(T, x) = Foes(S, x) /\ T.attack[x] = S.attack[x]
  <1>1. Fighting(S, T, l) /\ T.heart[l] = TRUE /\ T.attack[l] = S.attack[l]
        /\ \A x \in Livings : Foes(T, x) = Foes(S, x)
    BY DEF Restarted, Foes
  <1>2. Rising(S, T)
    BY <1>1, RisingOfOne
  <1>3. QED
    BY <1>1, <1>2 DEF Fighting

LEMMA RousedRises ==
    ASSUME NEW S, NEW T, NEW l \in Livings, NEW o, Roused(S, T, l, o)
    PROVE  Rising(S, T)
  <1>1. /\ Fighting(S, T, l) /\ T.heart[l] = TRUE /\ T.attack[l] # None
        /\ T.attack[l] \in {S.attack[l], o}
        /\ Roomy => Foes(T, l) = Foes(S, l) \cup {o}
    BY DEF Roused, Added
  <1>2. /\ Roomy => Foes(S, l) \subseteq Foes(T, l)
        /\ Roomy => T.attack[l] = S.attack[l] \/ T.attack[l] \in Foes(T, l)
    BY <1>1
  <1>3. QED
    BY <1>1, <1>2, RisingOfOne

LEMMA TurnedRises ==
    ASSUME NEW S, NEW T, NEW l \in Livings, NEW v \in Livings, Turned(S, T, l, v)
    PROVE  Rising(S, T)
  <1>1. /\ Fighting(S, T, l) /\ T.heart[l] = TRUE /\ T.attack[l] # None
        /\ T.attack[l] \in Foes(T, l)
        /\ Roomy => Foes(S, l) \subseteq Foes(T, l)
    BY CombatAssumption DEF Turned, Added
  <1>2. QED
    BY <1>1, RisingOfOne

LEMMA EngagedRises ==
    ASSUME NEW S, NEW T, NEW l \in Livings, NEW v \in Livings \ {l}, Engaged(S, T, l, v)
    PROVE  Rising(S, T)
  <1>1. CASE Restarted(S, T, l)
    BY <1>1, RestartedRises
  <1>2. CASE \E U : Sane(U) /\ Turned(S, U, l, v) /\ Roused(U, T, v, l)
    <2>1. PICK U : Turned(S, U, l, v) /\ Roused(U, T, v, l)
      BY <1>2
    <2>2. Rising(S, U)
      BY <2>1, TurnedRises
    <2>3. Rising(U, T)
      BY <2>1, RousedRises
    <2>4. QED
      BY <2>2, <2>3, RisingTwice
  <1>3. QED
    BY <1>1, <1>2 DEF Engaged

\* Whoever has a new foe is a foe of that one.
Mutual(S, T) ==
    \A x, y \in Livings : y \in Foes(T, x) /\ y \notin Foes(S, x) => x \in Foes(T, y)

\* x and y do not fight each other.
Apart(S, x, y) ==
    y \notin Foes(S, x) /\ x \notin Foes(S, y) /\ S.attack[x] # y /\ S.attack[y] # x

\* A call that l, all of whose foes are in F, makes or others make because of it;
\* x and y are two who do not attack one another by it.
Fair(c, l, F, x, y) ==
    /\ c.by \in Livings /\ c.of \in Livings \ {c.by}
    /\ \/ c.fn = "combat_init"
       \/ c.fn = "cb_attack" /\ c.by = l /\ c.of \in F /\ {l, c.of} # {x, y}

Fiercer(S, T, l, F, x, y) ==
    /\ Sane(T) /\ Rising(S, T) /\ (Roomy => Mutual(S, T))
    /\ Foes(S, l) \subseteq F => Foes(T, l) \subseteq F
    /\ Apart(S, x, y) => Apart(T, x, y)

LEMMA FiercerTwice ==
    ASSUME NEW S, NEW U, NEW T, NEW l \in Livings, NEW F, NEW x \in Livings, NEW y \in Livings,
           Fiercer(S, U, l, F, x, y), Fiercer(U, T, l, F, x, y)
    PROVE  Fiercer(S, T, l, F, x, y)
  <1>1. Rising(S, T)
    BY RisingTwice DEF Fiercer
  <1>2. Roomy => Mutual(S, T)
    <2>1. SUFFICES ASSUME Roomy, NEW a \in Livings, NEW b \in Livings,
                          b \in Foes(T, a), b \notin Foes(S, a)
                   PROVE  a \in Foes(T, b)
      BY DEF Mutual
    <2>2. CASE b \in Foes(U, a)
      <3>1. a \in Foes(U, b)
        BY <2>1, <2>2 DEF Fiercer, Mutual
      <3>2. Foes(U, b) \subseteq Foes(T, b)
        BY <2>1 DEF Fiercer, Rising
      <3>3. QED
        BY <3>1, <3>2
    <2>3. CASE b \notin Foes(U, a)
      BY <2>1, <2>3 DEF Fiercer, Mutual
    <2>4. QED
      BY <2>2, <2>3
  <1>3. QED
    BY <1>1, <1>2 DEF Fiercer

LEMMA FiercerNot ==
    ASSUME NEW S, Sane(S), NEW l, NEW F, NEW x, NEW y
    PROVE  Fiercer(S, S, l, F, x, y)
  BY DEF Fiercer, Rising, Mutual

\* combat_init: two who fight each other already.
LEMMA RousedIsFiercer ==
    ASSUME NEW S, NEW T, Sane(S), Sane(T), NEW b \in Livings, NEW o \in Livings \ {b},
           o \in Foes(S, b), Roused(S, T, b, o),
           NEW l \in Livings, NEW F, NEW x \in Livings, NEW y \in Livings
    PROVE  Fiercer(S, T, l, F, x, y)
  <1>1. Rising(S, T)
    BY RousedRises
  <1>2. \A z \in Livings : Foes(T, z) \subseteq Foes(S, z)
    <2>1. \A z \in Livings \ {b} : Foes(T, z) = Foes(S, z)
      BY DEF Roused, Fighting, Foes
    <2>2. Foes(T, b) \subseteq Foes(S, b)
      BY DEF Roused, Added
    <2>3. QED
      BY <2>1, <2>2
  <1>3. Mutual(S, T)
    BY <1>2 DEF Mutual
  <1>4. Apart(S, x, y) => Apart(T, x, y)
    <2>1. \A z \in Livings : T.attack[z] = S.attack[z] \/ (z = b /\ T.attack[z] = o)
      BY DEF Roused, Fighting
    <2>2. SUFFICES ASSUME Apart(S, x, y) PROVE Apart(T, x, y)
      OBVIOUS
    <2>3. y \notin Foes(T, x) /\ x \notin Foes(T, y)
      BY <1>2, <2>2 DEF Apart
    <2>4. T.attack[x] # y /\ T.attack[y] # x
      BY <2>1, <2>2 DEF Apart
    <2>5. QED
      BY <2>3, <2>4 DEF Apart
  <1>5. QED
    BY <1>1, <1>2, <1>3, <1>4 DEF Fiercer

\* cb_attack of l.
LEMMA EngagedIsFiercer ==
    ASSUME NEW S, NEW T, Sane(S), Sane(T), NEW l \in Livings, NEW v \in Livings \ {l},
           Engaged(S, T, l, v), NEW F, v \in F,
           NEW x \in Livings, NEW y \in Livings, {l, v} # {x, y}
    PROVE  Fiercer(S, T, l, F, x, y)
  <1>1. Rising(S, T)
    BY EngagedRises
  <1>2. CASE Restarted(S, T, l)
    <2>1. \A z \in Livings : Foes(T, z) = Foes(S, z) /\ T.attack[z] = S.attack[z]
      BY <1>2, RestartedRises
    <2>2. Mutual(S, T)
      BY <2>1 DEF Mutual
    <2>3. Apart(S, x, y) => Apart(T, x, y)
      BY <2>1 DEF Apart
    <2>4. QED
      BY <1>1, <2>1, <2>2, <2>3 DEF Fiercer
  <1>3. CASE \E U : Sane(U) /\ Turned(S, U, l, v) /\ Roused(U, T, v, l)
    <2>1. PICK U : Turned(S, U, l, v) /\ Roused(U, T, v, l)
      BY <1>3
    <2>2. /\ \A z \in Livings \ {l, v} : Foes(T, z) = Foes(S, z) /\ T.attack[z] = S.attack[z]
          /\ Foes(T, l) = Foes(U, l) /\ T.attack[l] = U.attack[l]
          /\ Foes(U, v) = Foes(S, v) /\ U.attack[v] = S.attack[v]
      BY <2>1 DEF Turned, Roused, Fighting, Foes
    <2>3. /\ Foes(U, l) \subseteq Foes(S, l) \cup {v} /\ U.attack[l] = v /\ v \in Foes(U, l)
          /\ Foes(T, v) \subseteq Foes(U, v) \cup {l} /\ T.attack[v] \in {U.attack[v], l}
          /\ Roomy => Foes(T, v) = Foes(U, v) \cup {l}
      BY <2>1 DEF Turned, Roused, Added
    <2>4. Roomy => Mutual(S, T)
      <3>1. SUFFICES ASSUME Roomy, NEW a \in Livings, NEW b \in Livings,
                            b \in Foes(T, a), b \notin Foes(S, a)
                     PROVE  a \in Foes(T, b)
        BY DEF Mutual
      <3>2. (a = l /\ b = v) \/ (a = v /\ b = l)
        BY <2>2, <2>3, <3>1
      <3>3. l \in Foes(T, v) /\ v \in Foes(T, l)
        BY <2>2, <2>3, <3>1
      <3>4. QED
        BY <3>2, <3>3
    <2>5. Foes(S, l) \subseteq F => Foes(T, l) \subseteq F
      BY <2>2, <2>3
    <2>6. Apart(S, x, y) => Apart(T, x, y)
      <3>1. SUFFICES ASSUME Apart(S, x, y) PROVE Apart(T, x, y)
        OBVIOUS
      <3>2. ~(x = l /\ y = v) /\ ~(x = v /\ y = l)
        OBVIOUS
      <3>3. \A z \in Livings : T.attack[z] = S.attack[z] \/ (z = l /\ T.attack[z] = v)
                                                         \/ (z = v /\ T.attack[z] = l)
        BY <2>2, <2>3
      <3>4. \A z \in Livings : Foes(T, z) \subseteq Foes(S, z) \cup (IF z = l THEN {v} ELSE
                                                        IF z = v THEN {l} ELSE {})
        BY <2>2, <2>3
      <3>5. y \notin Foes(T, x) /\ x \notin Foes(T, y)
        BY <3>1, <3>2, <3>4 DEF Apart
      <3>6. T.attack[x] # y /\ T.attack[y] # x
        BY <3>1, <3>2, <3>3 DEF Apart
      <3>7. QED
        BY <3>5, <3>6 DEF Apart
    <2>7. QED
      BY <1>1, <2>4, <2>5, <2>6 DEF Fiercer
  <1>4. QED
    BY <1>2, <1>3 DEF Engaged

LEMMA CalledFacts ==
    ASSUME NEW S, Sane(S), NEW c, NEW l \in Livings, NEW F, NEW x \in Livings, NEW y \in Livings,
           Fair(c, l, F, x, y)
    PROVE  Fiercer(S, Called(S, c), l, F, x, y)
  <1> DEFINE b == c.by
             o == c.of
  <1>1. b \in Livings /\ o \in Livings \ {b}
    BY DEF Fair
  <1>2. CASE c.fn = "combat_init"
    <2>1. Called(S, c) = IF Hunts(S, b, o) THEN AttackedBy(S, b, o) ELSE S
      BY <1>2 DEF Called
    <2> HIDE DEF b, o
    <2>2. CASE Hunts(S, b, o)
      <3>1. Sane(AttackedBy(S, b, o)) /\ Roused(S, AttackedBy(S, b, o), b, o)
        BY <1>1, AttackedByFacts
      <3>2. o \in Foes(S, b)
        BY <2>2 DEF Hunts, Foes
      <3>3. QED
        BY <1>1, <2>1, <2>2, <3>1, <3>2, RousedIsFiercer
    <2>3. CASE ~Hunts(S, b, o)
      BY <2>1, <2>3, FiercerNot
    <2>4. QED
      BY <2>2, <2>3
  <1>3. CASE c.fn = "cb_attack" /\ c.by = l /\ c.of \in F /\ {l, c.of} # {x, y}
    <2>1. Called(S, c) = Attack(S, l, o)
      BY <1>3 DEF Called
    <2>2. o \in Livings \ {l} /\ o \in F /\ {l, o} # {x, y}
      BY <1>1, <1>3
    <2> HIDE DEF b, o
    <2>3. Sane(Attack(S, l, o)) /\ Engaged(S, Attack(S, l, o), l, o)
      BY <2>2, AttackFacts
    <2>4. QED
      BY <2>1, <2>2, <2>3, EngagedIsFiercer
  <1>4. QED
    BY <1>2, <1>3 DEF Fair

-----------------------------------------------------------------------------
(***************************************************************************)
(* Calls one after the other.                                              *)
(***************************************************************************)
Calling(g, S, cs, n) ==
    g = [i \in 0 .. n |-> IF i = 0 THEN S ELSE Called(g[i - 1], cs[i])]

LEMMA CallingNext ==
    ASSUME NEW S, NEW cs, NEW n \in Nat, NEW g, Calling(g, S, cs, n)
    PROVE  \E h : Calling(h, S, cs, n + 1)
  <1> DEFINE m == n + 1
             h == [i \in 0 .. m |-> IF i = 0 THEN S ELSE Called(g[i - 1], cs[i])]
  <1>1. m \in Nat /\ \A i \in 0 .. m : i = 0 \/ (i - 1 \in 0 .. n /\ i - 1 \in 0 .. m)
    OBVIOUS
  <1>2. \A i \in 0 .. n : i \in 0 .. m
    OBVIOUS
  <1>3. \A i \in 0 .. n : g[i] = h[i]
    BY <1>2 DEF Calling
  <1>4. h = [i \in 0 .. m |-> IF i = 0 THEN S ELSE Called(h[i - 1], cs[i])]
    BY <1>1, <1>3
  <1>5. QED
    BY <1>4 DEF Calling

LEMMA CallingExists ==
    ASSUME NEW S, NEW cs, NEW n \in Nat
    PROVE  \E g : Calling(g, S, cs, n)
  <1> DEFINE P(k) == \E g : Calling(g, S, cs, k)
             T == {k \in Nat : ~P(k)}
  <1>1. P(0)
    <2> DEFINE g == [i \in {0} |-> S]
    <2>1. 0 .. 0 = {0}
      OBVIOUS
    <2>2. Calling(g, S, cs, 0)
      BY <2>1 DEF Calling
    <2>3. QED
      BY <2>2
  <1>2. \A k \in Nat : P(k) => P(k + 1)
    BY CallingNext
  <1> HIDE DEF P
  <1>3. SUFFICES ASSUME T # {} PROVE FALSE
    BY DEF P
  <1>4. PICK k \in T : \A j \in T : k <= j
    <2>1. T \in SUBSET Nat
      OBVIOUS
    <2> HIDE DEF T
    <2>2. QED
      BY <1>3, <2>1, SmallestNumber
  <1>5. k \in Nat /\ k # 0 /\ ~P(k)
    BY <1>1, <1>4
  <1>6. k - 1 \in Nat /\ k - 1 \notin T /\ (k - 1) + 1 = k
    BY <1>4, <1>5
  <1>7. QED
    BY <1>2, <1>5, <1>6

\* The states between the calls.
Between(g, S, cs, n) ==
    g[0] = S /\ \A i \in 1 .. n : g[i] = Called(g[i - 1], cs[i])

LEMMA CallAllBetween ==
    ASSUME NEW S, NEW cs, Len(cs) \in Nat
    PROVE  \E g : Between(g, S, cs, Len(cs)) /\ CallAll(S, cs) = g[Len(cs)]
  <1> DEFINE n == Len(cs)
             g == CHOOSE h : Calling(h, S, cs, n)
  <1>1. CallAll(S, cs) = g[n]
    BY DEF CallAll, Calling
  <1>2. Calling(g, S, cs, n)
    BY CallingExists
  <1> HIDE DEF g, n
  <1>3. n \in Nat
    BY DEF n
  <1>4. g[0] = S
    BY <1>2, <1>3 DEF Calling
  <1>5. ASSUME NEW i \in 1 .. n PROVE g[i] = Called(g[i - 1], cs[i])
    <2>1. i \in 0 .. n /\ i # 0
      BY <1>3
    <2>2. QED
      BY <1>2, <2>1 DEF Calling
  <1>6. Between(g, S, cs, n)
    BY <1>4, <1>5 DEF Between
  <1>7. QED
    BY <1>1, <1>6 DEF n

\* A number from which something fails has a first one.
LEMMA FirstFailure ==
    ASSUME NEW n \in Nat, NEW T \in SUBSET (0 .. n), T # {}, 0 \notin T
    PROVE  \E i \in 1 .. n : i \in T /\ i - 1 \in 0 .. n /\ i - 1 \notin T
  <1>1. T \in SUBSET Nat
    OBVIOUS
  <1>2. PICK i \in T : \A j \in T : i <= j
    BY <1>1, SmallestNumber
  <1>3. i \in 1 .. n /\ i - 1 \in 0 .. n
    OBVIOUS
  <1>4. i - 1 \notin T
    BY <1>2, <1>3
  <1>5. QED
    BY <1>3, <1>4

\* Many calls are like one.
LEMMA CallAllFacts ==
    ASSUME NEW S, Sane(S), NEW cs, Len(cs) \in Nat,
           NEW l \in Livings, NEW F, NEW x \in Livings, NEW y \in Livings,
           \A i \in 1 .. Len(cs) : Fair(cs[i], l, F, x, y)
    PROVE  Fiercer(S, CallAll(S, cs), l, F, x, y)
  <1> DEFINE n == Len(cs)
  <1>1. PICK g : Between(g, S, cs, n) /\ CallAll(S, cs) = g[n]
    BY CallAllBetween
  <1> DEFINE Q(i) == Fiercer(S, g[i], l, F, x, y)
             T == {i \in 0 .. n : ~Q(i)}
  <1>2. n \in Nat /\ \A i \in 1 .. n : Fair(cs[i], l, F, x, y)
    OBVIOUS
  <1> HIDE DEF n
  <1>3. Q(0)
    <2>1. g[0] = S
      BY <1>1 DEF Between
    <2>2. Fiercer(S, S, l, F, x, y)
      BY FiercerNot
    <2>3. QED
      BY <2>1, <2>2
  <1>4. ASSUME NEW i \in 1 .. n, Q(i - 1) PROVE Q(i)
    <2> DEFINE U == g[i - 1]
               c == cs[i]
    <2>1. g[i] = Called(U, c) /\ Fair(c, l, F, x, y) /\ Fiercer(S, U, l, F, x, y)
      BY <1>1, <1>2, <1>4 DEF Between
    <2> HIDE DEF U, c
    <2>2. Sane(U)
      BY <2>1 DEF Fiercer
    <2>3. Fiercer(U, Called(U, c), l, F, x, y)
      BY <2>1, <2>2, CalledFacts
    <2>4. Fiercer(S, Called(U, c), l, F, x, y)
      BY <2>1, <2>3, FiercerTwice
    <2>5. QED
      BY <2>1, <2>4
  <1> HIDE DEF Q
  <1>5. T = {}
    <2>1. SUFFICES ASSUME T # {} PROVE FALSE
      OBVIOUS
    <2>2. T \in SUBSET (0 .. n) /\ 0 \notin T
      BY <1>3
    <2>3. PICK i \in 1 .. n : i \in T /\ i - 1 \in 0 .. n /\ i - 1 \notin T
      <3> HIDE DEF T
      <3>1. QED
        BY <1>2, <2>1, <2>2, FirstFailure
    <2>4. QED
      BY <1>4, <2>3
  <1>6. Q(n)
    BY <1>2, <1>5
  <1>7. QED
    BY <1>1, <1>6 DEF Q, n

LEMMA EachFacts ==
    ASSUME NEW X, NEW ls \in Seq(X), NEW fn, NEW m
    PROVE  /\ Len(ByEach(fn, ls, m)) = Len(ls) /\ Len(OfEach(fn, m, ls)) = Len(ls)
           /\ Len(ls) \in Nat
           /\ \A i \in 1 .. Len(ls) :
                /\ ls[i] \in X /\ ls[i] \in Range(ls)
                /\ ByEach(fn, ls, m)[i].fn = fn /\ ByEach(fn, ls, m)[i].by = ls[i]
                /\ ByEach(fn, ls, m)[i].of = m
                /\ OfEach(fn, m, ls)[i].fn = fn /\ OfEach(fn, m, ls)[i].by = m
                /\ OfEach(fn, m, ls)[i].of = ls[i]
  <1>1. Len(ls) \in Nat /\ DOMAIN ls = 1 .. Len(ls) /\ \A i \in 1 .. Len(ls) : ls[i] \in X
    BY LenProperties, ElementOfSeq
  <1> DEFINE n == Len(ls)
             b == [i \in 1 .. n |-> [fn |-> fn, by |-> ls[i], of |-> m]]
             o == [i \in 1 .. n |-> [fn |-> fn, by |-> m, of |-> ls[i]]]
  <1>2. ByEach(fn, ls, m) = b /\ OfEach(fn, m, ls) = o
    BY <1>1 DEF ByEach, OfEach
  <1>3. \A i \in 1 .. n : ls[i] \in Range(ls)
    BY <1>1 DEF Range
  <1> HIDE DEF n
  <1>4. n \in Nat /\ n = Len(ls)
    BY <1>1 DEF n
  <1>5. Len(b) = n /\ Len(o) = n
    BY <1>4
  <1>6. QED
    BY <1>1, <1>2, <1>3, <1>4, <1>5

LEMMA SetToSeqFacts ==
    ASSUME NEW X, IsFiniteSet(X)
    PROVE  SetToSeq(X) \in Seq(X)
  <1> DEFINE n == Cardinality(X)
  <1>1. n \in Nat /\ ExistsBijection(1 .. n, X)
    BY FS_CardinalityType
  <1>2. PICK f : f \in Bijection(1 .. n, X)
    BY <1>1 DEF ExistsBijection
  <1>3. f \in [1 .. n -> X] /\ IsInjective(f)
    BY <1>2 DEF Bijection, Injection
  <1>4. SetToSeq(X) \in [1 .. n -> X]
    BY <1>3 DEF SetToSeq
  <1> HIDE DEF n
  <1>5. QED
    BY <1>1, <1>4, SeqDef

LEMMA SetToSeqsFacts ==
    ASSUME NEW X, IsFiniteSet(X), NEW inv \in SetToSeqs(X)
    PROVE  inv \in Seq(X)
  <1> DEFINE n == Cardinality(X)
  <1>1. n \in Nat /\ inv \in [1 .. n -> X]
    BY FS_CardinalityType DEF SetToSeqs
  <1> HIDE DEF n
  <1>2. QED
    BY <1>1, SeqDef

LEMMA CombatInitFacts ==
    ASSUME NEW S, Sane(S), NEW m \in Livings, NEW ls \in SUBSET (Livings \ {m}),
           NEW l \in Livings, NEW F, NEW x \in Livings, NEW y \in Livings
    PROVE  Fiercer(S, CombatInit(S, ls, m), l, F, x, y)
  <1> DEFINE q == SetToSeq(ls)
             fn == "combat_init"
             cs == ByEach(fn, q, m)
  <1>1. IsFiniteSet(ls)
    <2>1. ls \subseteq Livings
      OBVIOUS
    <2>2. QED
      BY <2>1, CombatAssumption, FS_Subset
  <1>2. q \in Seq(ls)
    BY <1>1, SetToSeqFacts
  <1>3. CombatInit(S, ls, m) = CallAll(S, cs)
    BY DEF CombatInit
  <1> HIDE DEF q, fn
  <1>4. /\ Len(cs) = Len(q) /\ Len(q) \in Nat
        /\ \A i \in 1 .. Len(q) : /\ q[i] \in ls /\ cs[i].fn = fn
                                  /\ cs[i].by = q[i] /\ cs[i].of = m
    BY <1>2, EachFacts
  <1> HIDE DEF cs
  <1>5. \A i \in 1 .. Len(cs) : Fair(cs[i], l, F, x, y)
    BY <1>4 DEF Fair, fn
  <1>6. Fiercer(S, CallAll(S, cs), l, F, x, y)
    BY <1>4, <1>5, CallAllFacts
  <1>7. QED
    BY <1>3, <1>6

\* l comes into a room.
Arrived(S, T, l) ==
    /\ Sane(T) /\ Rising(S, T) /\ (Roomy => Mutual(S, T))
    /\ Foes(T, l) \subseteq Foes(S, l)
    /\ \A x, y \in Livings : Apart(S, x, y) => Apart(T, x, y)

LEMMA ArriveFacts ==
    ASSUME NEW S, Sane(S), NEW l \in Livings, NEW inv \in Seq(Livings \ {l}), NEW sees,
           NEW seen \in SUBSET (Livings \ {l})
    PROVE  Arrived(S, Arrive(S, l, inv, sees, seen), l)
  <1> DEFINE X == Livings \ {l}
             F == Foes(S, l)
             I == CombatInit(S, seen, l)
             q == Without(inv, Livings \ sees)
             J == CallAll(I, OfEach("combat_init", l, q))
             K == Without(inv, Livings \ (sees \cap Range(J.enemies[l])))
             T == CallAll(J, OfEach("cb_attack", l, K))
  <1>1. Arrive(S, l, inv, sees, seen) = T
    BY DEF Arrive
  <1>2. ASSUME NEW x \in Livings, NEW y \in Livings
        PROVE  Fiercer(S, J, l, F, x, y)
    <2>1. Fiercer(S, I, l, F, x, y)
      <3> HIDE DEF F
      <3>1. QED
        BY CombatInitFacts
    <2> DEFINE fn == "combat_init"
               cs == OfEach(fn, l, q)
    <2>2. J = CallAll(I, cs)
      OBVIOUS
    <2>3. q \in Seq(X)
      <3> HIDE DEF X
      <3>1. inv \in Seq(X)
        BY DEF X
      <3>2. QED
        BY <3>1, WithoutFacts
    <2> HIDE DEF I, F, q, fn, J, X
    <2>4. /\ Len(cs) = Len(q) /\ Len(q) \in Nat
          /\ \A i \in 1 .. Len(q) : /\ q[i] \in X /\ cs[i].fn = fn
                                    /\ cs[i].by = l /\ cs[i].of = q[i]
      BY <2>3, EachFacts
    <2> HIDE DEF cs
    <2>5. \A i \in 1 .. Len(cs) : Fair(cs[i], l, F, x, y)
      BY <2>4 DEF Fair, fn, X
    <2>6. Sane(I) /\ Len(cs) \in Nat
      BY <2>1, <2>4 DEF Fiercer
    <2>7. Fiercer(I, CallAll(I, cs), l, F, x, y)
      BY <2>5, <2>6, CallAllFacts
    <2>8. Fiercer(I, J, l, F, x, y)
      BY <2>2, <2>7
    <2>9. QED
      BY <2>1, <2>8, FiercerTwice
  <1>3. K \in Seq(X) /\ Range(K) \subseteq Foes(J, l)
    <2> DEFINE es == Livings \ (sees \cap Range(J.enemies[l]))
    <2>1. inv \in Seq(X) /\ \A z \in Range(inv) : z \in Livings
      BY RangeOfSeq
    <2>2. K = Without(inv, es)
      OBVIOUS
    <2> HIDE DEF X, J, K
    <2>3. Without(inv, es) \in Seq(X) /\ Range(Without(inv, es)) = Range(inv) \ es
      <3> HIDE DEF es
      <3>1. QED
        BY <2>1, WithoutFacts
    <2>4. QED
      BY <2>1, <2>2, <2>3 DEF Foes
  <1>4. Sane(J) /\ Foes(J, l) \subseteq F
    <2>1. Fiercer(S, J, l, F, l, l)
      BY <1>2
    <2> HIDE DEF J
    <2>2. QED
      BY <2>1 DEF Fiercer
  <1>5. ASSUME NEW x \in Livings, NEW y \in Livings, Apart(J, x, y) \/ x = y
        PROVE  Fiercer(J, T, l, F, x, y)
    <2> DEFINE fn == "cb_attack"
               cs == OfEach(fn, l, K)
    <2>1. T = CallAll(J, cs)
      OBVIOUS
    <2> HIDE DEF F, K, fn, J, X, T
    <2>2. /\ Len(cs) = Len(K) /\ Len(K) \in Nat
          /\ \A i \in 1 .. Len(K) : /\ K[i] \in X /\ K[i] \in Range(K) /\ cs[i].fn = fn
                                    /\ cs[i].by = l /\ cs[i].of = K[i]
      BY <1>3, EachFacts
    <2> HIDE DEF cs
    <2>3. ASSUME NEW w \in X, w \in Foes(J, l) PROVE {l, w} # {x, y}
      <3>1. CASE x = y
        BY <3>1 DEF X
      <3>2. CASE Apart(J, x, y)
        <4>1. ~(x = l /\ y = w) /\ ~(x = w /\ y = l)
          BY <2>3, <3>2 DEF Apart
        <4>2. QED
          BY <4>1 DEF X
      <3>3. QED
        BY <1>5, <3>1, <3>2
    <2>4. \A i \in 1 .. Len(cs) : Fair(cs[i], l, F, x, y)
      <3>1. SUFFICES ASSUME NEW i \in 1 .. Len(cs) PROVE Fair(cs[i], l, F, x, y)
        OBVIOUS
      <3>2. /\ K[i] \in X /\ K[i] \in Foes(J, l) /\ cs[i].fn = fn
            /\ cs[i].by = l /\ cs[i].of = K[i]
        BY <1>3, <2>2
      <3>3. K[i] \in F /\ {l, K[i]} # {x, y} /\ l \in Livings /\ K[i] \in Livings \ {l}
        BY <1>4, <2>3, <3>2 DEF X
      <3>4. QED
        BY <3>2, <3>3 DEF Fair, fn
    <2>5. Fiercer(J, CallAll(J, cs), l, F, x, y)
      BY <1>4, <2>2, <2>4, CallAllFacts
    <2>6. QED
      BY <2>1, <2>5
  <1> HIDE DEF F, J, T
  <1>6. Fiercer(S, T, l, F, l, l)
    <2>1. Fiercer(S, J, l, F, l, l) /\ Fiercer(J, T, l, F, l, l)
      BY <1>2, <1>5
    <2>2. QED
      BY <2>1, FiercerTwice
  <1>7. ASSUME NEW x \in Livings, NEW y \in Livings, Apart(S, x, y) PROVE Apart(T, x, y)
    <2>1. Apart(J, x, y)
      BY <1>2, <1>7 DEF Fiercer
    <2>2. QED
      BY <1>5, <2>1 DEF Fiercer
  <1>8. Arrived(S, T, l)
    BY <1>6, <1>7 DEF Fiercer, Arrived, F
  <1>9. QED
    BY <1>1, <1>8

-----------------------------------------------------------------------------
(***************************************************************************)
(* What every step keeps, and what it may do.                              *)
(***************************************************************************)
Aimed(S, x) == S.attack[x] # None => S.attack[x] \in Foes(S, x)
Places(S) == \A x \in Livings : x \in S.ghost <=> S.env[x] = Hospital

\* The inductive invariant.
Fit(S) == Sane(S) /\ Places(S) /\ (Roomy => \A x \in Livings : Aimed(S, x))

Idling(S, x) == S.attack[x] # None /\ S.heart[x] # TRUE

\* Who has a new foe fights.
Answered(S, T) ==
    \A x \in Livings : Foes(T, x) \subseteq Foes(S, x) \/ (T.heart[x] = TRUE /\ T.attack[x] # None)

\* Nobody idles who did not.
Awake(S, T) == \A x \in Livings : Idling(T, x) => Idling(S, x)

\* Nobody does unless it was asleep and nobody went anywhere.
Settled(S, T) ==
    \A x \in Livings : Idling(T, x) /\ ~Idling(S, x) => S.heart[x] # TRUE /\ T.env = S.env

\* Those who end a bout and live do not fight each other.
Over(S, T) ==
    \A x, y \in Livings :
        /\ y \in S.sparring[x] /\ y \notin T.sparring[x] /\ T.env[x] # None /\ T.env[y] # None
        => Apart(T, x, y)

\* Two who stay where they are become foes of each other, or stop to be that.
Reciprocal(S, T) ==
    \A x, y \in Livings :
        T.env[x] = S.env[x] /\ T.env[y] = S.env[y] =>
          /\ y \in Foes(T, x) /\ y \notin Foes(S, x) => x \in Foes(T, y)
          /\ y \in Foes(S, x) /\ y \notin Foes(T, x) =>
               x \notin Foes(T, y) \/ Foes(T, x) \cap Others(S, x) = {}

\* Nobody turned its back on anybody: all is mutual.
Agreed(S, T) ==
    \A x, y \in Livings :
        T.env[x] = S.env[x] /\ T.env[y] = S.env[y] =>
          /\ y \in Foes(T, x) /\ y \notin Foes(S, x) => x \in Foes(T, y)
          /\ y \in Foes(S, x) /\ y \notin Foes(T, x) => x \notin Foes(T, y)

LEMMA AgreedFacts ==
    ASSUME NEW S, NEW T, Agreed(S, T)
    PROVE  Reciprocal(S, T)
  BY DEF Agreed, Reciprocal

Good(S, T) ==
    /\ Fit(T) /\ Answered(S, T) /\ Settled(S, T) /\ Over(S, T)
    /\ Roomy => Reciprocal(S, T)

\* Attacks.
LEMMA RisingIsGood ==
    ASSUME NEW S, Fit(S), NEW T, Sane(T), Rising(S, T), Roomy => Mutual(S, T)
    PROVE  Good(S, T)
  <1>1. Fit(T)
    <2>1. Places(T)
      BY DEF Fit, Places, Rising
    <2>2. ASSUME Roomy, NEW x \in Livings PROVE Aimed(T, x)
      BY <2>2 DEF Fit, Aimed, Rising
    <2>3. QED
      BY <2>1, <2>2 DEF Fit
  <1>2. Answered(S, T)
    BY DEF Answered, Rising
  <1>3. Settled(S, T)
    BY DEF Settled, Idling, Rising
  <1>4. Over(S, T)
    BY DEF Over, Rising
  <1>5. Roomy => Reciprocal(S, T)
    <2>1. SUFFICES ASSUME Roomy PROVE Reciprocal(S, T)
      OBVIOUS
    <2>2. Mutual(S, T) /\ \A x \in Livings : Foes(S, x) \subseteq Foes(T, x)
      BY <2>1 DEF Rising
    <2>3. QED
      BY <2>2 DEF Reciprocal, Mutual
  <1>6. QED
    BY <1>1, <1>2, <1>3, <1>4, <1>5 DEF Good

\* Steps that are about other things than fights.
LEMMA UnfoughtIsGood ==
    ASSUME NEW S, Fit(S), NEW T, T \in States, Unfought(S, T),
           \A x \in Livings : S.sparring[x] \subseteq T.sparring[x]
    PROVE  Good(S, T)
  <1>1. \A x \in Livings : Foes(T, x) = Foes(S, x)
    BY DEF Unfought, Foes
  <1>2. T.env = S.env /\ T.ghost = S.ghost /\ T.attack = S.attack /\ T.heart = S.heart
        /\ T.enemies = S.enemies
    BY DEF Unfought
  <1>3. Fit(T)
    <2>1. Sane(T)
      BY <1>2 DEF Fit, Sane
    <2>2. QED
      BY <1>1, <1>2, <2>1 DEF Fit, Places, Aimed
  <1>4. Answered(S, T) /\ Settled(S, T) /\ Reciprocal(S, T)
    BY <1>1, <1>2 DEF Answered, Settled, Idling, Reciprocal
  <1>5. Over(S, T)
    BY DEF Over
  <1>6. QED
    BY <1>3, <1>4, <1>5 DEF Good

\* l turns its back on those in the room.
Departed(S, T, l) ==
    /\ Answered(S, T) /\ Awake(S, T) /\ (Places(S) => Places(T))
    /\ \A x \in Livings : Foes(T, x) \subseteq Foes(S, x)
    /\ \A x \in Livings \ {l} : Foes(T, x) = Foes(S, x) /\ T.attack[x] = S.attack[x]
    /\ \A x \in Livings : Aimed(S, x) => Aimed(T, x)
    /\ \A x \in Livings : T.attack[x] = S.attack[x] \/ T.attack[x] = None
    /\ \A x \in Livings : S.heart[x] = TRUE => T.heart[x] = TRUE

LEMMA LeftFacts ==
    ASSUME NEW S, NEW l \in Livings, NEW T, Left(S, T, l)
    PROVE  Departed(S, T, l)
  <1>1. /\ T.env = S.env /\ T.ghost = S.ghost
        /\ \A x \in Livings \ {l} : Foes(T, x) = Foes(S, x) /\ T.attack[x] = S.attack[x]
                                    /\ T.heart[x] = S.heart[x]
    BY DEF Left, Fighting, Foes
  <1>2. /\ Foes(T, l) = Foes(S, l) \ Others(S, l) /\ T.heart[l] = S.heart[l]
        /\ T.attack[l] = IF S.attack[l] \in Foes(S, l) \cap Others(S, l) THEN None ELSE S.attack[l]
    BY DEF Left
  <1>3. Places(S) => Places(T)
    BY <1>1 DEF Places
  <1>4. ASSUME NEW x \in Livings, Aimed(S, x) PROVE Aimed(T, x)
    BY <1>1, <1>2, <1>4 DEF Aimed
  <1>5. \A x \in Livings : Foes(T, x) \subseteq Foes(S, x)
    BY <1>1, <1>2
  <1>6. \A x \in Livings : T.attack[x] = S.attack[x] \/ T.attack[x] = None
    BY <1>1, <1>2
  <1>7. Awake(S, T)
    BY <1>1, <1>2 DEF Awake, Idling
  <1>8. \A x \in Livings : S.heart[x] = TRUE => T.heart[x] = TRUE
    BY <1>1, <1>2
  <1>9. QED
    BY <1>1, <1>3, <1>4, <1>5, <1>6, <1>7, <1>8 DEF Answered, Departed

LEMMA LeftIsGood ==
    ASSUME NEW S, Fit(S), NEW l \in Livings, NEW T, Sane(T), Left(S, T, l)
    PROVE  Good(S, T)
  <1>1. Departed(S, T, l)
    BY LeftFacts
  <1>2. /\ Answered(S, T) /\ Awake(S, T) /\ (Places(S) => Places(T))
        /\ \A x \in Livings : Foes(T, x) \subseteq Foes(S, x)
        /\ \A x \in Livings \ {l} : Foes(T, x) = Foes(S, x) /\ T.attack[x] = S.attack[x]
        /\ \A x \in Livings : Aimed(S, x) => Aimed(T, x)
    BY <1>1 DEF Departed
  <1>3. Foes(T, l) \cap Others(S, l) = {} /\ T.sparring = S.sparring
    BY DEF Left, Fighting
  <1>4. Settled(S, T)
    BY <1>2 DEF Awake, Settled
  <1>5. Over(S, T)
    BY <1>3 DEF Over
  <1>6. Reciprocal(S, T)
    BY <1>2, <1>3 DEF Reciprocal
  <1>7. Fit(T)
    BY <1>2 DEF Fit
  <1>8. QED
    BY <1>2, <1>4, <1>5, <1>6, <1>7 DEF Good

\* Everybody attacks a foe, but l perhaps a ghost.
Flying(S, l) ==
    /\ Sane(S) /\ Places(S)
    /\ Roomy => \A x \in Livings : Aimed(S, x) \/ (x = l /\ S.attack[x] \in S.ghost)

\* l has gone to r.
Went(S, T, l, r) ==
    /\ T.env[l] = r /\ \A x \in Livings \ {l} : T.env[x] = S.env[x]
    /\ T.ghost = S.ghost /\ T.sparring = S.sparring
    /\ Answered(S, T) /\ Awake(S, T)
    /\ Foes(T, l) \subseteq Foes(S, l)
    /\ \A x \in Livings : S.heart[x] = TRUE => T.heart[x] = TRUE
    /\ \A x \in Livings \ {l} : S.attack[x] # None => T.attack[x] # None
    /\ \A x, y \in Livings : Apart(S, x, y) => Apart(T, x, y)
    /\ Roomy => /\ \A x \in Livings : Aimed(S, x) => Aimed(T, x)
                /\ \A x \in Livings \ {l} : Foes(S, x) \subseteq Foes(T, x)
                /\ Mutual(S, T)

LEMMA MovedFacts ==
    ASSUME NEW S, NEW l \in Livings, Flying(S, l), l \notin S.ghost, NEW r \in Rooms,
           NEW inv \in Seq(Livings \ {l}), NEW sees, NEW seen \in SUBSET (Livings \ {l})
    PROVE  LET T == Moved(S, l, r, inv, sees, seen)
           IN Flying(T, l) /\ Went(S, T, l, r)
  <1> DEFINE L == LeaveFight(S, l)
             E == [L EXCEPT !.env[l] = r]
             T == Arrive(E, l, inv, sees, seen)
  <1>1. Moved(S, l, r, inv, sees, seen) = T
    BY DEF Moved
  <1>2. Sane(L) /\ Left(S, L, l) /\ Sane(S)
    BY LeaveFightFacts DEF Flying
  <1> HIDE DEF L
  <1>3. /\ Answered(S, L) /\ Awake(S, L) /\ (Places(S) => Places(L))
        /\ \A x \in Livings : Foes(L, x) \subseteq Foes(S, x)
        /\ \A x \in Livings \ {l} : Foes(L, x) = Foes(S, x) /\ L.attack[x] = S.attack[x]
        /\ \A x \in Livings : Aimed(S, x) => Aimed(L, x)
        /\ \A x \in Livings : L.attack[x] = S.attack[x] \/ L.attack[x] = None
        /\ \A x \in Livings : S.heart[x] = TRUE => L.heart[x] = TRUE
    <2>1. Departed(S, L, l)
      BY <1>2, LeftFacts
    <2>2. QED
      BY <2>1 DEF Departed
  <1>4. L \in States /\ L.env \in [Livings -> Rooms \cup {Hospital, None}]
    BY <1>2 DEF Sane, States
  <1>5. /\ E \in States /\ E.env = [L.env EXCEPT ![l] = r] /\ E.ghost = L.ghost
        /\ E.enemies = L.enemies /\ E.attack = L.attack /\ E.heart = L.heart
        /\ E.sparring = L.sparring
    BY <1>4 DEF States
  <1>6. L.env = S.env /\ L.ghost = S.ghost /\ L.sparring = S.sparring
    BY <1>2 DEF Left, Fighting
  <1> HIDE DEF E
  <1>7. E.env[l] = r /\ \A x \in Livings \ {l} : E.env[x] = S.env[x]
    BY <1>4, <1>5, <1>6
  <1>8. Sane(E)
    BY <1>2, <1>5 DEF Sane
  <1>9. Arrived(E, T, l)
    BY <1>8, ArriveFacts
  <1> HIDE DEF T
  <1>10. /\ \A x \in Livings : Foes(E, x) = Foes(L, x)
         /\ \A x \in Livings : Foes(E, x) \subseteq Foes(S, x)
         /\ \A x \in Livings \ {l} : Foes(E, x) = Foes(S, x)
    BY <1>3, <1>5 DEF Foes
  <1>11. /\ Sane(T) /\ Rising(E, T) /\ (Roomy => Mutual(E, T)) /\ Foes(T, l) \subseteq Foes(E, l)
         /\ \A x, y \in Livings : Apart(E, x, y) => Apart(T, x, y)
    BY <1>9 DEF Arrived
  <1>12. T.env = E.env /\ T.ghost = S.ghost /\ T.sparring = S.sparring
    BY <1>5, <1>6, <1>11 DEF Rising
  <1>13. Answered(S, T)
    BY <1>10, <1>11 DEF Rising, Answered
  <1>14. Awake(S, T)
    <2>1. \A x \in Livings : Idling(T, x) => Idling(E, x)
      BY <1>11 DEF Rising, Idling
    <2>2. \A x \in Livings : Idling(E, x) => Idling(L, x)
      BY <1>5 DEF Idling
    <2>3. QED
      BY <1>3, <2>1, <2>2 DEF Awake
  <1>15. \A x \in Livings : S.heart[x] = TRUE => T.heart[x] = TRUE
    BY <1>3, <1>5, <1>11 DEF Rising
  <1>16. ASSUME NEW x \in Livings, NEW y \in Livings, Apart(S, x, y) PROVE Apart(T, x, y)
    <2>1. L.attack[x] # y /\ L.attack[y] # x
      BY <1>3, <1>16, CombatAssumption DEF Apart
    <2>2. Apart(E, x, y)
      BY <1>5, <1>10, <1>16, <2>1 DEF Apart
    <2>3. QED
      BY <1>11, <2>2
  <1>17. ASSUME Roomy
         PROVE  /\ \A x \in Livings : Aimed(S, x) => Aimed(T, x)
                /\ \A x \in Livings \ {l} : Foes(S, x) \subseteq Foes(T, x)
                /\ Mutual(S, T)
    <2>1. \A x \in Livings : /\ Foes(E, x) \subseteq Foes(T, x)
                             /\ T.attack[x] = E.attack[x] \/ T.attack[x] \in Foes(T, x)
      BY <1>11, <1>17 DEF Rising
    <2>2. ASSUME NEW x \in Livings, Aimed(S, x) PROVE Aimed(T, x)
      <3>1. Aimed(L, x)
        BY <1>3, <2>2
      <3>2. Aimed(E, x)
        BY <1>5, <1>10, <3>1 DEF Aimed
      <3>3. QED
        BY <2>1, <3>2 DEF Aimed
    <2>3. \A x \in Livings \ {l} : Foes(S, x) \subseteq Foes(T, x)
      BY <1>10, <2>1
    <2>4. Mutual(S, T)
      BY <1>10, <1>11, <1>17 DEF Mutual
    <2>5. QED
      BY <2>2, <2>3, <2>4
  <1>18. Went(S, T, l, r)
    <2>1. Foes(T, l) \subseteq Foes(S, l)
      BY <1>10, <1>11
    <2>2. \A x \in Livings \ {l} : S.attack[x] # None => T.attack[x] # None
      BY <1>3, <1>5, <1>11 DEF Rising
    <2>3. QED
      BY <1>7, <1>12, <1>13, <1>14, <1>15, <1>16, <1>17, <2>1, <2>2 DEF Went
  <1>19. Flying(T, l)
    <2>1. Places(T)
      <3>1. r # Hospital
        BY CombatAssumption
      <3>2. QED
        BY <1>7, <1>12, <3>1 DEF Flying, Places
    <2>2. ASSUME Roomy, NEW x \in Livings
          PROVE  Aimed(T, x) \/ (x = l /\ T.attack[x] \in T.ghost)
      <3>1. CASE Aimed(S, x)
        BY <1>17, <2>2, <3>1
      <3>2. CASE x = l /\ S.attack[x] \in S.ghost
        <4>1. T.attack[x] \in {S.attack[x], None} \/ T.attack[x] \in Foes(T, x)
          BY <1>3, <1>5, <1>11, <2>2 DEF Rising
        <4>2. QED
          BY <1>12, <3>2, <4>1 DEF Aimed
      <3>3. QED
        BY <2>2, <3>1, <3>2 DEF Flying
    <2>3. QED
      BY <1>11, <2>1, <2>2 DEF Flying
  <1>20. QED
    BY <1>1, <1>18, <1>19

LEMMA WentIsGood ==
    ASSUME NEW S, Fit(S), NEW l \in Livings, NEW r \in Rooms, S.env[l] # r,
           NEW T, Flying(T, l), Went(S, T, l, r)
    PROVE  Good(S, T)
  <1>1. Fit(T)
    BY DEF Fit, Flying, Went
  <1>2. Settled(S, T)
    BY DEF Went, Awake, Settled
  <1>3. Over(S, T)
    BY DEF Went, Over
  <1>4. Roomy => Reciprocal(S, T)
    <2>1. SUFFICES ASSUME Roomy, NEW x \in Livings, NEW y \in Livings,
                          T.env[x] = S.env[x], T.env[y] = S.env[y]
                   PROVE  /\ y \in Foes(T, x) /\ y \notin Foes(S, x) => x \in Foes(T, y)
                          /\ ~(y \in Foes(S, x) /\ y \notin Foes(T, x))
      BY DEF Reciprocal
    <2>2. x # l /\ Mutual(S, T) /\ Foes(S, x) \subseteq Foes(T, x)
      BY <2>1 DEF Went
    <2>3. QED
      BY <2>1, <2>2 DEF Mutual
  <1>5. QED
    BY <1>1, <1>2, <1>3, <1>4 DEF Good, Went

\* The dead are in nobody's way.
LEMMA BuryingFacts ==
    ASSUME NEW S, NEW v \in Livings, NEW T, Buried(S, T, v)
    PROVE  /\ Answered(S, T) /\ Awake(S, T) /\ Over(S, T) /\ (Places(S) => Places(T))
           /\ v \notin S.ghost /\ Places(S) => Agreed(S, T)
           /\ \A x \in Livings : Aimed(S, x) => Aimed(T, x)
  <1>1. /\ T.ghost = S.ghost \cup {v} /\ T.sparring = S.sparring
        /\ T.env[v] = Hospital /\ \A m \in Livings \ {v} : T.env[m] = S.env[m]
        /\ Foes(T, v) = {} /\ T.attack[v] = None
        /\ \A m \in Livings \ {v} : /\ Foes(T, m) = Foes(S, m) /\ T.attack[m] = S.attack[m]
                                    /\ T.heart[m] = S.heart[m]
    BY DEF Buried
  <1>2. Answered(S, T)
    BY <1>1 DEF Answered
  <1>3. Awake(S, T)
    BY <1>1 DEF Awake, Idling
  <1>4. Over(S, T)
    BY <1>1 DEF Over
  <1>5. Places(S) => Places(T)
    BY <1>1 DEF Places
  <1>6. ASSUME v \notin S.ghost, Places(S) PROVE Agreed(S, T)
    <2>1. T.env[v] # S.env[v]
      BY <1>1, <1>6 DEF Places
    <2>2. QED
      BY <1>1, <2>1 DEF Agreed
  <1>7. \A x \in Livings : Aimed(S, x) => Aimed(T, x)
    BY <1>1 DEF Aimed
  <1>8. QED
    BY <1>2, <1>3, <1>4, <1>5, <1>6, <1>7

LEMMA GoneFacts ==
    ASSUME NEW S, NEW v \in Livings, NEW T, Gone(S, T, v)
    PROVE  /\ Answered(S, T) /\ Awake(S, T) /\ Over(S, T) /\ Agreed(S, T)
           /\ Places(S) => Places(T)
           /\ \A x \in Livings : Aimed(S, x) => Aimed(T, x)
  <1>1. /\ T.env[v] = None /\ T.ghost = S.ghost \ {v}
        /\ Foes(T, v) = {} /\ T.attack[v] = None
        /\ \A m \in Livings \ {v} :
             /\ T.env[m] = S.env[m] /\ T.heart[m] = S.heart[m]
             /\ Foes(T, m) = Foes(S, m) \ {v} /\ T.sparring[m] = S.sparring[m] \ {v}
             /\ T.attack[m] = IF S.attack[m] = v THEN None ELSE S.attack[m]
    BY DEF Gone
  <1>2. \A x \in Livings : Foes(T, x) \subseteq Foes(S, x)
    BY <1>1
  <1>3. Awake(S, T)
    <2>1. SUFFICES ASSUME NEW x \in Livings, Idling(T, x) PROVE Idling(S, x)
      BY DEF Awake
    <2>2. x # v
      BY <1>1, <2>1 DEF Idling
    <2>3. T.heart[x] = S.heart[x] /\ T.attack[x] = S.attack[x]
      BY <1>1, <2>1, <2>2 DEF Idling
    <2>4. QED
      BY <2>1, <2>3 DEF Idling
  <1>4. Over(S, T)
    BY <1>1 DEF Over
  <1>5. Places(S) => Places(T)
    <2>1. None # Hospital
      BY CombatAssumption
    <2>2. QED
      BY <1>1, <2>1 DEF Places
  <1>6. Agreed(S, T)
    <2>1. SUFFICES ASSUME NEW x \in Livings, NEW y \in Livings,
                          y \in Foes(S, x), y \notin Foes(T, x)
                   PROVE  x \notin Foes(T, y)
      BY <1>2 DEF Agreed
    <2>2. x = v \/ y = v
      BY <1>1, <2>1
    <2>3. QED
      BY <1>1, <2>2
  <1>7. \A x \in Livings : Aimed(S, x) => Aimed(T, x)
    <2>1. SUFFICES ASSUME NEW x \in Livings, Aimed(S, x), T.attack[x] # None
                   PROVE  T.attack[x] \in Foes(T, x)
      BY DEF Aimed
    <2>2. x # v /\ T.attack[x] = S.attack[x] /\ S.attack[x] # v
      BY <1>1, <2>1
    <2>3. QED
      BY <1>1, <2>1, <2>2 DEF Aimed
  <1>8. QED
    BY <1>2, <1>3, <1>4, <1>5, <1>6, <1>7 DEF Answered

\* A living dies of itself.
LEMMA DieIsGood ==
    ASSUME NEW S, Fit(S), NEW v \in Livings, v \notin S.ghost
    PROVE  Good(S, DoDie(S, v, None))
  <1> DEFINE T == DoDie(S, v, None)
  <1>1. Sane(S)
    BY DEF Fit
  <1>2. None \notin S.sparring[v]
    BY <1>1, CombatAssumption DEF Sane, States
  <1>3. Sane(T) /\ (Buried(S, T, v) \/ Gone(S, T, v))
    <2>1. ~Parted(S, T, v, None)
      BY <1>2 DEF Parted
    <2>2. Sane(T) /\ (Parted(S, T, v, None) \/ Buried(S, T, v) \/ Gone(S, T, v))
      BY <1>1, DoDieFacts, Zenon
    <2>3. QED
      BY <2>1, <2>2
  <1> HIDE DEF T
  <1>4. /\ Answered(S, T) /\ Awake(S, T) /\ Over(S, T) /\ Agreed(S, T) /\ Places(T)
        /\ \A x \in Livings : Aimed(S, x) => Aimed(T, x)
    <2>1. CASE Buried(S, T, v)
      BY <2>1, BuryingFacts DEF Fit
    <2>2. CASE Gone(S, T, v)
      BY <2>2, GoneFacts DEF Fit
    <2>3. QED
      BY <1>3, <2>1, <2>2
  <1>5. Settled(S, T)
    BY <1>4 DEF Settled, Awake
  <1>6. Fit(T)
    BY <1>3, <1>4 DEF Fit
  <1>7. Good(S, T)
    BY <1>4, <1>5, <1>6, AgreedFacts DEF Good
  <1>8. QED
    BY <1>7 DEF T

\* A body is destructed.
LEMMA DestructIsGood ==
    ASSUME NEW S, Fit(S), NEW v \in Livings
    PROVE  Good(S, Destruct(S, v))
  <1> DEFINE T == Destruct(S, v)
  <1>1. Sane(T) /\ Gone(S, T, v)
    BY DestructFacts DEF Fit
  <1> HIDE DEF T
  <1>2. /\ Answered(S, T) /\ Awake(S, T) /\ Over(S, T) /\ Agreed(S, T)
        /\ Places(S) => Places(T)
        /\ \A x \in Livings : Aimed(S, x) => Aimed(T, x)
    BY <1>1, GoneFacts
  <1>3. Settled(S, T)
    BY <1>2 DEF Settled, Awake
  <1>4. Fit(T)
    BY <1>1, <1>2 DEF Fit
  <1>5. Good(S, T)
    BY <1>2, <1>3, <1>4, AgreedFacts DEF Good
  <1>6. QED
    BY <1>5 DEF T

-----------------------------------------------------------------------------
(***************************************************************************)
(* Peace.                                                                  *)
(***************************************************************************)
\* l forgets es, and whatever it does then, it does not attack one of them.
LEMMA CeasedFacts ==
    ASSUME NEW S, NEW l \in Livings, NEW T, NEW es, Ceased(S, T, l, es)
    PROVE  /\ T.env = S.env /\ T.ghost = S.ghost /\ T.sparring = S.sparring
           /\ \A x \in Livings : T.heart[x] = S.heart[x]
           /\ \A x \in Livings : Foes(T, x) \subseteq Foes(S, x)
           /\ \A x \in Livings \ {l} : Foes(T, x) = Foes(S, x) /\ T.attack[x] = S.attack[x]
           /\ Foes(T, l) = Foes(S, l) \ es
           /\ T.attack[l] \in Foes(T, l) \/ T.attack[l] \in {S.attack[l], None} \ (es \ {None})
           /\ \A x \in Livings : Aimed(S, x) => Aimed(T, x)
  <1>1. /\ T.env = S.env /\ T.ghost = S.ghost /\ T.sparring = S.sparring
        /\ \A x \in Livings \ {l} : Foes(T, x) = Foes(S, x) /\ T.attack[x] = S.attack[x]
                                    /\ T.heart[x] = S.heart[x]
    BY DEF Ceased, Fighting, Foes
  <1>2. Foes(T, l) = Foes(S, l) \ es /\ T.heart[l] = S.heart[l]
    BY DEF Ceased
  <1>3. \/ T.attack[l] \in Foes(T, l)
        \/ T.attack[l] = IF S.attack[l] \in es THEN None ELSE S.attack[l]
    BY DEF Ceased
  <1>4. \A x \in Livings : T.heart[x] = S.heart[x]
    <2>1. SUFFICES ASSUME NEW x \in Livings PROVE T.heart[x] = S.heart[x]
      OBVIOUS
    <2>2. CASE x = l
      BY <1>2, <2>2
    <2>3. CASE x # l
      BY <1>1, <2>3
    <2>4. QED
      BY <2>2, <2>3
  <1>5. ASSUME NEW x \in Livings, Aimed(S, x) PROVE Aimed(T, x)
    <2>1. CASE x = l
      BY <1>2, <1>3, <1>5, <2>1 DEF Aimed
    <2>2. CASE x # l
      BY <1>1, <1>5, <2>2 DEF Aimed
    <2>3. QED
      BY <2>1, <2>2
  <1>6. \A x \in Livings : Foes(T, x) \subseteq Foes(S, x)
    BY <1>1, <1>2
  <1>7. T.attack[l] \in Foes(T, l) \/ T.attack[l] \in {S.attack[l], None} \ (es \ {None})
    BY <1>3
  <1>8. QED
    BY <1>1, <1>2, <1>4, <1>5, <1>6, <1>7

\* Two forget each other.
Truce(S, T, k, v) ==
    /\ Sane(T) /\ T.env = S.env /\ T.ghost = S.ghost
    /\ \A x \in Livings : T.heart[x] = S.heart[x] /\ Foes(T, x) \subseteq Foes(S, x)
    /\ \A x \in Livings \ {k, v} : Foes(T, x) = Foes(S, x) /\ T.attack[x] = S.attack[x]
    /\ Foes(T, k) = Foes(S, k) \ {v} /\ Foes(T, v) = Foes(S, v) \ {k}
    /\ Apart(T, k, v)
    /\ \A x \in Livings : Aimed(S, x) => Aimed(T, x)
    /\ S.attack[k] = v => Aimed(T, k)

LEMMA TruceFacts ==
    ASSUME NEW S, NEW k \in Livings, NEW v \in Livings, k # v, NEW U, NEW W, Sane(W),
           Ceased(S, U, k, {v}), Ceased(U, W, v, {k})
    PROVE  Truce(S, W, k, v) /\ W.sparring = S.sparring
  <1> DEFINE a == {v}
             b == {k}
  <1>1. Ceased(S, U, k, a) /\ Ceased(U, W, v, b)
    OBVIOUS
  <1> HIDE DEF a, b
  <1>2. /\ U.env = S.env /\ U.ghost = S.ghost /\ U.sparring = S.sparring
        /\ \A x \in Livings : U.heart[x] = S.heart[x]
        /\ \A x \in Livings : Foes(U, x) \subseteq Foes(S, x)
        /\ \A x \in Livings \ {k} : Foes(U, x) = Foes(S, x) /\ U.attack[x] = S.attack[x]
        /\ Foes(U, k) = Foes(S, k) \ a
        /\ U.attack[k] \in Foes(U, k) \/ U.attack[k] \in {S.attack[k], None} \ (a \ {None})
        /\ \A x \in Livings : Aimed(S, x) => Aimed(U, x)
    BY <1>1, CeasedFacts
  <1>3. /\ W.env = U.env /\ W.ghost = U.ghost /\ W.sparring = U.sparring
        /\ \A x \in Livings : W.heart[x] = U.heart[x]
        /\ \A x \in Livings : Foes(W, x) \subseteq Foes(U, x)
        /\ \A x \in Livings \ {v} : Foes(W, x) = Foes(U, x) /\ W.attack[x] = U.attack[x]
        /\ Foes(W, v) = Foes(U, v) \ b
        /\ W.attack[v] \in Foes(W, v) \/ W.attack[v] \in {U.attack[v], None} \ (b \ {None})
        /\ \A x \in Livings : Aimed(U, x) => Aimed(W, x)
    BY <1>1, CeasedFacts
  <1>4. Foes(W, k) = Foes(S, k) \ {v} /\ Foes(W, v) = Foes(S, v) \ {k}
    BY <1>2, <1>3 DEF a, b
  <1>5. W.attack[k] # v /\ W.attack[v] # k
    <2>1. k # None /\ v # None /\ W.attack[k] = U.attack[k]
      BY <1>3, CombatAssumption
    <2>2. U.attack[k] # v
      BY <1>2, <2>1 DEF a
    <2>3. W.attack[v] # k
      BY <1>3, <2>1 DEF b
    <2>4. QED
      BY <2>1, <2>2, <2>3
  <1>6. Apart(W, k, v)
    BY <1>4, <1>5 DEF Apart
  <1>7. \A x \in Livings : W.heart[x] = S.heart[x]
    BY <1>2, <1>3, Zenon
  <1>8. ASSUME S.attack[k] = v PROVE Aimed(W, k)
    <2>1. Foes(W, k) = Foes(U, k) /\ W.attack[k] = U.attack[k]
      BY <1>3
    <2>2. U.attack[k] \in Foes(U, k) \/ U.attack[k] = None
      BY <1>2, <1>8 DEF a
    <2>3. QED
      BY <2>1, <2>2 DEF Aimed
  <1>9. QED
    BY <1>2, <1>3, <1>4, <1>6, <1>7, <1>8 DEF Truce

LEMMA TruceIsGood ==
    ASSUME NEW S, Fit(S), NEW k \in Livings, NEW v \in Livings, NEW T, Truce(S, T, k, v),
           \A x, y \in Livings : y \in S.sparring[x] /\ y \notin T.sparring[x]
                                   => {x, y} = {k, v}
    PROVE  Good(S, T)
  <1>1. /\ Sane(T) /\ T.env = S.env /\ T.ghost = S.ghost
        /\ \A x \in Livings : T.heart[x] = S.heart[x] /\ Foes(T, x) \subseteq Foes(S, x)
        /\ \A x \in Livings \ {k, v} : Foes(T, x) = Foes(S, x)
        /\ Foes(T, k) = Foes(S, k) \ {v} /\ Foes(T, v) = Foes(S, v) \ {k}
        /\ Apart(T, k, v)
        /\ \A x \in Livings : Aimed(S, x) => Aimed(T, x)
    BY DEF Truce
  <1>2. Fit(T)
    BY <1>1 DEF Fit, Places
  <1>3. Answered(S, T)
    BY <1>1 DEF Answered
  <1>4. Settled(S, T)
    <2>1. SUFFICES ASSUME NEW x \in Livings, Idling(T, x), ~Idling(S, x)
                   PROVE  S.heart[x] # TRUE
      BY <1>1 DEF Settled
    <2>2. T.heart[x] # TRUE
      BY <2>1 DEF Idling
    <2>3. T.heart[x] = S.heart[x]
      BY <1>1
    <2>4. QED
      BY <2>2, <2>3, Zenon
  <1>5. Over(S, T)
    <2>1. SUFFICES ASSUME NEW x \in Livings, NEW y \in Livings,
                          y \in S.sparring[x], y \notin T.sparring[x]
                   PROVE  Apart(T, x, y)
      BY DEF Over
    <2>2. (x = k /\ y = v) \/ (x = v /\ y = k)
      <3>1. {x, y} = {k, v}
        BY <2>1
      <3>2. QED
        BY <3>1
    <2>3. QED
      BY <1>1, <2>2 DEF Apart
  <1>6. Reciprocal(S, T)
    <2>1. SUFFICES ASSUME NEW x \in Livings, NEW y \in Livings,
                          y \in Foes(S, x), y \notin Foes(T, x)
                   PROVE  x \notin Foes(T, y)
      BY <1>1 DEF Reciprocal
    <2>2. (x = k /\ y = v) \/ (x = v /\ y = k)
      BY <1>1, <2>1
    <2>3. QED
      BY <1>1, <2>2 DEF Apart
  <1>7. QED
    BY <1>2, <1>3, <1>4, <1>5, <1>6 DEF Good

\* l is forgotten by some.
Calmer(S, T, l) ==
    /\ Sane(T) /\ T.env = S.env /\ T.ghost = S.ghost /\ T.sparring = S.sparring
    /\ \A x \in Livings : T.heart[x] = S.heart[x] /\ Foes(T, x) \subseteq Foes(S, x)
    /\ \A x \in Livings : Foes(S, x) \ {l} \subseteq Foes(T, x)
    /\ \A x \in Livings : Aimed(S, x) => Aimed(T, x)

LEMMA CalmerOnce ==
    ASSUME NEW S, NEW U, NEW l \in Livings, Calmer(S, U, l), NEW m \in Livings
    PROVE  LET T == StopFight(U, m, {l}) IN Calmer(S, T, l) /\ l \notin Foes(T, m)
  <1> DEFINE es == {l}
             T == StopFight(U, m, es)
  <1>1. l \in es
    OBVIOUS
  <1>2. es \subseteq {l}
    OBVIOUS
  <1>3. T = StopFight(U, m, {l})
    OBVIOUS
  <1> HIDE DEF es
  <1>4. Sane(T) /\ Ceased(U, T, m, es)
    BY StopFightFacts DEF Calmer
  <1> HIDE DEF T
  <1>5. /\ T.env = U.env /\ T.ghost = U.ghost /\ T.sparring = U.sparring
        /\ \A x \in Livings : T.heart[x] = U.heart[x]
        /\ \A x \in Livings : Foes(T, x) \subseteq Foes(U, x)
        /\ \A x \in Livings \ {m} : Foes(T, x) = Foes(U, x)
        /\ Foes(T, m) = Foes(U, m) \ es
        /\ \A x \in Livings : Aimed(U, x) => Aimed(T, x)
    BY <1>4, CeasedFacts
  <1>6. /\ \A x \in Livings : U.heart[x] = S.heart[x] /\ Foes(U, x) \subseteq Foes(S, x)
        /\ \A x \in Livings : Foes(S, x) \ {l} \subseteq Foes(U, x)
        /\ U.env = S.env /\ U.ghost = S.ghost /\ U.sparring = S.sparring
        /\ \A x \in Livings : Aimed(S, x) => Aimed(U, x)
    BY DEF Calmer
  <1>7. \A x \in Livings : T.heart[x] = S.heart[x]
    BY <1>5, <1>6, Zenon
  <1>8. \A x \in Livings : Foes(S, x) \ {l} \subseteq Foes(T, x)
    BY <1>2, <1>5, <1>6
  <1>9. Calmer(S, T, l) /\ l \notin Foes(T, m)
    BY <1>1, <1>4, <1>5, <1>6, <1>7, <1>8 DEF Calmer
  <1>10. QED
    BY <1>3, <1>9

\* l is forgotten by each of ls.
LEMMA ForgottenByAll ==
    ASSUME NEW S, Sane(S), NEW l \in Livings, NEW ls \in Seq(Livings)
    PROVE  LET T == CallAll(S, ByEach("cb_stop_fight", ls, l))
           IN Calmer(S, T, l) /\ \A m \in Range(ls) : l \notin Foes(T, m)
  <1> DEFINE fn == "cb_stop_fight"
             cs == ByEach(fn, ls, l)
             n == Len(ls)
  <1>1. /\ Len(cs) = n /\ n \in Nat
        /\ \A i \in 1 .. n : /\ ls[i] \in Livings /\ cs[i].fn = fn
                             /\ cs[i].by = ls[i] /\ cs[i].of = l
    <2> HIDE DEF fn
    <2>1. QED
      BY EachFacts
  <1>2. DOMAIN ls = 1 .. n
    BY LenProperties
  <1> HIDE DEF cs, n
  <1>3. PICK g : Between(g, S, cs, n) /\ CallAll(S, cs) = g[n]
    BY <1>1, CallAllBetween
  <1> DEFINE Q(i) == Calmer(S, g[i], l) /\ \A j \in 1 .. i : l \notin Foes(g[i], ls[j])
             T == {i \in 0 .. n : ~Q(i)}
  <1>4. Q(0)
    <2>1. g[0] = S
      BY <1>3 DEF Between
    <2>2. Calmer(S, S, l)
      BY DEF Calmer
    <2>3. QED
      BY <2>1, <2>2
  <1>5. ASSUME NEW i \in 1 .. n, Q(i - 1) PROVE Q(i)
    <2> DEFINE U == g[i - 1]
               m == ls[i]
               c == cs[i]
               W == StopFight(U, m, {l})
    <2>1. /\ g[i] = Called(U, c) /\ Calmer(S, U, l) /\ m \in Livings
          /\ c.fn = "cb_stop_fight" /\ c.by = m /\ c.of = l
          /\ \A j \in 1 .. i - 1 : l \notin Foes(U, ls[j])
      BY <1>1, <1>3, <1>5 DEF Between
    <2>2. \A j \in 1 .. i : ls[j] \in Livings /\ (j = i \/ j \in 1 .. i - 1)
      BY <1>1
    <2> HIDE DEF U, m, c
    <2>3. g[i] = W
      BY <2>1 DEF Called
    <2>4. Calmer(S, W, l) /\ l \notin Foes(W, m)
      BY <2>1, CalmerOnce
    <2>5. \A x \in Livings : Foes(W, x) \subseteq Foes(U, x)
      <3> DEFINE es == {l}
      <3>1. W = StopFight(U, m, es)
        OBVIOUS
      <3> HIDE DEF es, W
      <3>2. Ceased(U, W, m, es)
        BY <2>1, <3>1, StopFightFacts DEF Calmer
      <3>3. QED
        BY <2>1, <3>2, CeasedFacts
    <2> HIDE DEF W
    <2>6. ASSUME NEW j \in 1 .. i PROVE l \notin Foes(W, ls[j])
      <3>1. CASE j = i
        BY <2>4, <3>1 DEF m
      <3>2. CASE j \in 1 .. i - 1
        <4>1. l \notin Foes(U, ls[j]) /\ ls[j] \in Livings
          BY <2>1, <2>2, <3>2
        <4>2. QED
          BY <2>5, <4>1
      <3>3. QED
        BY <2>2, <3>1, <3>2
    <2>7. QED
      BY <2>3, <2>4, <2>6
  <1> HIDE DEF Q
  <1>6. T = {}
    <2>1. SUFFICES ASSUME T # {} PROVE FALSE
      OBVIOUS
    <2>2. T \in SUBSET (0 .. n) /\ 0 \notin T
      BY <1>4
    <2>3. PICK i \in 1 .. n : i \in T /\ i - 1 \in 0 .. n /\ i - 1 \notin T
      <3> HIDE DEF T
      <3>1. QED
        BY <1>1, <2>1, <2>2, FirstFailure
    <2>4. QED
      BY <1>5, <2>3
  <1>7. Q(n)
    BY <1>1, <1>6
  <1>8. \A m \in Range(ls) : l \notin Foes(g[n], m)
    BY <1>2, <1>7 DEF Q, Range
  <1>9. QED
    BY <1>3, <1>7, <1>8 DEF Q, cs, fn

LEMMA PeaceIsGood ==
    ASSUME NEW S, Fit(S), NEW l \in Livings
    PROVE  Good(S, CallAll(StopFight(S, l, Range(S.enemies[l])),
                           ByEach("cb_stop_fight", S.enemies[l], l)))
  <1> DEFINE s == S.enemies[l]
             es == Range(s)
             U == StopFight(S, l, es)
             T == CallAll(U, ByEach("cb_stop_fight", s, l))
  <1>1. Sane(S) /\ S \in States
    BY DEF Fit, Sane
  <1>2. s \in Seq(Livings)
    BY <1>1 DEF States
  <1>3. es = Foes(S, l)
    BY DEF Foes
  <1> HIDE DEF es
  <1>4. Sane(U) /\ Ceased(S, U, l, es)
    BY <1>1, StopFightFacts
  <1> HIDE DEF U, s
  <1>5. Calmer(U, T, l) /\ \A m \in Range(s) : l \notin Foes(T, m)
    BY <1>2, <1>4, ForgottenByAll
  <1> HIDE DEF T
  <1>6. /\ U.env = S.env /\ U.ghost = S.ghost /\ U.sparring = S.sparring
        /\ \A x \in Livings : U.heart[x] = S.heart[x]
        /\ \A x \in Livings : Foes(U, x) \subseteq Foes(S, x)
        /\ \A x \in Livings \ {l} : Foes(U, x) = Foes(S, x)
        /\ Foes(U, l) = Foes(S, l) \ es
        /\ \A x \in Livings : Aimed(S, x) => Aimed(U, x)
    BY <1>4, CeasedFacts
  <1>7. /\ Sane(T) /\ T.env = U.env /\ T.ghost = U.ghost /\ T.sparring = U.sparring
        /\ \A x \in Livings : T.heart[x] = U.heart[x] /\ Foes(T, x) \subseteq Foes(U, x)
        /\ \A x \in Livings : Foes(U, x) \ {l} \subseteq Foes(T, x)
        /\ \A x \in Livings : Aimed(U, x) => Aimed(T, x)
    BY <1>5 DEF Calmer
  <1>8. \A x \in Livings : T.heart[x] = S.heart[x] /\ Foes(T, x) \subseteq Foes(S, x)
    <2>1. \A x \in Livings : T.heart[x] = S.heart[x]
      BY <1>6, <1>7, Zenon
    <2>2. QED
      BY <1>6, <1>7, <2>1
  <1>9. Fit(T)
    BY <1>6, <1>7 DEF Fit, Places
  <1>10. Answered(S, T)
    BY <1>8 DEF Answered
  <1>11. Settled(S, T)
    <2>1. SUFFICES ASSUME NEW x \in Livings, Idling(T, x)
                   PROVE  S.heart[x] # TRUE
      BY <1>6, <1>7 DEF Settled
    <2>2. T.heart[x] # TRUE /\ T.heart[x] = S.heart[x]
      BY <1>8, <2>1 DEF Idling
    <2>3. QED
      BY <2>2, Zenon
  <1>12. Over(S, T)
    BY <1>6, <1>7 DEF Over
  <1>13. Reciprocal(S, T)
    <2>1. SUFFICES ASSUME NEW x \in Livings, NEW y \in Livings,
                          y \in Foes(S, x), y \notin Foes(T, x)
                   PROVE  x \notin Foes(T, y)
      BY <1>8 DEF Reciprocal
    <2>2. CASE x = l
      <3>1. y \in Range(s)
        BY <2>1, <2>2 DEF Foes, s
      <3>2. QED
        BY <1>5, <2>2, <3>1
    <2>3. CASE x # l
      <3>1. y = l
        BY <1>6, <1>7, <2>1, <2>3
      <3>2. Foes(T, l) = {}
        BY <1>3, <1>6, <1>7
      <3>3. QED
        BY <3>1, <3>2
    <2>4. QED
      BY <2>2, <2>3
  <1>14. Good(S, T)
    BY <1>9, <1>10, <1>11, <1>12, <1>13 DEF Good
  <1>15. QED
    BY <1>14 DEF T, U, s, es

-----------------------------------------------------------------------------
(***************************************************************************)
(* A round of blows.                                                       *)
(***************************************************************************)
\* l faces v, and nothing is different for anybody else.
Facing(S, T, l, v) ==
    /\ Fit(T) /\ T.env = S.env /\ T.ghost = S.ghost /\ T.sparring = S.sparring
    /\ T.enemies = S.enemies
    /\ \A x \in Livings : T.heart[x] = S.heart[x]
    /\ \A x \in Livings \ {l} : T.attack[x] = S.attack[x]
    /\ v \in Livings \ {l} /\ v \notin S.ghost /\ S.env[v] = S.env[l]
    /\ T.attack[l] = v /\ T.heart[l] = TRUE

\* The state after the blows, when l fights on, if only a ghost.
Struck(S, T, l) ==
    /\ Flying(T, l) /\ l \notin T.ghost /\ T.env[l] = S.env[l]
    /\ T.heart[l] = TRUE /\ Foes(T, l) \subseteq Foes(S, l)
    /\ Answered(S, T) /\ Awake(S, T)
    /\ \A x, y \in Livings : y \in S.sparring[x] /\ y \notin T.sparring[x]
         => Apart(T, x, y) \/ \E z \in {x, y} \ {l} : T.env[z] = None
    /\ Roomy => Agreed(S, T)

\* No blow.
LEMMA FacingIsStruck ==
    ASSUME NEW S, NEW l \in Livings, l \notin S.ghost, NEW v, NEW T, Facing(S, T, l, v)
    PROVE  Struck(S, T, l)
  <1>1. \A x \in Livings : Foes(T, x) = Foes(S, x)
    BY DEF Facing, Foes
  <1>2. Flying(T, l)
    BY DEF Facing, Fit, Flying
  <1>3. Awake(S, T)
    <2>1. SUFFICES ASSUME NEW x \in Livings, Idling(T, x) PROVE Idling(S, x)
      BY DEF Awake
    <2>2. x # l
      BY <2>1 DEF Idling, Facing
    <2>3. T.attack[x] = S.attack[x] /\ T.heart[x] = S.heart[x]
      BY <2>2 DEF Facing
    <2>4. QED
      BY <2>1, <2>3, Zenon DEF Idling
  <1>4. Answered(S, T) /\ Agreed(S, T)
    BY <1>1 DEF Answered, Agreed
  <1>5. QED
    BY <1>1, <1>2, <1>3, <1>4 DEF Struck, Facing

\* What a blow that arrives changes: v knows of l.
Hit(S, H, l, v) ==
    /\ Sane(H) /\ H.env = S.env /\ H.ghost = S.ghost /\ H.sparring = S.sparring
    /\ \A x \in Livings \ {v} : Foes(H, x) = Foes(S, x)
    /\ \A x \in Livings \ {l, v} : H.attack[x] = S.attack[x] /\ H.heart[x] = S.heart[x]
    /\ Foes(H, v) \subseteq Foes(S, v) \cup {l} /\ (Roomy => Foes(H, v) = Foes(S, v) \cup {l})
    /\ H.attack[l] = v /\ H.heart[l] = TRUE
    /\ H.attack[v] # None /\ H.heart[v] = TRUE
    /\ \A x \in Livings : Roomy => Aimed(H, x)

LEMMA HitFacts ==
    ASSUME NEW S, NEW l \in Livings, NEW v, NEW T, Facing(S, T, l, v)
    PROVE  Hit(S, HitMe(T, v, l), l, v)
  <1> DEFINE H == HitMe(T, v, l)
  <1>1. v \in Livings /\ l \in Livings \ {v} /\ Sane(T)
    BY DEF Facing, Fit
  <1>2. Sane(H) /\ Roused(T, H, v, l)
    BY <1>1, HitMeFacts
  <1> HIDE DEF H
  <1>3. Rising(T, H)
    BY <1>1, <1>2, RousedRises
  <1>4. \A x \in Livings : Foes(T, x) = Foes(S, x)
    BY DEF Facing, Foes
  <1>5. /\ H.env = T.env /\ H.ghost = T.ghost /\ H.sparring = T.sparring
        /\ \A x \in Livings \ {v} : Foes(H, x) = Foes(T, x) /\ H.attack[x] = T.attack[x]
                                    /\ H.heart[x] = T.heart[x]
    BY <1>2 DEF Roused, Fighting, Foes
  <1>6. /\ Foes(H, v) \subseteq Foes(T, v) \cup {l} /\ (Roomy => Foes(H, v) = Foes(T, v) \cup {l})
        /\ H.attack[v] # None /\ H.heart[v] = TRUE
    BY <1>2 DEF Roused, Added
  <1>7. /\ T.env = S.env /\ T.ghost = S.ghost /\ T.sparring = S.sparring
        /\ T.attack[l] = v /\ T.heart[l] = TRUE
        /\ \A x \in Livings \ {l} : T.attack[x] = S.attack[x]
        /\ \A x \in Livings : T.heart[x] = S.heart[x]
    BY DEF Facing
  <1>8. ASSUME NEW x \in Livings, Roomy PROVE Aimed(H, x)
    BY <1>3, <1>8 DEF Facing, Fit, Rising, Aimed
  <1>9. \A x \in Livings \ {l, v} : H.attack[x] = S.attack[x] /\ H.heart[x] = S.heart[x]
    BY <1>5, <1>7, Zenon
  <1>10. H.attack[l] = v /\ H.heart[l] = TRUE
    BY <1>1, <1>5, <1>7
  <1>11. Hit(S, H, l, v)
    BY <1>1, <1>2, <1>4, <1>5, <1>6, <1>7, <1>8, <1>9, <1>10 DEF Hit
  <1>12. QED
    BY <1>11 DEF H

LEMMA HitIsStruck ==
    ASSUME NEW S, Fit(S), NEW l \in Livings, l \notin S.ghost, NEW v \in Livings \ {l}, NEW H,
           Hit(S, H, l, v), Roomy => v \in Foes(S, l)
    PROVE  Struck(S, H, l)
  <1>1. Flying(H, l)
    BY DEF Hit, Flying, Fit, Places
  <1>2. Answered(S, H)
    BY DEF Hit, Answered
  <1>3. Awake(S, H)
    <2>1. SUFFICES ASSUME NEW x \in Livings, Idling(H, x) PROVE Idling(S, x)
      BY DEF Awake
    <2>2. x \in Livings \ {l, v}
      BY <2>1 DEF Idling, Hit
    <2>3. H.attack[x] = S.attack[x] /\ H.heart[x] = S.heart[x]
      BY <2>2 DEF Hit
    <2>4. QED
      BY <2>1, <2>3, Zenon DEF Idling
  <1>4. Roomy => Agreed(S, H)
    <2>1. SUFFICES ASSUME Roomy PROVE Agreed(S, H)
      OBVIOUS
    <2>2. /\ \A x \in Livings \ {v} : Foes(H, x) = Foes(S, x)
          /\ Foes(H, v) = Foes(S, v) \cup {l} /\ v \in Foes(S, l)
      BY <2>1 DEF Hit
    <2>3. QED
      BY <2>2 DEF Agreed
  <1>5. QED
    BY <1>1, <1>2, <1>3, <1>4 DEF Struck, Hit

\* The blow is deadly, and l strikes v off its list.
Slain(S, E, l, v) ==
    /\ Sane(E) /\ E.env = S.env /\ E.ghost = S.ghost /\ E.sparring = S.sparring
    /\ \A x \in Livings \ {l, v} : /\ Foes(E, x) = Foes(S, x) /\ E.attack[x] = S.attack[x]
                                   /\ E.heart[x] = S.heart[x]
    /\ Foes(E, l) = Foes(S, l) \ {v} /\ Foes(E, v) \subseteq Foes(S, v) \cup {l}
    /\ Foes(S, v) \ {l} \subseteq Foes(E, v) \/ ~Roomy
    /\ E.attack[l] = v /\ E.heart[l] = TRUE /\ E.heart[v] = TRUE
    /\ \A x \in Livings \ {l} : Roomy => Aimed(E, x)

LEMMA SlainFacts ==
    ASSUME NEW S, NEW l \in Livings, NEW v \in Livings \ {l}, NEW H, Hit(S, H, l, v)
    PROVE  Slain(S, [H EXCEPT !.enemies[l] = Without(@, {v})], l, v)
  <1> DEFINE w == Without(H.enemies[l], {v})
             E == [H EXCEPT !.enemies[l] = w]
  <1>1. E = [H EXCEPT !.enemies[l] = Without(@, {v})]
    OBVIOUS
  <1>2. Sane(H) /\ H \in States
    BY DEF Hit, Sane
  <1>3. Proper(w, l) /\ w \in Seq(Livings) /\ Range(w) = Foes(H, l) \ {v}
    <2> DEFINE s == H.enemies[l]
               es == {v}
    <2>1. Proper(s, l)
      BY <1>2 DEF Sane
    <2> HIDE DEF s, es
    <2>2. /\ Proper(Without(s, es), l) /\ Without(s, es) \in Seq(Livings)
          /\ Range(Without(s, es)) = Range(s) \ es
      BY <2>1, ProperWithout
    <2>3. QED
      BY <2>2 DEF s, es, Foes
  <1> HIDE DEF w
  <1>4. /\ E \in States /\ E.enemies = [H.enemies EXCEPT ![l] = w] /\ E.env = H.env
        /\ E.ghost = H.ghost /\ E.sparring = H.sparring /\ E.attack = H.attack
        /\ E.heart = H.heart
    BY <1>2, <1>3 DEF States
  <1>5. E.enemies[l] = w /\ \A x \in Livings \ {l} : E.enemies[x] = H.enemies[x]
    BY <1>2, <1>4 DEF States
  <1> HIDE DEF E
  <1>6. Sane(E)
    BY <1>2, <1>3, <1>4, <1>5 DEF Sane
  <1>7. Foes(E, l) = Foes(H, l) \ {v} /\ \A x \in Livings \ {l} : Foes(E, x) = Foes(H, x)
    BY <1>3, <1>5 DEF Foes
  <1>8. ASSUME NEW x \in Livings \ {l}, Roomy PROVE Aimed(E, x)
    BY <1>4, <1>7, <1>8 DEF Aimed, Hit
  <1>9. \A x \in Livings \ {l, v} : /\ Foes(E, x) = Foes(S, x) /\ E.attack[x] = S.attack[x]
                                    /\ E.heart[x] = S.heart[x]
    BY <1>4, <1>7 DEF Hit
  <1>10. /\ Foes(E, l) = Foes(S, l) \ {v} /\ Foes(E, v) \subseteq Foes(S, v) \cup {l}
         /\ Foes(S, v) \ {l} \subseteq Foes(E, v) \/ ~Roomy
    BY <1>7 DEF Hit
  <1>11. Slain(S, E, l, v)
    BY <1>4, <1>6, <1>8, <1>9, <1>10 DEF Slain, Hit
  <1>12. QED
    BY <1>1, <1>11 DEF E

LEMMA PartedIsStruck ==
    ASSUME NEW S, Fit(S), NEW l \in Livings, l \notin S.ghost, NEW v \in Livings \ {l},
           NEW E, Slain(S, E, l, v), NEW D, Sane(D), Parted(E, D, v, l)
    PROVE  Struck(S, D, l)
  <1>1. PICK U, W : /\ Sane(W) /\ Ceased(E, U, l, {v}) /\ Ceased(U, W, v, {l}) /\ Unfought(W, D)
    BY DEF Parted
  <1>2. Truce(E, W, l, v)
    BY <1>1, TruceFacts
  <1>3. /\ D.env = W.env /\ D.ghost = W.ghost /\ D.attack = W.attack /\ D.heart = W.heart
        /\ \A x \in Livings : Foes(D, x) = Foes(W, x)
    BY <1>1 DEF Unfought, Foes
  <1>4. /\ W.env = E.env /\ W.ghost = E.ghost
        /\ \A x \in Livings : W.heart[x] = E.heart[x] /\ Foes(W, x) \subseteq Foes(E, x)
        /\ \A x \in Livings \ {l, v} : Foes(W, x) = Foes(E, x) /\ W.attack[x] = E.attack[x]
        /\ Foes(W, l) = Foes(E, l) \ {v} /\ Foes(W, v) = Foes(E, v) \ {l}
        /\ Apart(W, l, v)
        /\ \A x \in Livings : Aimed(E, x) => Aimed(W, x)
        /\ E.attack[l] = v => Aimed(W, l)
    BY <1>2 DEF Truce
  <1>5. /\ E.env = S.env /\ E.ghost = S.ghost /\ E.sparring = S.sparring
        /\ \A x \in Livings \ {l, v} : /\ Foes(E, x) = Foes(S, x) /\ E.attack[x] = S.attack[x]
                                       /\ E.heart[x] = S.heart[x]
        /\ Foes(E, l) = Foes(S, l) \ {v} /\ Foes(E, v) \subseteq Foes(S, v) \cup {l}
        /\ Foes(S, v) \ {l} \subseteq Foes(E, v) \/ ~Roomy
        /\ E.attack[l] = v /\ E.heart[l] = TRUE /\ E.heart[v] = TRUE
        /\ \A x \in Livings \ {l} : Roomy => Aimed(E, x)
    BY DEF Slain
  <1>6. /\ \A x \in Livings : Foes(D, x) \subseteq Foes(S, x)
        /\ \A x \in Livings \ {l, v} : Foes(D, x) = Foes(S, x)
        /\ Foes(D, l) = Foes(S, l) \ {v}
        /\ Foes(D, v) = Foes(S, v) \ {l} \/ ~Roomy
    BY <1>3, <1>4, <1>5
  <1>7. D.env = S.env /\ D.ghost = S.ghost
    BY <1>3, <1>4, <1>5
  <1>8. D.heart[l] = TRUE /\ D.heart[v] = TRUE
    BY <1>3, <1>4, <1>5
  <1>9. Awake(S, D)
    <2>1. SUFFICES ASSUME NEW x \in Livings, Idling(D, x) PROVE Idling(S, x)
      BY DEF Awake
    <2>2. x \in Livings \ {l, v}
      BY <1>8, <2>1 DEF Idling
    <2>3. D.heart[x] = W.heart[x] /\ W.heart[x] = E.heart[x] /\ E.heart[x] = S.heart[x]
      BY <1>3, <1>4, <1>5, <2>2
    <2>4. D.attack[x] = S.attack[x]
      BY <1>3, <1>4, <1>5, <2>2
    <2>5. QED
      BY <2>1, <2>3, <2>4, Zenon DEF Idling
  <1>10. Answered(S, D)
    BY <1>6 DEF Answered
  <1>11. Roomy => Agreed(S, D)
    BY <1>6 DEF Agreed
  <1>12. ASSUME Roomy, NEW x \in Livings PROVE Aimed(D, x)
    <2>1. Aimed(W, x)
      BY <1>4, <1>5, <1>12
    <2>2. QED
      BY <1>3, <2>1 DEF Aimed
  <1>13. Flying(D, l)
    BY <1>7, <1>12 DEF Flying, Fit, Places
  <1>14. ASSUME NEW x \in Livings, NEW y \in Livings, y \in S.sparring[x], y \notin D.sparring[x]
         PROVE  Apart(D, x, y)
    <2>1. D.sparring[x] = S.sparring[x] \ (IF x = l THEN {v} ELSE IF x = v THEN {l} ELSE {})
      BY <1>5 DEF Parted
    <2>2. (x = l /\ y = v) \/ (x = v /\ y = l)
      BY <1>14, <2>1
    <2>3. QED
      BY <1>3, <1>4, <2>2 DEF Apart
  <1>15. QED
    BY <1>6, <1>7, <1>8, <1>9, <1>10, <1>11, <1>13, <1>14 DEF Struck

LEMMA KilledIsStruck ==
    ASSUME NEW S, Fit(S), NEW l \in Livings, l \notin S.ghost, NEW v \in Livings \ {l},
           v \notin S.ghost, NEW E, Slain(S, E, l, v), NEW D, Sane(D),
           Buried(E, D, v) \/ Gone(E, D, v)
    PROVE  Struck(S, D, l)
  <1>1. /\ E.env = S.env /\ E.ghost = S.ghost /\ E.sparring = S.sparring
        /\ \A x \in Livings \ {l, v} : /\ Foes(E, x) = Foes(S, x) /\ E.attack[x] = S.attack[x]
                                       /\ E.heart[x] = S.heart[x]
        /\ Foes(E, l) = Foes(S, l) \ {v}
        /\ E.attack[l] = v /\ E.heart[l] = TRUE
        /\ \A x \in Livings \ {l} : Roomy => Aimed(E, x)
    BY DEF Slain
  <1>2. Places(E) /\ v \notin E.ghost /\ l \notin E.ghost
    BY <1>1 DEF Fit, Places
  <1>3. /\ Awake(E, D) /\ Places(D)
        /\ \A x \in Livings : Aimed(E, x) => Aimed(D, x)
    <2>1. CASE Buried(E, D, v)
      BY <1>2, <2>1, BuryingFacts
    <2>2. CASE Gone(E, D, v)
      BY <1>2, <2>2, GoneFacts
    <2>3. QED
      BY <2>1, <2>2
  <1>4. /\ Foes(D, v) = {} /\ D.attack[v] = None /\ l \notin D.ghost
        /\ \A x \in Livings \ {v} : D.env[x] = E.env[x] /\ Foes(D, x) \subseteq Foes(E, x)
        /\ D.heart[l] = E.heart[l]
    <2>1. CASE Buried(E, D, v)
      BY <1>2, <2>1 DEF Buried
    <2>2. CASE Gone(E, D, v)
      BY <1>2, <2>2 DEF Gone
    <2>3. QED
      BY <2>1, <2>2
  <1>5. \A x \in Livings : Foes(D, x) \subseteq Foes(S, x)
    BY <1>1, <1>4
  <1>6. Awake(S, D)
    <2>1. SUFFICES ASSUME NEW x \in Livings, Idling(D, x) PROVE Idling(S, x)
      BY DEF Awake
    <2>2. Idling(E, x)
      BY <1>3, <2>1 DEF Awake
    <2>3. x # l /\ x # v
      BY <1>1, <1>4, <2>1, <2>2 DEF Idling
    <2>4. QED
      BY <1>1, <2>2, <2>3, Zenon DEF Idling
  <1>7. D.heart[l] = TRUE
    BY <1>1, <1>4
  <1>8. Flying(D, l)
    <2>1. ASSUME Roomy, NEW x \in Livings
          PROVE  Aimed(D, x) \/ (x = l /\ D.attack[x] \in D.ghost)
      <3>1. CASE x # l
        BY <1>1, <1>3, <2>1, <3>1
      <3>2. CASE x = l
        <4>1. (D.attack[l] = v /\ v \in D.ghost) \/ D.attack[l] = None
          BY <1>1 DEF Buried, Gone
        <4>2. QED
          BY <3>2, <4>1 DEF Aimed
      <3>3. QED
        BY <3>1, <3>2
    <2>2. QED
      BY <1>3, <2>1 DEF Flying
  <1>9. Agreed(S, D)
    <2>1. CASE Buried(E, D, v)
      <3>1. D.env[v] # S.env[v]
        BY <2>1 DEF Buried, Fit, Places
      <3>2. \A x \in Livings \ {v} : \A y \in Livings \ {v} : y \in Foes(D, x) <=> y \in Foes(S, x)
        BY <1>1, <2>1 DEF Buried
      <3>3. QED
        BY <3>1, <3>2 DEF Agreed
    <2>2. CASE Gone(E, D, v)
      <3>1. \A x \in Livings \ {v} : Foes(D, x) = Foes(S, x) \ {v}
        BY <1>1, <2>2 DEF Gone
      <3>2. QED
        BY <1>4, <3>1 DEF Agreed
    <2>3. QED
      BY <2>1, <2>2
  <1>10. ASSUME NEW x \in Livings, NEW y \in Livings, y \in S.sparring[x], y \notin D.sparring[x]
         PROVE  \E z \in {x, y} \ {l} : D.env[z] = None
    <2>1. Gone(E, D, v)
      BY <1>1, <1>10 DEF Buried
    <2>2. x = v \/ y = v
      BY <1>1, <1>10, <2>1 DEF Gone
    <2>3. D.env[v] = None
      BY <2>1 DEF Gone
    <2>4. QED
      BY <2>2, <2>3
  <1>11. D.env[l] = S.env[l]
    BY <1>1, <1>4
  <1>12. Answered(S, D)
    BY <1>5 DEF Answered
  <1>13. QED
    BY <1>4, <1>5, <1>6, <1>7, <1>8, <1>9, <1>10, <1>11, <1>12 DEF Struck

LEMMA BlowsFacts ==
    ASSUME NEW S, Fit(S), NEW l \in Livings, l \notin S.ghost, NEW v, NEW C, Facing(S, C, l, v),
           NEW B \in Blows(C, l, v)
    PROVE  Struck(S, B, l)
  <1> DEFINE H == HitMe(C, v, l)
             E == [H EXCEPT !.enemies[l] = Without(@, {v})]
             D == DoDie(E, v, l)
  <1>1. B = C \/ B = H \/ B = D
    BY DEF Blows
  <1>2. v \in Livings \ {l} /\ v \notin S.ghost
    BY DEF Facing
  <1>3. Hit(S, H, l, v)
    BY HitFacts
  <1> HIDE DEF H
  <1>4. CASE B = C
    BY <1>4, FacingIsStruck
  <1>5. CASE B = H
    <2>1. Roomy => v \in Foes(S, l)
      <3>1. Roomy => Aimed(C, l)
        BY DEF Facing, Fit
      <3>2. C.attack[l] = v /\ v # None /\ Foes(C, l) = Foes(S, l)
        BY <1>2, CombatAssumption DEF Facing, Foes
      <3>3. QED
        BY <3>1, <3>2 DEF Aimed
    <2>2. QED
      BY <1>2, <1>3, <1>5, <2>1, HitIsStruck
  <1>6. CASE B = D
    <2>1. Slain(S, E, l, v)
      BY <1>2, <1>3, SlainFacts
    <2> HIDE DEF E
    <2>2. Sane(E) /\ v \in Livings
      BY <1>2, <2>1 DEF Slain
    <2>3. Sane(D) /\ (Parted(E, D, v, l) \/ Buried(E, D, v) \/ Gone(E, D, v))
      BY <2>2, DoDieFacts
    <2> HIDE DEF D
    <2>4. CASE Parted(E, D, v, l)
      BY <1>2, <1>6, <2>1, <2>3, <2>4, PartedIsStruck
    <2>5. CASE Buried(E, D, v) \/ Gone(E, D, v)
      BY <1>2, <1>6, <2>1, <2>3, <2>5, KilledIsStruck
    <2>6. QED
      BY <2>3, <2>4, <2>5
  <1>7. QED
    BY <1>1, <1>4, <1>5, <1>6

\* The state after the blows, or after the flight.
Fought(S, T, l) ==
    /\ Flying(T, l) /\ l \notin T.ghost /\ T.heart[l] = TRUE /\ Foes(T, l) \subseteq Foes(S, l)
    /\ Answered(S, T) /\ Awake(S, T) /\ Over(S, T)
    /\ Roomy => Reciprocal(S, T)

LEMMA StruckIsFought ==
    ASSUME NEW S, NEW l \in Livings, NEW T, Struck(S, T, l)
    PROVE  Fought(S, T, l)
  <1>1. Over(S, T)
    BY DEF Struck, Over
  <1>2. Roomy => Reciprocal(S, T)
    BY AgreedFacts DEF Struck
  <1>3. QED
    BY <1>1, <1>2 DEF Struck, Fought

LEMMA FledIsFought ==
    ASSUME NEW S, NEW l \in Livings, NEW B, Struck(S, B, l), NEW r \in Rooms, r # S.env[l],
           NEW T, Flying(T, l), Went(B, T, l, r)
    PROVE  Fought(S, T, l)
  <1>1. /\ T.env[l] = r /\ \A x \in Livings \ {l} : T.env[x] = B.env[x]
        /\ T.ghost = B.ghost /\ T.sparring = B.sparring
        /\ \A x \in Livings \ {l} : B.attack[x] # None => T.attack[x] # None
        /\ \A x \in Livings : B.heart[x] = TRUE => T.heart[x] = TRUE
        /\ Answered(B, T) /\ Awake(B, T) /\ Foes(T, l) \subseteq Foes(B, l)
        /\ \A x, y \in Livings : Apart(B, x, y) => Apart(T, x, y)
    BY DEF Went
  <1>2. /\ Answered(S, B) /\ Awake(S, B) /\ Foes(B, l) \subseteq Foes(S, l)
        /\ \A x, y \in Livings : y \in S.sparring[x] /\ y \notin B.sparring[x]
             => Apart(B, x, y) \/ \E z \in {x, y} \ {l} : B.env[z] = None
    BY DEF Struck
  <1>3. Answered(S, T)
    <2>1. SUFFICES ASSUME NEW x \in Livings, ~(Foes(T, x) \subseteq Foes(S, x))
                   PROVE  T.heart[x] = TRUE /\ T.attack[x] # None
      BY DEF Answered
    <2>2. x # l
      BY <1>1, <1>2, <2>1
    <2>3. CASE Foes(T, x) \subseteq Foes(B, x)
      <3>1. B.heart[x] = TRUE /\ B.attack[x] # None
        BY <1>2, <2>1, <2>3 DEF Answered
      <3>2. QED
        BY <1>1, <2>2, <3>1
    <2>4. CASE ~(Foes(T, x) \subseteq Foes(B, x))
      BY <1>1, <2>4 DEF Answered
    <2>5. QED
      BY <2>3, <2>4
  <1>4. Awake(S, T)
    BY <1>1, <1>2 DEF Awake
  <1>5. Over(S, T)
    <2>1. SUFFICES ASSUME NEW x \in Livings, NEW y \in Livings,
                          y \in S.sparring[x], y \notin T.sparring[x],
                          T.env[x] # None, T.env[y] # None
                   PROVE  Apart(T, x, y)
      BY DEF Over
    <2>2. ~ \E z \in {x, y} \ {l} : B.env[z] = None
      BY <1>1, <2>1
    <2>3. Apart(B, x, y)
      BY <1>1, <1>2, <2>1, <2>2
    <2>4. QED
      BY <1>1, <2>3
  <1>6. Roomy => Reciprocal(S, T)
    <2>1. SUFFICES ASSUME Roomy, NEW x \in Livings, NEW y \in Livings,
                          T.env[x] = S.env[x], T.env[y] = S.env[y]
                   PROVE  /\ y \in Foes(T, x) /\ y \notin Foes(S, x) => x \in Foes(T, y)
                          /\ y \in Foes(S, x) /\ y \notin Foes(T, x) => x \notin Foes(T, y)
      BY DEF Reciprocal
    <2>2. x # l /\ y # l
      BY <1>1, <2>1
    <2>3. B.env[x] = S.env[x] /\ B.env[y] = S.env[y]
      BY <1>1, <2>1, <2>2
    <2>4. Foes(B, x) \subseteq Foes(T, x) /\ Foes(B, y) \subseteq Foes(T, y) /\ Mutual(B, T)
      BY <2>1, <2>2 DEF Went
    <2>5. /\ y \in Foes(B, x) /\ y \notin Foes(S, x) => x \in Foes(B, y)
          /\ y \in Foes(S, x) /\ y \notin Foes(B, x) => x \notin Foes(B, y)
      BY <2>1, <2>3 DEF Struck, Agreed
    <2>6. QED
      BY <2>4, <2>5 DEF Mutual
  <1>7. l \notin T.ghost /\ T.heart[l] = TRUE
    BY <1>1 DEF Struck
  <1>8. QED
    BY <1>1, <1>2, <1>3, <1>4, <1>5, <1>6, <1>7 DEF Fought

\* cb_update_attack puts an end to the round.
LEMMA LookedIsGood ==
    ASSUME NEW S, NEW l \in Livings, NEW B, Fought(S, B, l), NEW inv, NEW T, Sane(T),
           Looked(B, T, l, inv)
    PROVE  Good(S, T)
  <1>1. /\ T.env = B.env /\ T.ghost = B.ghost /\ T.sparring = B.sparring
        /\ \A x \in Livings : Foes(T, x) = Foes(B, x)
        /\ \A x \in Livings \ {l} : T.attack[x] = B.attack[x] /\ T.heart[x] = B.heart[x]
    BY DEF Looked, Fighting, Foes
  <1>2. T.attack[l] = None \/ T.heart[l] = TRUE
    BY DEF Looked, Fought
  <1>3. T.attack[l] \in {B.attack[l], None} \cup Foes(B, l)
    BY DEF Looked
  <1>4. Fit(T)
    <2>1. Places(T)
      BY <1>1 DEF Fought, Flying, Places
    <2>2. ASSUME Roomy, NEW x \in Livings PROVE Aimed(T, x)
      <3>1. Aimed(B, x) \/ (x = l /\ B.attack[x] \in B.ghost)
        BY <2>2 DEF Fought, Flying
      <3>2. CASE x # l
        BY <1>1, <3>1, <3>2 DEF Aimed
      <3>3. CASE x = l /\ Opponent(B, l) = None
        <4>1. T.attack[l] \in Foes(B, l) \/ T.attack[l] = None
          BY <3>3 DEF Looked
        <4>2. QED
          BY <1>1, <3>3, <4>1 DEF Aimed
      <3>4. CASE x = l /\ Opponent(B, l) # None
        <4>1. T = B /\ B.attack[l] \notin B.ghost
          BY <3>4 DEF Looked, Opponent
        <4>2. QED
          BY <3>1, <3>4, <4>1 DEF Aimed
      <3>5. QED
        BY <3>2, <3>3, <3>4
    <2>3. QED
      BY <2>1, <2>2 DEF Fit
  <1>5. Answered(S, T)
    <2>1. SUFFICES ASSUME NEW x \in Livings, ~(Foes(T, x) \subseteq Foes(S, x))
                   PROVE  T.heart[x] = TRUE /\ T.attack[x] # None
      BY DEF Answered
    <2>2. x # l
      BY <1>1, <2>1 DEF Fought
    <2>3. B.heart[x] = TRUE /\ B.attack[x] # None
      BY <1>1, <2>1 DEF Fought, Answered
    <2>4. QED
      BY <1>1, <2>2, <2>3
  <1>6. Settled(S, T)
    <2>1. SUFFICES ASSUME NEW x \in Livings, Idling(T, x) PROVE Idling(S, x)
      BY DEF Settled
    <2>2. x # l
      BY <1>2, <2>1 DEF Idling
    <2>3. Idling(B, x)
      BY <1>1, <2>1, <2>2, Zenon DEF Idling
    <2>4. QED
      BY <2>3 DEF Fought, Awake
  <1>7. Over(S, T)
    <2>1. SUFFICES ASSUME NEW x \in Livings, NEW y \in Livings,
                          y \in S.sparring[x], y \notin T.sparring[x],
                          T.env[x] # None, T.env[y] # None
                   PROVE  Apart(T, x, y)
      BY DEF Over
    <2>2. Apart(B, x, y)
      BY <1>1, <2>1 DEF Fought, Over
    <2>3. x # None /\ y # None
      BY CombatAssumption
    <2>4. T.attack[x] # y
      BY <1>1, <1>3, <2>2, <2>3 DEF Apart
    <2>5. T.attack[y] # x
      BY <1>1, <1>3, <2>2, <2>3 DEF Apart
    <2>6. QED
      BY <1>1, <2>2, <2>4, <2>5 DEF Apart
  <1>8. Roomy => Reciprocal(S, T)
    BY <1>1 DEF Fought, Reciprocal
  <1>9. QED
    BY <1>4, <1>5, <1>6, <1>7, <1>8 DEF Good

\* Nobody is left for l to fight.
Rested(S, T, l) ==
    /\ Sane(T) /\ Fighting(S, T, l) /\ T.enemies = S.enemies /\ T.attack[l] = None

LEMMA RestedIsGood ==
    ASSUME NEW S, Fit(S), NEW l \in Livings, NEW T, Rested(S, T, l)
    PROVE  Good(S, T)
  <1>1. /\ Sane(T) /\ T.env = S.env /\ T.ghost = S.ghost /\ T.sparring = S.sparring
        /\ \A x \in Livings : Foes(T, x) = Foes(S, x)
        /\ \A x \in Livings \ {l} : T.attack[x] = S.attack[x] /\ T.heart[x] = S.heart[x]
        /\ T.attack[l] = None
    BY DEF Rested, Fighting, Foes
  <1>2. Fit(T)
    <2>1. Places(T)
      BY <1>1 DEF Fit, Places
    <2>2. ASSUME Roomy, NEW x \in Livings PROVE Aimed(T, x)
      BY <1>1, <2>2 DEF Fit, Aimed
    <2>3. QED
      BY <1>1, <2>1, <2>2 DEF Fit
  <1>3. Settled(S, T)
    <2>1. SUFFICES ASSUME NEW x \in Livings, Idling(T, x) PROVE Idling(S, x)
      BY DEF Settled
    <2>2. x # l
      BY <1>1, <2>1 DEF Idling
    <2>3. T.attack[x] = S.attack[x] /\ T.heart[x] = S.heart[x]
      BY <1>1, <2>2
    <2>4. QED
      BY <2>1, <2>3, Zenon DEF Idling
  <1>4. Answered(S, T) /\ Over(S, T) /\ Reciprocal(S, T)
    BY <1>1 DEF Answered, Over, Reciprocal
  <1>5. QED
    BY <1>2, <1>3, <1>4 DEF Good

LEMMA RestedFacts ==
    ASSUME NEW S, NEW U, NEW l \in Livings, Rested(S, U, l), NEW b \in BOOLEAN
    PROVE  Rested(S, [U EXCEPT !.heart[l] = b], l)
  <1> DEFINE T == [U EXCEPT !.heart[l] = b]
  <1>1. U \in States /\ \A x \in Livings : Proper(U.enemies[x], x) /\ U.attack[x] # x
    BY DEF Rested, Sane
  <1>2. /\ T \in States /\ T.heart = [U.heart EXCEPT ![l] = b] /\ T.env = U.env
        /\ T.ghost = U.ghost /\ T.enemies = U.enemies /\ T.attack = U.attack
        /\ T.recent = U.recent /\ T.sparring = U.sparring /\ T.offers = U.offers
    BY <1>1 DEF States
  <1>3. \A x \in Livings \ {l} : T.heart[x] = U.heart[x]
    BY <1>1, <1>2 DEF States
  <1> HIDE DEF T
  <1>4. Sane(T)
    BY <1>1, <1>2 DEF Sane
  <1>5. Fighting(U, T, l) /\ T.enemies = U.enemies /\ T.attack[l] = U.attack[l]
    BY <1>2, <1>3 DEF Fighting
  <1>6. Fighting(S, T, l)
    BY <1>5, FightingTwice DEF Rested
  <1>7. QED
    BY <1>4, <1>5, <1>6 DEF Rested, T

\* What l finds when its heart beats.
LEMMA FaceFacts ==
    ASSUME NEW S, Fit(S), NEW l \in Livings, l \notin S.ghost, S.heart[l] = TRUE,
           NEW inv \in Seq(Livings), Range(inv) \subseteq Others(S, l),
           NEW U, Sane(U), Looked(S, U, l, inv)
    PROVE  IF Opponent(U, l) = None THEN Rested(S, U, l)
           ELSE Good(S, U) /\ Facing(S, U, l, Opponent(U, l))
  <1>1. CASE Opponent(S, l) # None
    <2>1. U = S
      BY <1>1 DEF Looked
    <2>2. /\ Opponent(S, l) = S.attack[l] /\ S.attack[l] # None
          /\ S.attack[l] \notin S.ghost /\ S.env[S.attack[l]] = S.env[l]
      BY <1>1 DEF Opponent
    <2>3. S.attack[l] \in Livings \ {l}
      BY <2>2 DEF Fit, Sane, States
    <2>4. Good(S, S)
      BY DEF Good, Answered, Settled, Over, Reciprocal
    <2>5. Facing(S, S, l, S.attack[l])
      BY <2>2, <2>3 DEF Facing
    <2>6. QED
      BY <1>1, <2>1, <2>2, <2>4, <2>5
  <1>2. CASE Opponent(S, l) = None
    <2>1. /\ Fighting(S, U, l) /\ U.enemies = S.enemies
          /\ \/ U.attack[l] \in Foes(S, l) \cap Range(inv) /\ U.heart[l] = S.heart[l]
             \/ U.attack[l] = None
      BY <1>2 DEF Looked
    <2>2. CASE U.attack[l] = None
      <3>1. Opponent(U, l) = None
        BY <2>2 DEF Opponent
      <3>2. QED
        BY <2>1, <2>2, <3>1 DEF Rested
    <2>3. CASE U.attack[l] \in Foes(S, l) \cap Range(inv) /\ U.heart[l] = S.heart[l]
      <3> DEFINE v == U.attack[l]
      <3>1. v \in Foes(S, l) /\ v \in Livings \ {l} /\ S.env[v] = S.env[l]
        BY <2>3 DEF Others
      <3>2. v \notin S.ghost /\ v # None
        BY <3>1, CombatAssumption DEF Fit, Places
      <3>3. U.heart[l] = TRUE
        BY <2>3
      <3>4. U.env = S.env /\ U.ghost = S.ghost /\ U.sparring = S.sparring
        BY <2>1 DEF Fighting
      <3>5. Opponent(U, l) = v
        BY <3>1, <3>2, <3>4 DEF Opponent
      <3>6. Rising(S, U)
        <4>1. /\ U.offers = S.offers
              /\ \A x \in Livings \ {l} : U.attack[x] = S.attack[x] /\ U.heart[x] = S.heart[x]
              /\ \A x \in Livings : Foes(U, x) = Foes(S, x)
          BY <2>1 DEF Fighting, Foes
        <4>2. \A x \in Livings : S.heart[x] = TRUE => U.heart[x] = TRUE
          BY <3>3, <4>1
        <4>3. QED
          BY <3>1, <3>2, <3>3, <3>4, <4>1, <4>2 DEF Rising
      <3>7. Mutual(S, U)
        BY <2>1 DEF Mutual, Foes
      <3>8. Good(S, U)
        BY <3>6, <3>7, RisingIsGood
      <3>9. \A x \in Livings \ {l} : U.attack[x] = S.attack[x] /\ U.heart[x] = S.heart[x]
        BY <2>1 DEF Fighting
      <3>10. \A x \in Livings : U.heart[x] = S.heart[x]
        BY <2>3, <3>9, Zenon
      <3>11. Facing(S, U, l, v)
        BY <2>1, <3>1, <3>2, <3>3, <3>4, <3>8, <3>9, <3>10 DEF Facing, Good
      <3>12. QED
        BY <3>2, <3>5, <3>8, <3>11
    <2>4. QED
      BY <2>1, <2>2, <2>3
  <1>3. QED
    BY <1>1, <1>2

\* combat_time is looked at.
LEMMA ClockFacts ==
    ASSUME NEW S, NEW U, NEW l \in Livings, NEW v, Facing(S, U, l, v)
    PROVE  Facing(S, Clock(U, l), l, v)
  <1> DEFINE b == l \in Timed
             C == [U EXCEPT !.recent[l] = b]
  <1>1. Fit(U) /\ U \in States /\ b \in BOOLEAN /\ Clock(U, l) = C
    BY DEF Facing, Fit, Sane, Clock
  <1> HIDE DEF b
  <1>2. /\ C \in States /\ C.env = U.env /\ C.ghost = U.ghost /\ C.enemies = U.enemies
        /\ C.attack = U.attack /\ C.heart = U.heart /\ C.sparring = U.sparring
    BY <1>1 DEF States
  <1> HIDE DEF C
  <1>3. Unfought(U, C)
    BY <1>2 DEF Unfought
  <1>4. Fit(C)
    <2>1. Good(U, C)
      BY <1>1, <1>2, <1>3, UnfoughtIsGood
    <2>2. QED
      BY <2>1 DEF Good
  <1>5. Facing(S, C, l, v)
    BY <1>2, <1>4 DEF Facing
  <1>6. QED
    BY <1>1, <1>5

\* Lists of livings.
LEMMA SeqMonotone ==
    ASSUME NEW X, NEW Y, X \subseteq Y, NEW s \in Seq(X)
    PROVE  s \in Seq(Y)
  <1> DEFINE n == Len(s)
  <1>1. n \in Nat /\ s \in [1 .. n -> X]
    BY LenProperties
  <1> HIDE DEF n
  <1>2. s \in [1 .. n -> Y]
    BY <1>1
  <1>3. QED
    BY <1>1, <1>2, SeqDef

LEMMA LivingsInOrder ==
    ASSUME NEW X \in SUBSET Livings, NEW s \in SetToSeqs(X)
    PROVE  s \in Seq(X) /\ s \in Seq(Livings) /\ Range(s) \subseteq X
  <1>1. IsFiniteSet(X)
    <2>1. X \subseteq Livings
      OBVIOUS
    <2>2. QED
      BY <2>1, CombatAssumption, FS_Subset
  <1>2. s \in Seq(X)
    BY <1>1, SetToSeqsFacts
  <1>3. Range(s) \in SUBSET X
    BY <1>2, RangeOfSeq
  <1>4. s \in Seq(Livings)
    BY <1>2, SeqMonotone
  <1>5. QED
    BY <1>2, <1>3, <1>4

\* After the blows l looks around where it is, or flees and looks around there.
LEMMA RoundIsGood ==
    ASSUME NEW S, Fit(S), NEW l \in Livings, l \notin S.ghost, NEW v, NEW U,
           Facing(S, U, l, v), NEW B \in Blows(Clock(U, l), l, v)
    PROVE  /\ \A inv \in Seq(Livings) : Good(S, UpdateAttack(B, l, inv))
           /\ \A r \in Rooms \ {S.env[l]} :
                \A to \in SetToSeqs(In(B, l, r)), sees, seen \in SUBSET In(B, l, r) :
                  Good(S, UpdateAttack(Moved(B, l, r, to, sees, seen), l, to))
  <1>1. Facing(S, Clock(U, l), l, v)
    BY ClockFacts
  <1>2. Struck(S, B, l)
    BY <1>1, BlowsFacts
  <1>3. Fought(S, B, l) /\ Sane(B) /\ Flying(B, l) /\ l \notin B.ghost
    BY <1>2, StruckIsFought DEF Struck, Flying
  <1>4. ASSUME NEW inv \in Seq(Livings) PROVE Good(S, UpdateAttack(B, l, inv))
    <2> DEFINE T == UpdateAttack(B, l, inv)
    <2>1. Sane(T) /\ Looked(B, T, l, inv)
      BY <1>3, UpdateAttackFacts
    <2> HIDE DEF T
    <2>2. Good(S, T)
      BY <1>3, <2>1, LookedIsGood
    <2>3. QED
      BY <2>2 DEF T
  <1>5. ASSUME NEW r \in Rooms \ {S.env[l]}, NEW to \in SetToSeqs(In(B, l, r)),
               NEW sees \in SUBSET In(B, l, r), NEW seen \in SUBSET In(B, l, r)
        PROVE  Good(S, UpdateAttack(Moved(B, l, r, to, sees, seen), l, to))
    <2> DEFINE M == Moved(B, l, r, to, sees, seen)
               T == UpdateAttack(M, l, to)
    <2>1. In(B, l, r) \in SUBSET Livings /\ In(B, l, r) \subseteq Livings \ {l}
      BY DEF In
    <2>2. to \in Seq(In(B, l, r)) /\ to \in Seq(Livings)
      BY <2>1, LivingsInOrder
    <2>3. to \in Seq(Livings \ {l}) /\ seen \in SUBSET (Livings \ {l})
      BY <2>1, <2>2, SeqMonotone
    <2>4. r \in Rooms /\ r # S.env[l]
      OBVIOUS
    <2>5. Flying(M, l) /\ Went(B, M, l, r)
      BY <1>3, <2>3, <2>4, MovedFacts
    <2> HIDE DEF M
    <2>6. Fought(S, M, l) /\ Sane(M)
      BY <1>2, <2>4, <2>5, FledIsFought DEF Flying
    <2>7. Sane(T) /\ Looked(M, T, l, to)
      BY <2>2, <2>6, UpdateAttackFacts
    <2> HIDE DEF T
    <2>8. Good(S, T)
      BY <2>6, <2>7, LookedIsGood
    <2>9. QED
      BY <2>8 DEF T, M
  <1>6. QED
    BY <1>4, <1>5

-----------------------------------------------------------------------------
(***************************************************************************)
(* The steps.                                                              *)
(***************************************************************************)
\* The state of all livings takes a good step.
Improves == \E T : Good(State, T) /\ Becomes(T)

StateFields ==
    /\ State.env = env /\ State.ghost = ghost /\ State.enemies = enemies
    /\ State.attack = attack /\ State.heart = heart /\ State.recent = recent
    /\ State.sparring = sparring /\ State.offers = offers

LEMMA StateHasFields == StateFields
  BY DEF StateFields, State

\* Who acts is no ghost.
LEMMA ActiveFacts ==
    ASSUME Fit(State), NEW l \in Livings, Active(l)
    PROVE  l \notin State.ghost
  <1>1. State.env[l] \in Rooms
    BY StateHasFields DEF Active, StateFields
  <1>2. State.env[l] # Hospital
    BY <1>1, CombatAssumption
  <1>3. QED
    BY <1>2 DEF Fit, Places

LEMMA KillSteps ==
    ASSUME Fit(State), NEW l \in Livings, NEW v \in Livings, Kill(l, v)
    PROVE  Improves
  <1> DEFINE S == State
             T == Attack(S, l, v)
  <1>1. v \in Livings \ {l} /\ Becomes(T)
    BY DEF Kill, Others
  <1>2. Fit(S) /\ Sane(S)
    BY DEF Fit
  <1> HIDE DEF S
  <1>3. Sane(T) /\ Engaged(S, T, l, v)
    BY <1>1, <1>2, AttackFacts
  <1>4. Rising(S, T) /\ (Roomy => Mutual(S, T))
    <2> DEFINE F == {v}
    <2>1. v \in F /\ {l, v} # {l, l}
      BY <1>1
    <2> HIDE DEF F
    <2>2. Fiercer(S, T, l, F, l, l)
      BY <1>1, <1>2, <1>3, <2>1, EngagedIsFiercer
    <2>3. QED
      BY <2>2 DEF Fiercer
  <1> HIDE DEF T
  <1>5. Good(S, T)
    BY <1>2, <1>3, <1>4, RisingIsGood
  <1>6. QED
    BY <1>1, <1>5 DEF Improves, S, T

LEMMA WalkSteps ==
    ASSUME Fit(State), NEW l \in Livings, NEW r \in Rooms, Walk(l, r)
    PROVE  Improves
  <1> DEFINE S == State
             X == In(S, l, r)
  <1>1. X \in SUBSET Livings /\ X \subseteq Livings \ {l}
    BY DEF In
  <1>2. r # S.env[l] /\ l \notin S.ghost
    BY ActiveFacts, StateHasFields DEF Walk, StateFields
  <1>3. PICK inv \in SetToSeqs(X), sees \in SUBSET X, seen \in SUBSET X :
          Becomes(Moved(S, l, r, inv, sees, seen))
    BY DEF Walk
  <1> DEFINE T == Moved(S, l, r, inv, sees, seen)
  <1>4. Fit(S) /\ Flying(S, l)
    BY DEF Fit, Flying
  <1> HIDE DEF S, X
  <1>5. inv \in Seq(X)
    BY <1>1, LivingsInOrder
  <1>6. inv \in Seq(Livings \ {l}) /\ seen \in SUBSET (Livings \ {l})
    BY <1>1, <1>5, SeqMonotone
  <1>7. Flying(T, l) /\ Went(S, T, l, r)
    BY <1>2, <1>4, <1>6, MovedFacts
  <1> HIDE DEF T
  <1>8. Good(S, T)
    BY <1>2, <1>4, <1>7, WentIsGood
  <1>9. Becomes(T)
    BY <1>3 DEF T
  <1>10. QED
    BY <1>8, <1>9 DEF Improves, S

LEMMA WalkFailsSteps ==
    ASSUME Fit(State), NEW l \in Livings, WalkFails(l)
    PROVE  Improves
  <1> DEFINE T == LeaveFight(State, l)
  <1>1. Sane(T) /\ Left(State, T, l)
    BY LeaveFightFacts DEF Fit
  <1>2. Becomes(T)
    BY DEF WalkFails
  <1> HIDE DEF T
  <1>3. Good(State, T)
    BY <1>1, LeftIsGood
  <1>4. QED
    BY <1>2, <1>3 DEF Improves

LEMMA AppearSteps ==
    ASSUME Fit(State), NEW l \in Livings, NEW ls \in SUBSET Livings, Appear(l, ls)
    PROVE  Improves
  <1> DEFINE T == CombatInit(State, ls, l)
  <1>1. ls \in SUBSET (Livings \ {l}) /\ Becomes(T) /\ Sane(State)
    BY DEF Appear, Others, Fit
  <1>2. Fiercer(State, T, l, {}, l, l)
    BY <1>1, CombatInitFacts
  <1> HIDE DEF T
  <1>3. Sane(T) /\ Rising(State, T) /\ (Roomy => Mutual(State, T))
    BY <1>2 DEF Fiercer
  <1>4. Good(State, T)
    BY <1>3, RisingIsGood
  <1>5. QED
    BY <1>1, <1>4 DEF Improves

LEMMA DieSteps ==
    ASSUME Fit(State), NEW l \in Livings, Die(l)
    PROVE  Improves
  <1>1. l \notin State.ghost
    BY ActiveFacts DEF Die
  <1>2. Good(State, DoDie(State, l, None))
    BY <1>1, DieIsGood
  <1>3. QED
    BY <1>2 DEF Die, Improves

LEMMA FetchSteps ==
    ASSUME Fit(State), NEW l \in Livings, Fetch(l)
    PROVE  Improves
  <1>1. Good(State, Destruct(State, l))
    BY DestructIsGood
  <1>2. QED
    BY <1>1 DEF Fetch, Improves

LEMMA PeaceSteps ==
    ASSUME Fit(State), NEW l \in Livings, Peace(l)
    PROVE  Improves
  <1> DEFINE T == CallAll(StopFight(State, l, Range(State.enemies[l])),
                          ByEach("cb_stop_fight", State.enemies[l], l))
  <1>1. Good(State, T)
    BY PeaceIsGood
  <1>2. State.enemies = enemies
    BY StateHasFields DEF StateFields
  <1>3. Becomes(T)
    BY <1>2 DEF Peace
  <1> HIDE DEF T
  <1>4. QED
    BY <1>1, <1>3 DEF Improves

LEMMA SparSteps ==
    ASSUME Fit(State), NEW l \in Livings, NEW m \in Livings, Spar(l, m)
    PROVE  Improves
  <1> DEFINE S == State
             X == S.sparring[l] \cup {m}
             T == [S EXCEPT !.sparring[l] = X]
  <1>1. S \in States /\ S.sparring \in [Livings -> SUBSET Livings]
    BY DEF Fit, Sane, States
  <1>2. Becomes(T)
    BY DEF Spar
  <1>3. X \in SUBSET Livings /\ S.sparring[l] \subseteq X
    BY <1>1
  <1> HIDE DEF S, X
  <1>4. /\ T \in States /\ T.sparring = [S.sparring EXCEPT ![l] = X] /\ T.env = S.env
        /\ T.ghost = S.ghost /\ T.enemies = S.enemies /\ T.attack = S.attack /\ T.heart = S.heart
    BY <1>1, <1>3 DEF States
  <1> HIDE DEF T
  <1>5. \A x \in Livings : S.sparring[x] \subseteq T.sparring[x]
    BY <1>1, <1>3, <1>4
  <1>6. Unfought(S, T) /\ Fit(S)
    BY <1>4 DEF Unfought, S
  <1>7. Good(S, T)
    BY <1>4, <1>5, <1>6, UnfoughtIsGood
  <1>8. QED
    BY <1>2, <1>7 DEF Improves, S

\* Only offers of peace, or clocks, are different.
LEMMA AfterwardsGood ==
    ASSUME NEW S, NEW W, Good(S, W), NEW T, T \in States, Unfought(W, T),
           T.sparring = W.sparring
    PROVE  Good(S, T)
  <1>1. /\ T.env = W.env /\ T.ghost = W.ghost /\ T.enemies = W.enemies
        /\ T.attack = W.attack /\ T.heart = W.heart
    BY DEF Unfought
  <1>2. \A x \in Livings : Foes(T, x) = Foes(W, x)
    BY <1>1 DEF Foes
  <1>3. Fit(T)
    <2>1. Fit(W)
      BY DEF Good
    <2>2. Good(W, T)
      BY <2>1, UnfoughtIsGood
    <2>3. QED
      BY <2>2 DEF Good
  <1>4. Answered(S, T)
    BY <1>1, <1>2 DEF Good, Answered
  <1>5. Settled(S, T)
    BY <1>1 DEF Good, Settled, Idling
  <1>6. Over(S, T)
    BY <1>1, <1>2 DEF Good, Over, Apart
  <1>7. Roomy => Reciprocal(S, T)
    BY <1>1, <1>2 DEF Good, Reciprocal
  <1>8. QED
    BY <1>3, <1>4, <1>5, <1>6, <1>7 DEF Good

LEMMA OfferFacts ==
    ASSUME NEW S, NEW W, Good(S, W), NEW l \in Livings, NEW X \in SUBSET Livings
    PROVE  Good(S, [W EXCEPT !.offers[l] = X])
  <1> DEFINE T == [W EXCEPT !.offers[l] = X]
  <1>1. W \in States
    BY DEF Good, Fit, Sane
  <1>2. /\ T \in States /\ T.env = W.env /\ T.ghost = W.ghost /\ T.enemies = W.enemies
        /\ T.attack = W.attack /\ T.heart = W.heart /\ T.sparring = W.sparring
    BY <1>1 DEF States
  <1> HIDE DEF T
  <1>3. Unfought(W, T)
    BY <1>2 DEF Unfought
  <1>4. Good(S, T)
    BY <1>2, <1>3, AfterwardsGood
  <1>5. QED
    BY <1>4 DEF T

\* Nothing happens.
LEMMA StutterIsGood ==
    ASSUME NEW S, Fit(S)
    PROVE  Good(S, S)
  BY DEF Good, Answered, Settled, Over, Reciprocal

LEMMA StopSteps ==
    ASSUME Fit(State), NEW l \in Livings, NEW m \in Livings, Stop(l, m)
    PROVE  Improves
  <1> DEFINE S == State
  <1>1. l # m /\ Fit(S) /\ Sane(S)
    BY DEF Stop, Others, Fit
  <1>2. S.offers \in [Livings -> SUBSET Livings]
    BY <1>1 DEF Sane, States
  <1>3. CASE Becomes([StopFight(StopFight(S, l, {m}), m, {l}) EXCEPT !.offers[m] = @ \ {l}])
    <2> DEFINE a == {m}
               b == {l}
               U == StopFight(S, l, a)
               W == StopFight(U, m, b)
               X == W.offers[m] \ {l}
               T == [W EXCEPT !.offers[m] = X]
    <2>1. Becomes(T)
      BY <1>3
    <2> HIDE DEF S
    <2>2. Sane(U) /\ Ceased(S, U, l, a)
      BY <1>1, StopFightFacts
    <2> HIDE DEF U
    <2>3. Sane(W) /\ Ceased(U, W, m, b)
      BY <2>2, StopFightFacts
    <2> HIDE DEF W
    <2>4. Truce(S, W, l, m) /\ W.sparring = S.sparring
      BY <1>1, <2>2, <2>3, TruceFacts DEF a, b
    <2>5. Good(S, W)
      BY <1>1, <2>4, TruceIsGood
    <2>6. X \in SUBSET Livings
      BY <2>3 DEF Sane, States
    <2> HIDE DEF X
    <2>7. Good(S, T)
      BY <2>5, <2>6, OfferFacts
    <2>8. QED
      BY <2>1, <2>7 DEF Improves, S
  <1>4. CASE Becomes([S EXCEPT !.offers[l] = @ \cup {m}])
    <2> DEFINE X == S.offers[l] \cup {m}
               T == [S EXCEPT !.offers[l] = X]
    <2>1. Becomes(T) /\ X \in SUBSET Livings
      BY <1>2, <1>4
    <2> HIDE DEF S, X
    <2>2. Good(S, T)
      BY <1>1, <2>1, StutterIsGood, OfferFacts
    <2>3. QED
      BY <2>1, <2>2 DEF Improves, S
  <1>5. QED
    BY <1>3, <1>4 DEF Stop

LEMMA ExpireSteps ==
    ASSUME Fit(State), NEW l \in Livings, NEW m \in Livings, Expire(l, m)
    PROVE  Improves
  <1> DEFINE S == State
             X == S.offers[l] \ {m}
             T == [S EXCEPT !.offers[l] = X]
  <1>1. Becomes(T)
    BY DEF Expire
  <1>2. Fit(S) /\ S.offers \in [Livings -> SUBSET Livings]
    BY DEF Fit, Sane, States
  <1>3. X \in SUBSET Livings
    BY <1>2
  <1> HIDE DEF S, X
  <1>4. Good(S, T)
    BY <1>2, <1>3, StutterIsGood, OfferFacts
  <1>5. QED
    BY <1>1, <1>4 DEF Improves, S

LEMMA CalmSteps ==
    ASSUME Fit(State), NEW l \in Livings, Calm(l)
    PROVE  Improves
  <1> DEFINE S == State
             T == [S EXCEPT !.recent[l] = FALSE]
  <1>1. Becomes(T) /\ Fit(S)
    BY DEF Calm
  <1>2. S \in States
    BY DEF Fit, Sane
  <1> HIDE DEF S
  <1>3. /\ T \in States /\ T.env = S.env /\ T.ghost = S.ghost /\ T.enemies = S.enemies
        /\ T.attack = S.attack /\ T.heart = S.heart /\ T.sparring = S.sparring
    BY <1>2 DEF States
  <1>4. Unfought(S, T)
    BY <1>3 DEF Unfought
  <1> HIDE DEF T
  <1>5. Good(S, T)
    BY <1>1, <1>3, <1>4, StutterIsGood, AfterwardsGood
  <1>6. QED
    BY <1>1, <1>5 DEF Improves, S

LEMMA BornSteps ==
    ASSUME Fit(State), NEW l \in Livings, NEW r \in Rooms, Born(l, r)
    PROVE  Improves
  <1> DEFINE S == State
             T == [S EXCEPT !.env[l] = r]
  <1>1. Becomes(T) /\ S.env[l] = None
    BY StateHasFields DEF Born, StateFields
  <1>2. Fit(S) /\ S \in States /\ S.env \in [Livings -> Rooms \cup {Hospital, None}]
    BY DEF Fit, Sane, States
  <1> HIDE DEF S
  <1>3. /\ T \in States /\ T.env = [S.env EXCEPT ![l] = r] /\ T.ghost = S.ghost
        /\ T.enemies = S.enemies /\ T.attack = S.attack /\ T.heart = S.heart
        /\ T.sparring = S.sparring
    BY <1>2 DEF States
  <1>4. T.env[l] = r /\ \A x \in Livings \ {l} : T.env[x] = S.env[x]
    BY <1>2, <1>3
  <1> HIDE DEF T
  <1>5. \A x \in Livings : Foes(T, x) = Foes(S, x)
    BY <1>3 DEF Foes
  <1>6. Fit(T)
    <2>1. Sane(T)
      BY <1>2, <1>3 DEF Fit, Sane
    <2>2. Places(T)
      <3>1. Hospital # None /\ r # Hospital
        BY CombatAssumption
      <3>2. QED
        BY <1>1, <1>2, <1>3, <1>4, <3>1 DEF Fit, Places
    <2>3. QED
      BY <1>2, <1>3, <1>5, <2>1, <2>2 DEF Fit, Aimed
  <1>7. Answered(S, T) /\ Settled(S, T) /\ Over(S, T) /\ Reciprocal(S, T)
    BY <1>3, <1>5 DEF Answered, Settled, Idling, Over, Reciprocal
  <1>8. QED
    BY <1>1, <1>6, <1>7 DEF Good, Improves, S

\* The heart of a ghost beats.
LEMMA GhostSteps ==
    ASSUME Fit(State), NEW l \in Livings,
           Becomes([State EXCEPT !.attack[l] = None, !.heart[l] = FALSE])
    PROVE  Improves
  <1> DEFINE S == State
             b == FALSE
             U == [S EXCEPT !.attack[l] = None]
             T == [U EXCEPT !.heart[l] = b]
  <1>1. S \in States /\ Sane(S) /\ Fit(S)
    BY DEF Fit, Sane
  <1>2. [S EXCEPT !.attack[l] = None, !.heart[l] = FALSE] = T
    BY <1>1
  <1>3. Becomes(T) /\ b \in BOOLEAN
    BY <1>2
  <1> HIDE DEF S, b
  <1>4. /\ U \in States /\ U.attack = [S.attack EXCEPT ![l] = None] /\ U.env = S.env
        /\ U.ghost = S.ghost /\ U.enemies = S.enemies /\ U.heart = S.heart
        /\ U.recent = S.recent /\ U.sparring = S.sparring /\ U.offers = S.offers
    BY <1>1 DEF States
  <1>5. U.attack[l] = None /\ \A x \in Livings \ {l} : U.attack[x] = S.attack[x]
    BY <1>1, <1>4 DEF States
  <1> HIDE DEF U
  <1>6. Sane(U)
    BY <1>1, <1>4, <1>5, CombatAssumption DEF Sane
  <1>7. Rested(S, U, l)
    BY <1>4, <1>5, <1>6 DEF Rested, Fighting
  <1>8. Rested(S, T, l)
    BY <1>3, <1>7, RestedFacts
  <1> HIDE DEF T
  <1>9. Good(S, T)
    BY <1>1, <1>8, RestedIsGood
  <1>10. QED
    BY <1>3, <1>9 DEF Improves, S

LEMMA RoundSteps ==
    ASSUME Fit(State), NEW l \in Livings, l \notin State.ghost, State.heart[l] = TRUE,
           NEW inv \in SetToSeqs(Others(State, l)), Round(l, inv)
    PROVE  Improves
  <1> DEFINE S == State
             U == UpdateAttack(S, l, inv)
             v == Opponent(U, l)
             C == Clock(U, l)
             b == U.heart[l] /\ recent[l]
  <1>1. Others(S, l) \in SUBSET Livings
    BY DEF Others
  <1>2. inv \in Seq(Livings) /\ Range(inv) \subseteq Others(S, l)
    BY <1>1, LivingsInOrder
  <1>3. Fit(S) /\ Sane(S) /\ l \notin S.ghost /\ S.heart[l] = TRUE
    BY DEF Fit
  <1>4. S.env = env
    BY StateHasFields DEF StateFields
  <1>5. \/ v = None /\ Becomes([U EXCEPT !.heart[l] = b])
        \/ v # None /\ Becomes(U)
        \/ v # None /\ \E B \in Blows(C, l, v) :
             \/ Becomes(UpdateAttack(B, l, inv))
             \/ \E r \in Rooms \ {S.env[l]} :
                \E to \in SetToSeqs(In(B, l, r)), sees, seen \in SUBSET In(B, l, r) :
                   Becomes(UpdateAttack(Moved(B, l, r, to, sees, seen), l, to))
    BY <1>4 DEF Round
  <1> HIDE DEF S
  <1>6. Sane(U) /\ Looked(S, U, l, inv)
    BY <1>2, <1>3, UpdateAttackFacts
  <1> HIDE DEF U
  <1>7. IF v = None THEN Rested(S, U, l) ELSE Good(S, U) /\ Facing(S, U, l, v)
    BY <1>2, <1>3, <1>6, FaceFacts
  <1>8. CASE v = None
    <2>1. b \in BOOLEAN /\ Rested(S, U, l)
      BY <1>7, <1>8
    <2>2. Becomes([U EXCEPT !.heart[l] = b])
      BY <1>5, <1>8
    <2> DEFINE T == [U EXCEPT !.heart[l] = b]
    <2> HIDE DEF b
    <2>3. Rested(S, T, l)
      BY <2>1, RestedFacts
    <2>4. Becomes(T)
      BY <2>2
    <2> HIDE DEF T
    <2>5. Good(S, T)
      BY <1>3, <2>3, RestedIsGood
    <2>6. QED
      BY <2>4, <2>5 DEF Improves, S
  <1>9. CASE v # None
    <2>1. Good(S, U) /\ Facing(S, U, l, v)
      BY <1>7, <1>9
    <2> HIDE DEF v
    <2>2. ASSUME NEW B \in Blows(C, l, v)
          PROVE  /\ Good(S, UpdateAttack(B, l, inv))
                 /\ \A r \in Rooms \ {S.env[l]} :
                      \A to \in SetToSeqs(In(B, l, r)), sees, seen \in SUBSET In(B, l, r) :
                        Good(S, UpdateAttack(Moved(B, l, r, to, sees, seen), l, to))
      BY <1>2, <1>3, <2>1, <2>2, RoundIsGood
    <2>3. CASE Becomes(U)
      BY <2>1, <2>3 DEF Improves, S
    <2>4. CASE \E B \in Blows(C, l, v) :
                 \/ Becomes(UpdateAttack(B, l, inv))
                 \/ \E r \in Rooms \ {S.env[l]} :
                    \E to \in SetToSeqs(In(B, l, r)), sees, seen \in SUBSET In(B, l, r) :
                       Becomes(UpdateAttack(Moved(B, l, r, to, sees, seen), l, to))
      <3>1. \E T : Good(S, T) /\ Becomes(T)
        BY <2>2, <2>4, Zenon
      <3>2. QED
        BY <3>1 DEF Improves, S
    <2>5. QED
      BY <1>5, <1>9, <2>3, <2>4
  <1>10. QED
    BY <1>8, <1>9

LEMMA BeatSteps ==
    ASSUME Fit(State), NEW l \in Livings, Beat(l)
    PROVE  Improves
  <1>1. heart[l] /\ State.ghost = ghost /\ State.heart = heart
    BY StateHasFields DEF Beat, StateFields
  <1>2. State.heart[l] \in BOOLEAN
    BY DEF Fit, Sane, States
  <1>3. State.heart[l] = TRUE
    BY <1>1, <1>2
  <1>4. CASE l \in ghost
    BY <1>4, GhostSteps DEF Beat
  <1>5. CASE l \notin ghost
    <2>1. PICK inv \in SetToSeqs(Others(State, l)) : Round(l, inv)
      BY <1>5 DEF Beat
    <2>2. l \notin State.ghost
      BY <1>1, <1>5
    <2>3. QED
      BY <1>3, <2>1, <2>2, RoundSteps
  <1>6. QED
    BY <1>4, <1>5

LEMMA InitIsFit ==
    ASSUME Init
    PROVE  Fit(State)
  <1> DEFINE S == State
             e == <<>>
  <1>1. /\ S.env \in [Livings -> Rooms] /\ S.ghost = {} /\ S.enemies = [x \in Livings |-> e]
        /\ S.attack = [x \in Livings |-> None] /\ S.heart = [x \in Livings |-> FALSE]
        /\ S.recent = [x \in Livings |-> FALSE] /\ S.sparring = [x \in Livings |-> {}]
        /\ S.offers = [x \in Livings |-> {}]
    BY StateHasFields DEF Init, StateFields
  <1>2. e \in Seq(Livings) /\ \A x \in Livings : Proper(e, x) /\ None # x
    BY ProperEmpty, CombatAssumption
  <1>3. S \in States
    <2>1. S = [env |-> S.env, ghost |-> S.ghost, enemies |-> S.enemies, attack |-> S.attack,
               heart |-> S.heart, recent |-> S.recent, sparring |-> S.sparring,
               offers |-> S.offers]
      BY DEF State
    <2> HIDE DEF S, e
    <2>2. /\ S.env \in [Livings -> Rooms \cup {Hospital, None}] /\ S.ghost \in SUBSET Players
          /\ S.enemies \in [Livings -> Seq(Livings)] /\ S.attack \in [Livings -> Livings \cup {None}]
          /\ S.heart \in [Livings -> BOOLEAN] /\ S.recent \in [Livings -> BOOLEAN]
          /\ S.sparring \in [Livings -> SUBSET Livings] /\ S.offers \in [Livings -> SUBSET Livings]
      BY <1>1, <1>2
    <2>3. QED
      BY <2>1, <2>2 DEF States
  <1> HIDE DEF S, e
  <1>4. Sane(S)
    BY <1>1, <1>2, <1>3 DEF Sane
  <1>5. Places(S)
    BY <1>1, CombatAssumption DEF Places
  <1>6. \A x \in Livings : Aimed(S, x)
    BY <1>1 DEF Aimed
  <1>7. QED
    BY <1>4, <1>5, <1>6 DEF Fit, S

LEMMA NextImproves ==
    ASSUME Fit(State), Next
    PROVE  Improves
  <1>1. Talkers \subseteq Livings
    BY CombatAssumption
  <1>2. CASE \E l \in Livings :
               \/ WalkFails(l) \/ Peace(l) \/ Beat(l) \/ Calm(l) \/ Die(l) \/ Fetch(l)
               \/ \E v \in Livings : Kill(l, v)
               \/ \E r \in Rooms : Walk(l, r) \/ Born(l, r)
               \/ \E ls \in SUBSET Livings : Appear(l, ls)
    <2>1. PICK l \in Livings :
               \/ WalkFails(l) \/ Peace(l) \/ Beat(l) \/ Calm(l) \/ Die(l) \/ Fetch(l)
               \/ \E v \in Livings : Kill(l, v)
               \/ \E r \in Rooms : Walk(l, r) \/ Born(l, r)
               \/ \E ls \in SUBSET Livings : Appear(l, ls)
      BY <1>2
    <2>2. CASE WalkFails(l)
      BY <2>2, WalkFailsSteps
    <2>3. CASE Peace(l)
      BY <2>3, PeaceSteps
    <2>4. CASE Beat(l)
      BY <2>4, BeatSteps
    <2>5. CASE Calm(l)
      BY <2>5, CalmSteps
    <2>6. CASE Die(l)
      BY <2>6, DieSteps
    <2>7. CASE Fetch(l)
      BY <2>7, FetchSteps
    <2>8. CASE \E v \in Livings : Kill(l, v)
      BY <2>8, KillSteps
    <2>9. CASE \E r \in Rooms : Walk(l, r) \/ Born(l, r)
      BY <2>9, WalkSteps, BornSteps
    <2>10. CASE \E ls \in SUBSET Livings : Appear(l, ls)
      BY <2>10, AppearSteps
    <2>11. QED
      BY <2>1, <2>2, <2>3, <2>4, <2>5, <2>6, <2>7, <2>8, <2>9, <2>10
  <1>3. CASE \E l, m \in Talkers : Spar(l, m) \/ Stop(l, m) \/ Expire(l, m)
    <2>1. PICK l \in Talkers, m \in Talkers : Spar(l, m) \/ Stop(l, m) \/ Expire(l, m)
      BY <1>3
    <2>2. l \in Livings /\ m \in Livings
      BY <1>1
    <2>3. CASE Spar(l, m)
      BY <2>2, <2>3, SparSteps
    <2>4. CASE Stop(l, m)
      BY <2>2, <2>4, StopSteps
    <2>5. CASE Expire(l, m)
      BY <2>2, <2>5, ExpireSteps
    <2>6. QED
      BY <2>1, <2>3, <2>4, <2>5
  <1>4. QED
    BY <1>2, <1>3 DEF Next

LEMMA StepsAreGood ==
    ASSUME Fit(State), [Next]_vars
    PROVE  Good(State, State')
  <1>1. CASE Next
    <2>1. PICK T : Good(State, T) /\ Becomes(T)
      BY <1>1, NextImproves DEF Improves
    <2>2. T \in States
      BY <2>1 DEF Good, Fit, Sane
    <2>3. T = [env |-> T.env, ghost |-> T.ghost, enemies |-> T.enemies, attack |-> T.attack,
               heart |-> T.heart, recent |-> T.recent, sparring |-> T.sparring,
               offers |-> T.offers]
      BY <2>2 DEF States
    <2>4. State' = T
      BY <2>1, <2>3 DEF Becomes, State
    <2>5. QED
      BY <2>1, <2>4
  <1>2. CASE UNCHANGED vars
    <2>1. State' = State
      BY <1>2 DEF vars, State
    <2>2. Good(State, State)
      BY StutterIsGood
    <2>3. QED
      BY <2>1, <2>2
  <1>3. QED
    BY <1>1, <1>2

LEMMA AlwaysFit == Spec => []Fit(State)
  <1>1. Init => Fit(State)
    BY InitIsFit
  <1>2. Fit(State) /\ [Next]_vars => Fit(State)'
    <2>1. SUFFICES ASSUME Fit(State), [Next]_vars PROVE Fit(State)'
      OBVIOUS
    <2>2. Fit(State')
      BY <2>1, StepsAreGood DEF Good
    <2>3. QED
      BY <2>2
  <1>3. QED
    BY <1>1, <1>2, PTL DEF Spec

LEMMA NextFields ==
    /\ State'.env = env' /\ State'.enemies = enemies' /\ State'.attack = attack'
    /\ State'.heart = heart' /\ State'.sparring = sparring'
  BY DEF State

\* A step starts from a fit state, and both states have the fields of the variables.
Step ==
    /\ Fit(State) /\ Good(State, State')
    /\ env \in [Livings -> Rooms \cup {Hospital, None}]
    /\ heart \in [Livings -> BOOLEAN] /\ heart' \in [Livings -> BOOLEAN]
    /\ \A x \in Livings :
         /\ Foes(State, x) = Range(enemies[x]) /\ Foes(State', x) = Range(enemies'[x])
         /\ State.attack[x] = attack[x] /\ State'.attack[x] = attack'[x]
         /\ State.heart[x] = heart[x] /\ State'.heart[x] = heart'[x]
         /\ State.env[x] = env[x] /\ State'.env[x] = env'[x]
         /\ State.sparring[x] = sparring[x] /\ State'.sparring[x] = sparring'[x]

LEMMA Steps ==
    ASSUME Fit(State), [Next]_vars
    PROVE  Step
  <1>1. Good(State, State')
    BY StepsAreGood
  <1>2. State \in States /\ State' \in States
    BY <1>1 DEF Good, Fit, Sane
  <1>3. /\ State.env = env /\ State.enemies = enemies /\ State.attack = attack
        /\ State.heart = heart /\ State.sparring = sparring
    BY StateHasFields DEF StateFields
  <1>4. /\ State.env \in [Livings -> Rooms \cup {Hospital, None}]
        /\ State.heart \in [Livings -> BOOLEAN] /\ State'.heart \in [Livings -> BOOLEAN]
    BY <1>2 DEF States
  <1>5. \A x \in Livings :
          /\ State.heart[x] = heart[x] /\ State'.heart[x] = heart'[x]
          /\ Foes(State, x) = Range(enemies[x]) /\ Foes(State', x) = Range(enemies'[x])
          /\ State.attack[x] = attack[x] /\ State'.attack[x] = attack'[x]
          /\ State.env[x] = env[x] /\ State'.env[x] = env'[x]
          /\ State.sparring[x] = sparring[x] /\ State'.sparring[x] = sparring'[x]
    BY <1>3, NextFields, Zenon DEF Foes
  <1>6. QED
    BY <1>1, <1>3, <1>4, <1>5, NextFields DEF Step

-----------------------------------------------------------------------------
(***************************************************************************)
(* The theorems.                                                           *)
(***************************************************************************)
\* Every list of enemies is short, names nobody twice and never its owner
\* (cb_add_enemy, cb_stop_fight), whatever livings fight, walk, spar, die and are
\* destructed.
THEOREM CombatTypes == Spec => []TypeOK
  <1>1. Fit(State) => TypeOK
    <2>1. SUFFICES ASSUME Fit(State) PROVE TypeOK
      OBVIOUS
    <2>2. State \in States /\ \A x \in Livings : Proper(State.enemies[x], x)
      BY <2>1 DEF Fit, Sane
    <2>3. /\ env \in [Livings -> Rooms \cup {Hospital, None}] /\ ghost \subseteq Players
          /\ attack \in [Livings -> Livings \cup {None}] /\ heart \in [Livings -> BOOLEAN]
          /\ recent \in [Livings -> BOOLEAN] /\ sparring \in [Livings -> SUBSET Livings]
          /\ offers \in [Livings -> SUBSET Livings]
      BY <2>2 DEF States, State
    <2>4. \A x \in Livings : Proper(enemies[x], x)
      BY <2>2, StateHasFields DEF StateFields
    <2>5. QED
      BY <2>3, <2>4 DEF TypeOK, Proper
  <1>2. QED
    BY AlwaysFit, <1>1, PTL

\* When every list has room for all others, nobody ever attacks one who is not on
\* its list: walking out, being forgiven, killing, fleeing, losing a bout and the
\* destruction of a body take the target away together with the enemy. (With a full
\* list cb_add_enemy drops the last one, who may be the target.)
THEOREM CombatTargetIsEnemy ==
    ASSUME Roomy
    PROVE  Spec => []TargetIsEnemy
  <1>1. Fit(State) => TargetIsEnemy
    <2>1. SUFFICES ASSUME Fit(State), NEW l \in Livings, attack[l] # None
                   PROVE  Hunts(State, l, attack[l])
      BY DEF TargetIsEnemy
    <2>2. Aimed(State, l) /\ State.attack = attack
      BY <2>1, StateHasFields DEF Fit, StateFields
    <2>3. QED
      BY <2>1, <2>2 DEF Aimed, Hunts, Foes
  <1>2. QED
    BY AlwaysFit, <1>1, PTL

\* Whoever has a new enemy at the end of a step - it attacked, was attacked, was seen
\* by a hunter, was hit - fights then: its heart beats and it has a target. Neither
\* the list being full (cb_add_enemy drops the newcomer) nor a walk, a flight or a
\* death in the same step makes an exception.
THEOREM CombatFoesAreAnswered == Spec => FoesAreAnswered
  <1>1. Fit(State) /\ [Next]_vars =>
          \A l \in Livings : ~(Range(enemies'[l]) \subseteq Range(enemies[l]))
                               => heart'[l] /\ attack'[l] # None
    <2>1. SUFFICES ASSUME Fit(State), [Next]_vars, NEW l \in Livings,
                          ~(Range(enemies'[l]) \subseteq Range(enemies[l]))
                   PROVE  heart'[l] /\ attack'[l] # None
      OBVIOUS
    <2>2. Step
      BY <2>1, Steps
    <2>3. State'.heart[l] = TRUE /\ State'.attack[l] # None
      BY <2>1, <2>2 DEF Step, Good, Answered
    <2>4. QED
      BY <2>2, <2>3 DEF Step
  <1>2. QED
    BY AlwaysFit, <1>1, PTL DEF Spec, FoesAreAnswered

\* A step after which a living has a target and a heart at rest, as it had not before,
\* is one in which its heart was at rest already and nobody went anywhere: it was made
\* to stop fighting somebody (stop fighting, peace, a lost bout) while another enemy,
\* whom cb_stop_fight turns to, was there. No walk, arrival, flight, death or beat of
\* its own heart leaves it idle.
THEOREM CombatIdleNeedsStop == Spec => IdleNeedsStop
  <1>1. Fit(State) /\ [Next]_vars =>
          \A l \in Livings : (Idle(l))' /\ ~Idle(l) => ~heart[l] /\ env' = env
    <2>1. SUFFICES ASSUME Fit(State), [Next]_vars, NEW l \in Livings, (Idle(l))', ~Idle(l)
                   PROVE  ~heart[l] /\ env' = env
      OBVIOUS
    <2>2. Step
      BY <2>1, Steps
    <2>3. attack'[l] # None /\ ~heart'[l] /\ (attack[l] = None \/ heart[l])
      BY <2>1 DEF Idle
    <2>4. heart'[l] # TRUE /\ (attack[l] = None \/ heart[l] = TRUE)
      BY <2>2, <2>3 DEF Step
    <2>5. Idling(State', l)
      BY <2>2, <2>4, <2>3 DEF Step, Idling
    <2>6. ~Idling(State, l)
      BY <2>2, <2>4 DEF Step, Idling
    <2>7. State.heart[l] # TRUE /\ State'.env = State.env
      BY <2>2, <2>5, <2>6 DEF Step, Good, Settled
    <2>8. heart[l] # TRUE
      BY <2>2, <2>7, Zenon DEF Step
    <2>9. env' = env
      BY <2>7, NextFields, StateHasFields DEF StateFields
    <2>10. QED
      BY <2>8, <2>9
  <1>2. QED
    BY AlwaysFit, <1>1, PTL DEF Spec, IdleNeedsStop

\* When a bout of sparring ends and neither was destructed, the two are off each
\* other's lists and neither attacks the other, whoever of them fled after the last
\* blow and whoever else is in the room (do_die, cb_stop_fight, heart_beat).
THEOREM CombatBoutIsOver == Spec => BoutIsOver
  <1>1. Fit(State) /\ [Next]_vars =>
          \A l, k \in Livings :
            (k \in sparring[l] \ sparring'[l] /\ env'[k] # None /\ env'[l] # None)
            => k \notin Range(enemies'[l]) /\ l \notin Range(enemies'[k])
               /\ attack'[l] # k /\ attack'[k] # l
    <2>1. SUFFICES ASSUME Fit(State), [Next]_vars, NEW l \in Livings, NEW k \in Livings,
                          k \in sparring[l] \ sparring'[l], env'[k] # None, env'[l] # None
                   PROVE  k \notin Range(enemies'[l]) /\ l \notin Range(enemies'[k])
                          /\ attack'[l] # k /\ attack'[k] # l
      OBVIOUS
    <2>2. Step
      BY <2>1, Steps
    <2>3. /\ k \in State.sparring[l] /\ k \notin State'.sparring[l]
          /\ State'.env[l] # None /\ State'.env[k] # None
      BY <2>1, <2>2 DEF Step
    <2>4. Apart(State', l, k)
      BY <2>2, <2>3 DEF Step, Good, Over
    <2>5. QED
      BY <2>2, <2>4 DEF Step, Apart
  <1>2. QED
    BY AlwaysFit, <1>1, PTL DEF Spec, BoutIsOver

\* When every list has room for all others, two livings that stay where they are
\* become enemies of each other in one step or not at all, and stop being enemies
\* together unless one of them turned its back on the whole room (adjust_combat_on_move).
THEOREM CombatEnmityIsMutual ==
    ASSUME Roomy
    PROVE  Spec => EnmityIsMutual
  <1>1. Fit(State) /\ [Next]_vars =>
          \A l, e \in Livings :
            env'[l] = env[l] /\ env'[e] = env[e] =>
              /\ e \in Range(enemies'[l]) \ Range(enemies[l]) => l \in Range(enemies'[e])
              /\ e \in Range(enemies[l]) \ Range(enemies'[l]) =>
                   \/ l \notin Range(enemies'[e])
                   \/ \A m \in Others(State, l) : m \notin Range(enemies'[l])
    <2>1. SUFFICES ASSUME Fit(State), [Next]_vars, NEW l \in Livings, NEW e \in Livings,
                          env'[l] = env[l], env'[e] = env[e]
                   PROVE  /\ e \in Range(enemies'[l]) \ Range(enemies[l])
                               => l \in Range(enemies'[e])
                          /\ e \in Range(enemies[l]) \ Range(enemies'[l]) =>
                               \/ l \notin Range(enemies'[e])
                               \/ \A m \in Others(State, l) : m \notin Range(enemies'[l])
      OBVIOUS
    <2>2. Step
      BY <2>1, Steps
    <2>3. State'.env[l] = State.env[l] /\ State'.env[e] = State.env[e]
      BY <2>1, <2>2 DEF Step
    <2>4. /\ e \in Foes(State', l) /\ e \notin Foes(State, l) => l \in Foes(State', e)
          /\ e \in Foes(State, l) /\ e \notin Foes(State', l) =>
               l \notin Foes(State', e) \/ Foes(State', l) \cap Others(State, l) = {}
      BY <2>2, <2>3 DEF Step, Good, Reciprocal
    <2>5. QED
      BY <2>2, <2>4 DEF Step
  <1>2. QED
    BY AlwaysFit, <1>1, PTL DEF Spec, EnmityIsMutual

-----------------------------------------------------------------------------
(***************************************************************************)
(* Teams, for any number of players and rooms.                             *)
(*                                                                         *)
(* LedIsListed is inductive together with TeamTyped.  The heart of it is   *)
(* that set_leader refuses whoever has a my_team: a leader that led itself *)
(* could be moved to a third team while its own members still point at it. *)
(***************************************************************************)
LEMMA InitInv == TeamInit => TeamTyped /\ LedIsListed
BY TeamAssumption DEF TeamInit, TeamTyped, LedIsListed

\* A player of whom my_team is not empty has no leader.
LEMMA LeadersAreFree ==
    ASSUME TeamTyped, LedIsListed, NEW p \in Heroes, team[p] # {}
    PROVE  leader[p] = Nobody
BY DEF LedIsListed, TeamTyped

\* Dropping members, by whichever of the three commands, keeps teams in order.
LEMMA SocialTeamLeaveInv ==
    ASSUME TeamTyped, LedIsListed, UNCHANGED room,
           NEW p \in Heroes, NEW l \in Heroes, NEW ms \in SUBSET Heroes,
           NEW force \in BOOLEAN,
           SocialTeamLeave(CleanTeam(p), l, ms, force)
    PROVE  TeamTyped' /\ LedIsListed'
<1> DEFINE tm == CleanTeam(p)
<1>1. /\ tm \in [Heroes -> SUBSET (Heroes \cup {Nobody})]
      /\ \A q \in Heroes : tm[q] \subseteq team[q]
      /\ \A q \in Heroes : \A m \in Heroes : m \in team[q] => m \in tm[q]
  BY TeamAssumption DEF CleanTeam, QueryTeam, TeamTyped
<1>2. /\ leader' = [q \in Heroes |-> IF q \in ms /\ tm[q] = {} THEN Nobody ELSE leader[q]]
      /\ team' = [tm EXCEPT ![l] = @ \ ms]
  BY DEF SocialTeamLeave, SetLeader, AcceptsLeader, TeamLeaveTeam
<1>3. TeamTyped'
  <2>1. /\ leader' \in [Heroes -> Heroes \cup {Nobody}]
        /\ team' \in [Heroes -> SUBSET (Heroes \cup {Nobody})]
        /\ room' \in [Heroes -> Sites \cup {Nobody}]
    BY <1>1, <1>2 DEF TeamTyped
  <2>2. /\ invited' \in [Heroes -> SUBSET Heroes]
        /\ \A q \in Heroes : q \notin invited'[q]
    BY DEF SocialTeamLeave, TeamTyped
  <2>3. brief' \in [Heroes -> BOOLEAN] /\ backup' \in [Heroes -> BOOLEAN]
    BY DEF SocialTeamLeave, RestoreBrief, TeamTyped
  <2>4. \A q \in Heroes : q \notin team'[q]
    BY <1>1, <1>2 DEF TeamTyped
  <2> QED BY <2>1, <2>2, <2>3, <2>4 DEF TeamTyped
<1>4. LedIsListed'
  <2> SUFFICES ASSUME NEW q \in Heroes, leader'[q] # Nobody
               PROVE  /\ q \in team'[leader'[q]]
                      /\ team'[q] = {}
                      /\ leader'[leader'[q]] = Nobody
    BY DEF LedIsListed
  <2>1. leader[q] # Nobody /\ leader'[q] = leader[q]
    BY <1>2
  <2>2. /\ leader[q] \in Heroes
        /\ q \in team[leader[q]]
        /\ team[q] = {}
        /\ leader[leader[q]] = Nobody
    BY <2>1 DEF LedIsListed, TeamTyped
  <2>3. q \notin ms
    <3>1. tm[q] = {} BY <2>2, <1>1
    <3> QED BY <3>1, <1>2
  <2> QED BY <2>1, <2>2, <2>3, <1>1, <1>2
<1> QED BY <1>3, <1>4

\* What LedIsListed says, of any two functions.
InOrder(ld, tm) ==
    \A q \in Heroes : ld[q] # Nobody => q \in tm[ld[q]] /\ tm[q] = {} /\ ld[ld[q]] = Nobody

WellFormed(ld, tm) ==
    /\ ld \in [Heroes -> Heroes \cup {Nobody}]
    /\ tm \in [Heroes -> SUBSET (Heroes \cup {Nobody})]
    /\ \A q \in Heroes : q \notin tm[q]
    /\ InOrder(ld, tm)

\* Joining a set of players without a leader to another player.
LEMMA JoinInv ==
    ASSUME NEW ld, NEW tm, WellFormed(ld, tm),
           NEW l \in Heroes, NEW ms \in SUBSET (Heroes \ {l}),
           \A m \in ms : ld[m] = Nobody
    PROVE  WellFormed(TeamJoinLeader(ld, tm, l, ms), TeamJoinTeam(ld, tm, l, ms))
<1> DEFINE js == Joins(ld, tm, l, ms)
           ld2 == TeamJoinLeader(ld, tm, l, ms)
           tm2 == TeamJoinTeam(ld, tm, l, ms)
<1>1. js \subseteq ms /\ \A m \in js : ld[l] = Nobody /\ tm[m] = {}
  BY DEF Joins, AcceptsLeader
<1>2. ld2 = [q \in Heroes |-> IF q \in js THEN l ELSE ld[q]]
  BY <1>1 DEF TeamJoinLeader, SetLeader, AcceptsLeader
<1>3. tm2 = [tm EXCEPT ![l] = (@ \ {Nobody}) \cup js]
  BY DEF TeamJoinTeam
<1> HIDE DEF js, ld2, tm2
<1>4. /\ ld2 \in [Heroes -> Heroes \cup {Nobody}]
      /\ tm2 \in [Heroes -> SUBSET (Heroes \cup {Nobody})]
      /\ \A q \in Heroes : q \notin tm2[q]
  BY <1>1, <1>2, <1>3 DEF WellFormed
<1>5. InOrder(ld2, tm2)
  <2> SUFFICES ASSUME NEW q \in Heroes, ld2[q] # Nobody
               PROVE  q \in tm2[ld2[q]] /\ tm2[q] = {} /\ ld2[ld2[q]] = Nobody
    BY DEF InOrder
  <2>1. CASE q \in js
    BY <2>1, <1>1, <1>2, <1>3 DEF WellFormed
  <2>2. CASE q \notin js
    <3>1. /\ ld2[q] = ld[q] /\ ld[q] \in Heroes
          /\ q \in tm[ld[q]] /\ tm[q] = {} /\ ld[ld[q]] = Nobody
      BY <2>2, <1>2 DEF WellFormed, InOrder
    <3>2. ld[q] \notin js
      BY <3>1, <1>1
    <3>3. q # l \/ js = {}
      BY <3>1, <1>1, <1>2, <2>2
    <3> QED BY <3>1, <3>2, <3>3, <1>2, <1>3, TeamAssumption DEF WellFormed
  <2> QED BY <2>1, <2>2
<1> QED BY <1>4, <1>5 DEF WellFormed, ld2, tm2

LEMMA InviteInv ==
    ASSUME TeamTyped, LedIsListed, NEW p \in Heroes, NEW m \in Heroes, Invite(p, m)
    PROVE  TeamTyped' /\ LedIsListed'
BY TeamAssumption DEF Invite, CleanTeam, QueryTeam, Targets, TeamTyped, LedIsListed

LEMMA TeamJoinInv ==
    ASSUME TeamTyped, LedIsListed, NEW p \in Heroes, NEW l \in Heroes, Join(p, l)
    PROVE  TeamTyped' /\ LedIsListed'
<1> DEFINE tm == CleanTeam(p)
<1>1. WellFormed(leader, tm)
  BY TeamAssumption DEF CleanTeam, QueryTeam, TeamTyped, LedIsListed, WellFormed, InOrder
<1>2. l # p /\ leader[p] = Nobody
  BY DEF Join, Targets, MayJoin
<1>3. team' = TeamJoinTeam(leader, tm, l, {p}) /\ leader' = TeamJoinLeader(leader, tm, l, {p})
  BY DEF Join
<1> HIDE DEF tm
<1>4. WellFormed(leader', team')
  BY <1>1, <1>2, <1>3, JoinInv
<1> QED BY <1>4 DEF Join, TeamTyped, LedIsListed, WellFormed, InOrder

\* The two commands of a leader that take members out and let them join again.
LEMMA RejoinInv ==
    ASSUME TeamTyped, LedIsListed,
           NEW p \in Heroes, NEW l \in Heroes, NEW ms \in SUBSET QueryTeam(p),
           NEW ms2 \in SUBSET (Heroes \ {l}), ms2 \subseteq ms \cup {p}, ms # {}
    PROVE  LET tm1 == TeamLeaveTeam(CleanTeam(p), p, ms)
               ld1 == SetLeader(leader, team, ms, Nobody)
           IN  WellFormed(TeamJoinLeader(ld1, tm1, l, ms2), TeamJoinTeam(ld1, tm1, l, ms2))
<1> DEFINE tm1 == TeamLeaveTeam(CleanTeam(p), p, ms)
           ld1 == SetLeader(leader, team, ms, Nobody)
<1>1. ms \subseteq Heroes /\ leader[p] = Nobody
  BY LeadersAreFree DEF QueryTeam, TeamTyped
<1>2. /\ tm1 \in [Heroes -> SUBSET (Heroes \cup {Nobody})]
      /\ tm1 = [team EXCEPT ![p] = QueryTeam(p) \ ms]
      /\ \A q \in Heroes : q \notin tm1[q]
  BY DEF TeamLeaveTeam, CleanTeam, QueryTeam, TeamTyped
<1>3. /\ ld1 \in [Heroes -> Heroes \cup {Nobody}]
      /\ \A q \in Heroes : ld1[q] \in {Nobody, leader[q]}
      /\ \A q \in ms \cup {p} : ld1[q] = Nobody
  BY <1>1, LeadersAreFree DEF SetLeader, AcceptsLeader, TeamTyped
<1>4. ASSUME NEW q \in Heroes, ld1[q] # Nobody
      PROVE  q \in tm1[ld1[q]] /\ tm1[q] = {} /\ ld1[ld1[q]] = Nobody
  <2>1. /\ ld1[q] = leader[q] /\ leader[q] \in Heroes
        /\ q \in team[leader[q]] /\ team[q] = {} /\ leader[leader[q]] = Nobody
    BY <1>3, <1>4 DEF LedIsListed, TeamTyped
  <2>2. q \notin ms BY <1>3, <1>4
  <2> HIDE DEF tm1, ld1
  <2> QED BY <2>1, <2>2, <1>2, <1>3, TeamAssumption DEF QueryTeam, TeamTyped
<1> HIDE DEF tm1, ld1
<1>5. WellFormed(ld1, tm1)
  BY <1>2, <1>3, <1>4 DEF WellFormed, InOrder
<1>6. \A m \in ms2 : ld1[m] = Nobody
  BY <1>3
<1>7. WellFormed(TeamJoinLeader(ld1, tm1, l, ms2), TeamJoinTeam(ld1, tm1, l, ms2))
  BY <1>5, <1>6, JoinInv
<1> QED BY <1>7 DEF tm1, ld1

LEMMA QuitInv ==
    ASSUME TeamTyped, LedIsListed, NEW p \in Heroes, Quit(p)
    PROVE  TeamTyped' /\ LedIsListed'
<1>1. TeamTyped'
  BY TeamAssumption DEF Quit, TeamTyped
<1>2. LedIsListed'
  <2> SUFFICES ASSUME NEW q \in Heroes, leader'[q] # Nobody
               PROVE  /\ q \in team'[leader'[q]]
                      /\ team'[q] = {}
                      /\ leader'[leader'[q]] = Nobody
    BY DEF LedIsListed
  <2>1. q # p /\ leader'[q] = leader[q] /\ leader[q] \in Heroes /\ leader[q] # p
    BY DEF Quit, TeamTyped
  <2>2. q \in team[leader[q]] /\ team[q] = {} /\ leader[leader[q]] = Nobody
    BY <2>1 DEF LedIsListed
  <2> QED BY <2>1, <2>2 DEF Quit
<1> QED BY <1>1, <1>2

LEMMA NextInv == TeamTyped /\ LedIsListed /\ [TeamNext]_teamVars => TeamTyped' /\ LedIsListed'
<1> SUFFICES ASSUME TeamTyped, LedIsListed, [TeamNext]_teamVars
             PROVE  TeamTyped' /\ LedIsListed'
  OBVIOUS
<1>1. ASSUME NEW p \in Heroes, NEW m \in Heroes, Invite(p, m)
      PROVE  TeamTyped' /\ LedIsListed'
  BY <1>1, InviteInv
<1>2. ASSUME NEW p \in Heroes, NEW l \in Heroes, Join(p, l)
      PROVE  TeamTyped' /\ LedIsListed'
  BY <1>2, TeamJoinInv
<1>3. ASSUME NEW p \in Heroes, Disband(p)
      PROVE  TeamTyped' /\ LedIsListed'
  <2> DEFINE ms == QueryTeam(p) \cap Present(p)
  <2>1. ms \in SUBSET Heroes BY DEF Present
  <2>2. UNCHANGED room /\ SocialTeamLeave(CleanTeam(p), p, ms, TRUE)
    BY <1>3 DEF Disband
  <2> HIDE DEF ms
  <2> QED BY <2>1, <2>2, SocialTeamLeaveInv
<1>4. ASSUME NEW p \in Heroes, Leave(p)
      PROVE  TeamTyped' /\ LedIsListed'
  <2>1. leader[p] \in Heroes BY <1>4 DEF Leave, TeamTyped
  <2>2. UNCHANGED room /\ SocialTeamLeave(CleanTeam(p), leader[p], {p}, FALSE)
    BY <1>4 DEF Leave
  <2> QED BY <2>1, <2>2, SocialTeamLeaveInv
<1>5. ASSUME NEW p \in Heroes, NEW ms \in SUBSET Heroes, Expel(p, ms)
      PROVE  TeamTyped' /\ LedIsListed'
  <2>1. UNCHANGED room /\ SocialTeamLeave(CleanTeam(p), p, ms, TRUE)
    BY <1>5 DEF Expel
  <2> QED BY <2>1, SocialTeamLeaveInv
<1>6. ASSUME NEW p \in Heroes, NEW l \in Heroes, AssignLeader(p, l)
      PROVE  TeamTyped' /\ LedIsListed'
  <2> DEFINE ms == QueryTeam(p)
             ms2 == (ms \cup {p}) \ {l}
  <2>1. l \in ms /\ ms2 \in SUBSET (Heroes \ {l}) /\ ms2 \subseteq ms \cup {p}
    BY <1>6 DEF AssignLeader, QueryTeam, TeamTyped
  <2>2. WellFormed(leader', team')
    BY <1>6, <2>1, RejoinInv DEF AssignLeader
  <2> QED BY <1>6, <2>2 DEF AssignLeader, TeamTyped, LedIsListed, WellFormed, InOrder
<1>7. ASSUME NEW p \in Heroes, NEW m \in Heroes, Rear(p, m)
      PROVE  TeamTyped' /\ LedIsListed'
  <2>1. {m} \in SUBSET QueryTeam(p) /\ m # p
    BY <1>7 DEF Rear, Targets
  <2>2. WellFormed(leader', team')
    BY <1>7, <2>1, RejoinInv DEF Rear
  <2> QED BY <1>7, <2>2 DEF Rear, TeamTyped, LedIsListed, WellFormed, InOrder
<1>8. ASSUME NEW p \in Heroes, NEW r \in Sites, NEW ms \in SUBSET Heroes, WalkAhead(p, r, ms)
      PROVE  TeamTyped' /\ LedIsListed'
  BY <1>8, TeamAssumption DEF WalkAhead, CleanTeam, QueryTeam, TeamTyped, LedIsListed
<1>9. ASSUME NEW p \in Heroes, Quit(p)
      PROVE  TeamTyped' /\ LedIsListed'
  BY <1>9, QuitInv
<1>10. ASSUME NEW p \in Heroes, NEW r \in Sites, Login(p, r)
       PROVE  TeamTyped' /\ LedIsListed'
  BY <1>10 DEF Login, TeamTyped, LedIsListed
<1>11. CASE UNCHANGED teamVars
  BY <1>11 DEF teamVars, TeamTyped, LedIsListed
<1> QED BY <1>1, <1>2, <1>3, <1>4, <1>5, <1>6, <1>7, <1>8, <1>9, <1>10, <1>11 DEF TeamNext

\* Type correctness of the team state, and that nobody is a member or a guest
\* of their own team.
THEOREM TeamTypes == TeamSpec => []TeamTyped
BY InitInv, NextInv, PTL DEF TeamSpec

\* Whoever is led is listed by the leader, leads nobody, and is not led by
\* somebody who is led: set_leader, team_join and team_leave keep the two
\* objects of a membership in step in this direction whatever is commanded.
THEOREM TeamLedIsListed == TeamSpec => []LedIsListed
BY InitInv, NextInv, PTL DEF TeamSpec

-----------------------------------------------------------------------------
(***************************************************************************)
(* How the list of a leader becomes wrong.                                 *)
(***************************************************************************)

GoesStale(l, m) == Stale(l, m)' /\ ~Stale(l, m)

\* Some other list was wrong about m before, or m is expelled by one who does not
\* list it.
Excused(l, m) ==
    \E p \in Heroes \ {l} :
        \/ Stale(p, m)
        \/ \E ms \in SUBSET Heroes : m \in ms \ team[p] /\ Expel(p, ms)

AllExcused == \A l, m \in Heroes : GoesStale(l, m) => Excused(l, m)

\* Only a member that loses its leader and stays on the list can make it wrong, as
\* long as the lists do not grow.
LEMMA LostLeader ==
    ASSUME NEW l \in Heroes, NEW m \in Heroes, GoesStale(l, m), team'[l] \ {Nobody} \subseteq team[l]
    PROVE  m \in team[l] /\ m \in team'[l] /\ leader[m] = l /\ leader'[m] # l
BY TeamAssumption DEF GoesStale, Stale

LEMMA SteadyExcused ==
    ASSUME leader' = leader, \A l \in Heroes : team'[l] \ {Nobody} \subseteq team[l]
    PROVE  AllExcused
BY LostLeader DEF AllExcused

\* k drops ms: the list of another goes wrong if its members are among ms.
LEMMA LeaveExcused ==
    ASSUME TeamTyped, NEW p \in Heroes, NEW k \in Heroes, NEW ms \in SUBSET Heroes,
           NEW force, SocialTeamLeave(CleanTeam(p), k, ms, force),
           NEW l \in Heroes, NEW m \in Heroes, GoesStale(l, m)
    PROVE  m \in ms /\ k # l /\ leader[m] = l
<1>1. team' = [CleanTeam(p) EXCEPT ![k] = @ \ ms]
  BY DEF SocialTeamLeave, TeamLeaveTeam
<1>2. \A q \in Heroes : CleanTeam(p)[q] \subseteq team[q]
  BY DEF CleanTeam, QueryTeam, TeamTyped
<1>3. DOMAIN CleanTeam(p) = Heroes
  BY DEF CleanTeam, TeamTyped
<1>4. team'[l] \subseteq team[l] /\ (k = l => team'[l] \cap ms = {})
  BY <1>1, <1>2, <1>3
<1>5. m \in team'[l] /\ leader[m] = l /\ leader'[m] # l
  BY <1>4, LostLeader
<1>6. m \in ms
  BY <1>5 DEF SocialTeamLeave, SetLeader
<1> QED BY <1>4, <1>5, <1>6

\* p drops ms of its list and lets ms2 join k: the members are on the list of k only
\* if k leads them now.
LEMMA RejoinExcused ==
    ASSUME TeamTyped, LedIsListed,
           NEW p \in Heroes, NEW k \in Heroes, NEW ms \in SUBSET QueryTeam(p),
           NEW ms2 \in SUBSET (ms \cup {p}), ms # {},
           LET tm1 == TeamLeaveTeam(CleanTeam(p), p, ms)
               ld1 == SetLeader(leader, team, ms, Nobody)
           IN  /\ team' = TeamJoinTeam(ld1, tm1, k, ms2)
               /\ leader' = TeamJoinLeader(ld1, tm1, k, ms2)
    PROVE  AllExcused
<1> SUFFICES ASSUME NEW l \in Heroes, NEW m \in Heroes, GoesStale(l, m)
             PROVE  Excused(l, m)
  BY DEF AllExcused
<1> DEFINE tm1 == TeamLeaveTeam(CleanTeam(p), p, ms)
           ld1 == SetLeader(leader, team, ms, Nobody)
           js == Joins(ld1, tm1, k, ms2)
<1>1. leader[p] = Nobody
  BY LeadersAreFree DEF QueryTeam, TeamTyped
<1>2. /\ tm1 \in [Heroes -> SUBSET (Heroes \cup {Nobody})]
      /\ tm1 = [team EXCEPT ![p] = QueryTeam(p) \ ms]
  BY DEF TeamLeaveTeam, CleanTeam, QueryTeam, TeamTyped
<1>3. \A q \in Heroes : ld1[q] = leader[q] \/ q \in ms
  BY DEF SetLeader
<1>4. team' = [tm1 EXCEPT ![k] = (@ \ {Nobody}) \cup js]
  BY DEF TeamJoinTeam
<1>5. \A q \in Heroes : leader'[q] = IF q \in js THEN k ELSE ld1[q]
  BY DEF TeamJoinLeader, SetLeader, Joins
<1>6. js \subseteq ms \cup {p}
  BY DEF Joins
<1> HIDE DEF tm1, ld1, js
<1>7. m \in team'[l] /\ leader'[m] # l /\ (m \in team[l] => leader[m] = l)
  BY DEF GoesStale, Stale
<1>8. m \in tm1[l]
  BY <1>2, <1>4, <1>5, <1>7, TeamAssumption
<1>9. m \in team[l] /\ leader[m] = l /\ (l = p => m \notin ms)
  BY <1>2, <1>7, <1>8 DEF QueryTeam, TeamTyped
<1>10. m \in ms \cup {p}
  BY <1>3, <1>5, <1>6, <1>7, <1>9
<1>11. m # p
  BY <1>1, <1>9, TeamAssumption
<1>12. m \in team[p] /\ l # p
  BY <1>9, <1>10, <1>11 DEF QueryTeam
<1> QED BY <1>9, <1>12 DEF Excused, Stale

LEMMA NextExcused ==
    ASSUME TeamTyped, LedIsListed, [TeamNext]_teamVars
    PROVE  AllExcused
<1>1. ASSUME NEW p \in Heroes, NEW q \in Heroes, Invite(p, q) PROVE AllExcused
  <2>1. leader' = leader /\ \A l \in Heroes : team'[l] \ {Nobody} \subseteq team[l]
    BY <1>1 DEF Invite, CleanTeam, QueryTeam, TeamTyped
  <2> QED BY <2>1, SteadyExcused
<1>2. ASSUME NEW p \in Heroes, NEW k \in Heroes, Join(p, k) PROVE AllExcused
  <2> SUFFICES ASSUME NEW l \in Heroes, NEW m \in Heroes, GoesStale(l, m)
               PROVE  FALSE
    BY DEF AllExcused
  <2> DEFINE tm == CleanTeam(p)
             js == Joins(leader, tm, k, {p})
  <2>1. /\ leader[p] = Nobody
        /\ team' = [tm EXCEPT ![k] = (@ \ {Nobody}) \cup js]
        /\ \A q \in Heroes : leader'[q] = IF q \in js THEN k ELSE leader[q]
        /\ js \subseteq {p}
    BY <1>2 DEF Join, MayJoin, TeamJoinTeam, TeamJoinLeader, SetLeader, Joins
  <2>2. /\ \A q \in Heroes : tm[q] \subseteq team[q]
        /\ DOMAIN tm = Heroes
    BY DEF CleanTeam, QueryTeam, TeamTyped
  <2> HIDE DEF tm, js
  <2>3. m \in team'[l] /\ leader'[m] # l /\ (m \in team[l] => leader[m] = l)
    BY DEF GoesStale, Stale
  <2>4. m \in team[l] /\ leader[m] = l
    BY <2>1, <2>2, <2>3, TeamAssumption
  <2> QED BY <2>1, <2>3, <2>4, TeamAssumption
<1>3. ASSUME NEW p \in Heroes, Disband(p) PROVE AllExcused
  <2> SUFFICES ASSUME NEW l \in Heroes, NEW m \in Heroes, GoesStale(l, m)
               PROVE  Excused(l, m)
    BY DEF AllExcused
  <2> DEFINE ms == QueryTeam(p) \cap Present(p)
  <2>1. ms \in SUBSET Heroes BY DEF Present
  <2>2. SocialTeamLeave(CleanTeam(p), p, ms, TRUE)
    BY <1>3 DEF Disband
  <2>3. ms \subseteq team[p] BY DEF QueryTeam
  <2> HIDE DEF ms
  <2>4. m \in ms /\ p # l /\ leader[m] = l
    BY <2>1, <2>2, LeaveExcused
  <2> QED BY <2>3, <2>4 DEF Excused, Stale
<1>4. ASSUME NEW p \in Heroes, Leave(p) PROVE AllExcused
  <2> SUFFICES ASSUME NEW l \in Heroes, NEW m \in Heroes, GoesStale(l, m)
               PROVE  FALSE
    BY DEF AllExcused
  <2>1. leader[p] \in Heroes BY <1>4 DEF Leave, TeamTyped
  <2>2. SocialTeamLeave(CleanTeam(p), leader[p], {p}, FALSE)
    BY <1>4 DEF Leave
  <2>3. m \in {p} /\ leader[p] # l /\ leader[m] = l
    BY <2>1, <2>2, LeaveExcused
  <2> QED BY <2>3
<1>5. ASSUME NEW p \in Heroes, NEW ms \in SUBSET Heroes, Expel(p, ms) PROVE AllExcused
  <2> SUFFICES ASSUME NEW l \in Heroes, NEW m \in Heroes, GoesStale(l, m)
               PROVE  Excused(l, m)
    BY DEF AllExcused
  <2>1. SocialTeamLeave(CleanTeam(p), p, ms, TRUE)
    BY <1>5 DEF Expel
  <2>2. m \in ms /\ p # l /\ leader[m] = l
    BY <2>1, LeaveExcused
  <2>3. CASE m \in team[p]
    BY <2>2, <2>3 DEF Excused, Stale
  <2>4. CASE m \notin team[p]
    BY <1>5, <2>2, <2>4 DEF Excused
  <2> QED BY <2>3, <2>4
<1>6. ASSUME NEW p \in Heroes, NEW k \in Heroes, AssignLeader(p, k) PROVE AllExcused
  <2> DEFINE ms == QueryTeam(p)
             ms2 == (ms \cup {p}) \ {k}
  <2>1. k \in ms /\ ms2 \in SUBSET (ms \cup {p})
    BY <1>6 DEF AssignLeader
  <2> QED BY <1>6, <2>1, RejoinExcused DEF AssignLeader
<1>7. ASSUME NEW p \in Heroes, NEW q \in Heroes, Rear(p, q) PROVE AllExcused
  <2>1. {q} \in SUBSET QueryTeam(p)
    BY <1>7 DEF Rear
  <2> QED BY <1>7, <2>1, RejoinExcused DEF Rear
<1>8. ASSUME NEW p \in Heroes, NEW r \in Sites, NEW ms \in SUBSET Heroes, WalkAhead(p, r, ms)
      PROVE  AllExcused
  <2>1. leader' = leader /\ \A l \in Heroes : team'[l] \ {Nobody} \subseteq team[l]
    BY <1>8 DEF WalkAhead, CleanTeam, QueryTeam, TeamTyped
  <2> QED BY <2>1, SteadyExcused
<1>9. ASSUME NEW p \in Heroes, Quit(p) PROVE AllExcused
  <2> SUFFICES ASSUME NEW l \in Heroes, NEW m \in Heroes, GoesStale(l, m)
               PROVE  FALSE
    BY DEF AllExcused
  <2>1. team'[l] = IF l = p THEN {} ELSE IF p \in team[l] THEN (team[l] \ {p}) \cup {Nobody}
                   ELSE team[l]
    BY <1>9 DEF Quit
  <2>2. leader'[m] = IF m = p \/ leader[m] = p THEN Nobody ELSE leader[m]
    BY <1>9 DEF Quit
  <2>3. m \in team'[l] /\ leader[m] = l /\ leader'[m] # l
    BY <2>1, LostLeader
  <2> QED BY <2>1, <2>2, <2>3, TeamAssumption
<1>10. ASSUME NEW p \in Heroes, NEW r \in Sites, Login(p, r) PROVE AllExcused
  <2>1. leader' = leader /\ team' = team
    BY <1>10 DEF Login
  <2> QED BY <2>1, SteadyExcused
<1>11. CASE UNCHANGED teamVars
  <2>1. leader' = leader /\ team' = team
    BY <1>11 DEF teamVars
  <2> QED BY <2>1, SteadyExcused
<1> QED BY <1>1, <1>2, <1>3, <1>4, <1>5, <1>6, <1>7, <1>8, <1>9, <1>10, <1>11 DEF TeamNext

\* A leader's list becomes wrong about a member only when another leader, who does
\* not list the member, says "team leave" of it, or when the member was on a wrong
\* list already: join, disband, leave, reordering and quitting keep the two objects
\* of a membership in step in this direction, too.
THEOREM TeamStaleByExpulsion == TeamSpec => StaleByExpulsion
<1>1. TeamTyped /\ LedIsListed /\ [TeamNext]_teamVars => AllExcused
  BY NextExcused
<1>2. AllExcused =>
        \A l, m \in Heroes : Stale(l, m)' /\ ~Stale(l, m) =>
          \E p \in Heroes \ {l} :
              \/ Stale(p, m)
              \/ \E ms \in SUBSET Heroes : m \in ms \ team[p] /\ Expel(p, ms)
  BY DEF AllExcused, GoesStale, Excused
<1> QED BY <1>1, <1>2, TeamTypes, TeamLedIsListed, PTL DEF TeamSpec, StaleByExpulsion

-----------------------------------------------------------------------------
(***************************************************************************)
(* A new leader is one who invited the player or one of the player's team. *)
(***************************************************************************)

\* p gets a leader in this step.
IsLed(p) == leader'[p] # Nobody /\ leader'[p] # leader[p]

\* p belongs with the one who leads it from now on.
Belongs(p) ==
    \/ p \in invited[leader'[p]]
    \/ \E l \in Heroes : {p, leader'[p]} \subseteq team[l] \cup {l}

AllBelong == \A p \in Heroes : IsLed(p) => Belongs(p)

\* What a team_join makes of my_leader: some of ms are led by l, the others are
\* led as before.
LEMMA JoinLeads ==
    ASSUME NEW ld, NEW tm, NEW l \in Heroes, NEW ms, NEW q \in Heroes
    PROVE  \/ q \in ms /\ TeamJoinLeader(ld, tm, l, ms)[q] = l
           \/ TeamJoinLeader(ld, tm, l, ms)[q] = ld[q]
BY DEF TeamJoinLeader, SetLeader, Joins

\* Clearing my_leader leads nobody anew.
LEMMA ClearLeads ==
    ASSUME NEW tm, NEW ms, NEW q \in Heroes
    PROVE  SetLeader(leader, tm, ms, Nobody)[q] \in {Nobody, leader[q]}
BY DEF SetLeader

LEMMA JoinBelongs ==
    ASSUME TeamTyped, NEW p \in Heroes, NEW l \in Heroes, Join(p, l)
    PROVE  AllBelong
<1> SUFFICES ASSUME NEW q \in Heroes, IsLed(q)
             PROVE  Belongs(q)
  BY DEF AllBelong
<1> DEFINE tm == CleanTeam(p)
<1>1. leader' = TeamJoinLeader(leader, tm, l, {p})
  BY DEF Join
<1> HIDE DEF tm
<1>2. q = p /\ leader'[q] = l
  BY <1>1, JoinLeads DEF IsLed
<1>3. p \in invited[l]
  BY DEF Join, MayJoin
<1> QED BY <1>2, <1>3 DEF Belongs

\* Both commands of a leader that let members join again stay inside the team.
LEMMA RejoinBelongs ==
    ASSUME TeamTyped, NEW p \in Heroes, NEW l \in Heroes, NEW ms, NEW ms2, NEW tm1,
           l \in QueryTeam(p) \cup {p}, ms2 \subseteq QueryTeam(p) \cup {p},
           leader' = TeamJoinLeader(SetLeader(leader, team, ms, Nobody), tm1, l, ms2)
    PROVE  AllBelong
<1> SUFFICES ASSUME NEW q \in Heroes, IsLed(q)
             PROVE  Belongs(q)
  BY DEF AllBelong
<1> DEFINE ld1 == SetLeader(leader, team, ms, Nobody)
<1>1. ld1[q] \in {Nobody, leader[q]}
  BY ClearLeads
<1>2. leader' = TeamJoinLeader(ld1, tm1, l, ms2)
  OBVIOUS
<1> HIDE DEF ld1
<1>3. q \in ms2 /\ leader'[q] = l
  BY <1>1, <1>2, JoinLeads DEF IsLed
<1>4. {q, leader'[q]} \subseteq team[p] \cup {p}
  BY <1>3 DEF QueryTeam
<1> QED BY <1>4 DEF Belongs

\* Nobody gets a leader but by accepting an invitation of that leader, or from
\* a leader of the same team who reorders it: what team_join and set_leader do
\* to somebody is only ever asked for by one of these two.
THEOREM TeamNoUninvitedMember == TeamSpec => NoUninvitedMember
<1>1. ASSUME TeamTyped, [TeamNext]_teamVars
      PROVE  [AllBelong]_teamVars
  <2>1. ASSUME NEW p \in Heroes, NEW l \in Heroes, Join(p, l)
        PROVE  AllBelong
    BY <1>1, <2>1, JoinBelongs
  <2>2. ASSUME NEW p \in Heroes, NEW l \in Heroes, AssignLeader(p, l)
        PROVE  AllBelong
    <3> DEFINE ms == QueryTeam(p)
               tm1 == TeamLeaveTeam(CleanTeam(p), p, ms)
               ms2 == (ms \cup {p}) \ {l}
    <3>1. /\ l \in QueryTeam(p) \cup {p} /\ ms2 \subseteq QueryTeam(p) \cup {p}
          /\ leader' = TeamJoinLeader(SetLeader(leader, team, ms, Nobody), tm1, l, ms2)
      BY <2>2 DEF AssignLeader
    <3> HIDE DEF ms, tm1, ms2
    <3> QED BY <1>1, <3>1, RejoinBelongs
  <2>3. ASSUME NEW p \in Heroes, NEW m \in Heroes, Rear(p, m)
        PROVE  AllBelong
    <3> DEFINE tm1 == TeamLeaveTeam(CleanTeam(p), p, {m})
    <3>1. /\ {m} \subseteq QueryTeam(p) \cup {p}
          /\ leader' = TeamJoinLeader(SetLeader(leader, team, {m}, Nobody), tm1, p, {m})
      BY <2>3 DEF Rear
    <3> HIDE DEF tm1
    <3> QED BY <1>1, <3>1, RejoinBelongs
  <2>4. ASSUME NEW p \in Heroes, NEW tm, NEW l, NEW ms, NEW force,
               SocialTeamLeave(tm, l, ms, force)
        PROVE  AllBelong
    <3>1. leader' = SetLeader(leader, tm, ms, Nobody)
      BY <2>4 DEF SocialTeamLeave
    <3> QED BY <3>1, ClearLeads DEF AllBelong, IsLed
  <2>5. ASSUME NEW p \in Heroes, Disband(p) \/ Leave(p)
        PROVE  AllBelong
    BY <2>4, <2>5 DEF Disband, Leave
  <2>6. ASSUME NEW p \in Heroes, NEW ms \in SUBSET Heroes, Expel(p, ms)
        PROVE  AllBelong
    BY <2>4, <2>6 DEF Expel
  <2>7. ASSUME NEW p \in Heroes, Quit(p)
        PROVE  AllBelong
    BY <2>7 DEF Quit, AllBelong, IsLed
  <2>8. ASSUME leader' = leader
        PROVE  AllBelong
    BY <2>8 DEF AllBelong, IsLed
  <2>9. ASSUME NEW p \in Heroes, NEW m \in Heroes, NEW r \in Sites,
               NEW ms \in SUBSET Heroes,
               Invite(p, m) \/ Login(p, r) \/ WalkAhead(p, r, ms)
        PROVE  leader' = leader
    BY <2>9 DEF Invite, Login, WalkAhead
  <2> QED BY <1>1, <2>1, <2>2, <2>3, <2>5, <2>6, <2>7, <2>8, <2>9, TeamAssumption DEF TeamNext
<1>2. AllBelong =>
        \A p \in Heroes :
          (leader'[p] # Nobody /\ leader'[p] # leader[p]) =>
             \/ p \in invited[leader'[p]]
             \/ \E l \in Heroes : {p, leader'[p]} \subseteq team[l] \cup {l}
  BY DEF AllBelong, IsLed, Belongs
<1> QED BY <1>1, <1>2, TeamTypes, PTL DEF TeamSpec, NoUninvitedMember
=============================================================================
