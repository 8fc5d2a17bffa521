----------------------------- MODULE HeapProofs -----------------------------
(***************************************************************************)
(* Proofs about Heap, for any number of heaps, livings and items: its      *)
(* types; that a pending split is always about to be undone; that no two   *)
(* heaps that would merge lie side by side; and what can put wrong the     *)
(* books of a living and the number of items.                              *)
(*                                                                         *)
(* The commands are compositions of functions from a state of all heaps to *)
(* the next, so there are lemmas for each function, one for each argument: *)
(*   ...Sane      it takes sane states to sane states and leaves existing  *)
(*                heaps in existence;                                      *)
(*   ...Apart     it leaves no twins behind, but for the heap in hand;     *)
(*   ...Book      it credits each living with what it moves there;         *)
(*   ...Accounts  it loses and makes items only as TotalIsExplained says.  *)
(***************************************************************************)
EXTENDS Heap, Sums

States ==
    [env : [Heaps -> Places \cup Heaps \cup {None}],
     count : [Heaps -> Nat], leave : [Heaps -> Nat],
     hide : [Heaps -> BOOLEAN], dying : [Heaps -> BOOLEAN],
     restores : [Heaps -> Nat], removals : [Heaps -> Nat],
     held : [Livings -> Int]]

\* The inductive invariant, of a state of all heaps.
Sane(S) ==
    /\ S \in States
    /\ \A h \in Heaps : S.env[h] = None =>
         S.count[h] = 0 /\ S.leave[h] = 0 /\ S.restores[h] = 0 /\ S.removals[h] = 0
    /\ \A h \in Heaps : S.leave[h] > 0 => S.restores[h] > 0

Exists(S, h) == h \in Heaps /\ S.env[h] # None
Keeps(S, T) == \A h \in Heaps : S.env[h] # None => T.env[h] # None
HasFree(S) == \E h \in Heaps : S.env[h] = None

-----------------------------------------------------------------------------

LEMMA CreditSane ==
    ASSUME NEW S, Sane(S), NEW p, NEW d \in Int
    PROVE  /\ Sane(Credit(S, p, d))
           /\ Credit(S, p, d).env = S.env
           /\ Credit(S, p, d).restores = S.restores
  BY DEF Sane, States, Credit

LEMMA ResizeSane ==
    ASSUME NEW S, Sane(S), NEW h, Exists(S, h), NEW n \in Nat, NEW l \in Nat,
           l > 0 => S.restores[h] > 0
    PROVE  /\ Sane(Resize(S, h, n, l))
           /\ Resize(S, h, n, l).env = S.env
  <1> DEFINE T == [S EXCEPT !.count[h] = n, !.leave[h] = l]
  <1>1. Sane(T) /\ T.env = S.env
    BY DEF Sane, States, Exists
  <1>2. (n - l) - Num(S, h) \in Int
    BY DEF Sane, States, Exists, Num
  <1>3. Resize(S, h, n, l) = Credit(T, S.env[h], (n - l) - Num(S, h))
    BY DEF Resize
  <1> HIDE DEF T
  <1>4. QED
    BY <1>1, <1>2, <1>3, CreditSane

LEMMA DoomSane ==
    ASSUME NEW S, Sane(S), NEW h, Exists(S, h)
    PROVE  /\ Sane(Doom(S, h))
           /\ Doom(S, h).env = S.env
  <1> DEFINE T == Doom(S, h)
  <1>1. /\ T.env = S.env /\ T.count = S.count /\ T.leave = S.leave
        /\ T.restores = S.restores
    BY DEF Sane, States, Doom
  <1>2. /\ T.removals = [S.removals EXCEPT ![h] = @ + 1]
        /\ T.dying = [S.dying EXCEPT ![h] = TRUE]
    BY DEF Sane, States, Doom
  <1>3. T.removals \in [Heaps -> Nat] /\ T.dying \in [Heaps -> BOOLEAN]
    BY <1>2 DEF Sane, States, Exists
  <1>4. T \in States
    BY <1>1, <1>2, <1>3 DEF Sane, States, Doom
  <1>5. QED
    BY <1>1, <1>2, <1>4 DEF Sane, Exists

LEMMA RestoreHeapSane ==
    ASSUME NEW S, Sane(S), NEW h, Exists(S, h)
    PROVE  /\ Sane(RestoreHeap(S, h))
           /\ RestoreHeap(S, h).env = S.env
           /\ RestoreHeap(S, h).leave = [S.leave EXCEPT ![h] = 0]
  <1>1. S.count[h] \in Nat
    BY DEF Sane, States, Exists
  <1>2. RestoreHeap(S, h).leave = [S.leave EXCEPT ![h] = 0]
    BY DEF Sane, States, RestoreHeap, Resize, Credit
  <1>3. QED
    BY <1>1, <1>2, ResizeSane DEF RestoreHeap

LEMMA SetHeapSizeSane ==
    ASSUME NEW S, Sane(S), NEW h, Exists(S, h), NEW n \in Int
    PROVE  /\ Sane(SetHeapSize(S, h, n))
           /\ SetHeapSize(S, h, n).env = S.env
  <1>1. CASE n <= 0
    <2>1. Sane(Resize(S, h, 0, 0)) /\ Resize(S, h, 0, 0).env = S.env
      BY ResizeSane
    <2>2. QED
      BY <1>1, <2>1, DoomSane DEF SetHeapSize, Exists
  <1>2. CASE ~(n <= 0)
    <2>1. S.leave[h] \in Nat /\ (S.leave[h] > 0 => S.restores[h] > 0)
      BY DEF Sane, States, Exists
    <2>2. QED
      BY <1>2, <2>1, ResizeSane DEF SetHeapSize
  <1>3. QED
    BY <1>1, <1>2

LEMMA MoreRestoresSane ==
    ASSUME NEW S, Sane(S), NEW h, Exists(S, h)
    PROVE  LET R == [S EXCEPT !.restores[h] = @ + 1]
           IN Sane(R) /\ R.env = S.env /\ R.count = S.count /\ R.restores[h] > 0
  <1> DEFINE R == [S EXCEPT !.restores[h] = @ + 1]
  <1>1. /\ R.env = S.env /\ R.count = S.count /\ R.leave = S.leave /\ R.held = S.held
        /\ R.removals = S.removals /\ R.hide = S.hide /\ R.dying = S.dying
        /\ R.restores = [S.restores EXCEPT ![h] = @ + 1]
        /\ R = [env |-> R.env, count |-> R.count, leave |-> R.leave, hide |-> R.hide,
                dying |-> R.dying, restores |-> R.restores, removals |-> R.removals,
                held |-> R.held]
    BY DEF Sane, States
  <1>2. S.restores \in [Heaps -> Nat] /\ h \in Heaps
    BY DEF Sane, States, Exists
  <1> HIDE DEF R
  <1>3. R.restores \in [Heaps -> Nat] /\ R.restores[h] > 0
    BY <1>1, <1>2
  <1>4. \A x \in Heaps \ {h} : R.restores[x] = S.restores[x]
    BY <1>1, <1>2
  <1>5. R \in States
    BY <1>1, <1>3 DEF Sane, States
  <1>6. Sane(R)
    BY <1>1, <1>3, <1>4, <1>5 DEF Sane, Exists
  <1>7. QED
    BY <1>1, <1>3, <1>6 DEF R

LEMMA SplitHeapSane ==
    ASSUME NEW S, Sane(S), NEW h, Exists(S, h), NEW n \in Nat
    PROVE  /\ Sane(SplitHeap(S, h, n))
           /\ SplitHeap(S, h, n).env = S.env
  <1>1. S.count[h] \in Nat
    BY DEF Sane, States, Exists
  <1>2. CASE S.count[h] <= n
    <2> DEFINE T == [S EXCEPT !.leave[h] = 0]
    <2>1. SplitHeap(S, h, n) = T
      BY <1>2 DEF SplitHeap
    <2>2. /\ T \in States /\ T.env = S.env /\ T.count = S.count
          /\ T.restores = S.restores /\ T.removals = S.removals
          /\ T.leave = [S.leave EXCEPT ![h] = 0]
      BY DEF Sane, States
    <2> HIDE DEF T
    <2>3. \A x \in Heaps : T.leave[x] = 0 \/ T.leave[x] = S.leave[x]
      BY <2>2 DEF Sane, States
    <2>4. QED
      BY <2>1, <2>2, <2>3 DEF Sane
  <1>3. CASE ~(S.count[h] <= n)
    <2> DEFINE T == [S EXCEPT !.restores[h] = @ + 1]
               l == S.count[h] - n
    <2>1. Sane(T) /\ T.env = S.env /\ T.count = S.count /\ T.restores[h] > 0
      BY MoreRestoresSane
    <2>2. l \in Nat
      BY <1>1, <1>3
    <2>3. SplitHeap(S, h, n) = Resize(T, h, S.count[h], l)
      BY <1>3 DEF SplitHeap
    <2> HIDE DEF T, l
    <2>4. Exists(T, h)
      BY <2>1 DEF Exists
    <2>5. QED
      BY <1>1, <2>1, <2>2, <2>3, <2>4, ResizeSane
  <1>4. QED
    BY <1>2, <1>3

LEMMA EnterSane ==
    ASSUME NEW S, Sane(S), NEW h, Exists(S, h), NEW p, p # None
    PROVE  Sane(Enter(S, h, p)) /\ Keeps(S, Enter(S, h, p))
  <1>1. CASE Twins(S, h, p) = {}
    <2>1. Num(S, h) \in Int
      BY DEF Sane, States, Exists, Num
    <2>2. QED
      BY <1>1, <2>1, CreditSane DEF Enter, Keeps
  <1>2. CASE Twins(S, h, p) # {}
    <2> DEFINE t == CHOOSE t \in Twins(S, h, p) : TRUE
               M == SetHeapSize(S, t, S.count[h] + Num(S, t))
               N == [M EXCEPT !.leave[h] = 0, !.env[h] = t]
    <2>1. t \in Heaps /\ Exists(S, t) /\ t # None
      BY <1>2, HeapAssumption DEF Twins, Exists
    <2>2. S.count[h] + Num(S, t) \in Int
      BY <2>1 DEF Sane, States, Exists, Num
    <2>3. Sane(M) /\ M.env = S.env
      <3> HIDE DEF t
      <3>1. QED
        BY <2>1, <2>2, SetHeapSizeSane
    <2>4. Enter(S, h, p) = Doom(N, h)
      BY <1>2 DEF Enter
    <2> HIDE DEF t, M
    <2>5. Sane(N) /\ N.env = [S.env EXCEPT ![h] = t]
      <3>1. /\ N.env = [M.env EXCEPT ![h] = t] /\ N.leave = [M.leave EXCEPT ![h] = 0]
            /\ N.count = M.count /\ N.restores = M.restores /\ N.removals = M.removals
        BY <2>3 DEF Sane, States
      <3>2. N.env \in [Heaps -> Places \cup Heaps \cup {None}] /\ N.leave \in [Heaps -> Nat]
        BY <2>1, <2>3, <3>1 DEF Sane, States
      <3>3. N \in States
        BY <2>3, <3>1, <3>2 DEF Sane, States
      <3> HIDE DEF N
      <3>4. QED
        BY <2>1, <2>3, <3>1, <3>3 DEF Sane, States, Exists
    <2> HIDE DEF N
    <2>6. Exists(N, h) /\ Keeps(S, N)
      BY <2>1, <2>5 DEF Exists, Keeps, Sane, States
    <2>7. Sane(Doom(N, h)) /\ Doom(N, h).env = N.env
      BY <2>5, <2>6, DoomSane
    <2>8. QED
      BY <2>4, <2>6, <2>7 DEF Keeps
  <1>3. QED
    BY <1>1, <1>2

\* The clone f of what h leaves behind in p.
LEMMA CloneSane ==
    ASSUME NEW S, Sane(S), NEW h, Exists(S, h), NEW p, p # None, p \in Places \cup Heaps,
           NEW f \in Heaps, S.env[f] = None, f # h,
           0 < S.leave[h], S.leave[h] < S.count[h]
    PROVE  Sane([S EXCEPT !.count[h] = @ - S.leave[h], !.leave[h] = 0,
                          !.env[f] = p, !.count[f] = S.leave[h],
                          !.hide[f] = S.hide[h], !.dying[f] = S.dying[h]])
  <1> DEFINE L == [S EXCEPT !.count[h] = @ - S.leave[h], !.leave[h] = 0,
                            !.env[f] = p, !.count[f] = S.leave[h],
                            !.hide[f] = S.hide[h], !.dying[f] = S.dying[h]]
  <1>1. S.count[h] - S.leave[h] \in Nat /\ S.leave[h] \in Nat
    BY DEF Sane, States, Exists
  <1>2. /\ L.env = [S.env EXCEPT ![f] = p]
        /\ L.count = [S.count EXCEPT ![h] = @ - S.leave[h], ![f] = S.leave[h]]
        /\ L.leave = [S.leave EXCEPT ![h] = 0]
        /\ L.hide = [S.hide EXCEPT ![f] = S.hide[h]]
        /\ L.dying = [S.dying EXCEPT ![f] = S.dying[h]]
        /\ L.restores = S.restores /\ L.removals = S.removals /\ L.held = S.held
    BY DEF Sane, States
  <1>3. L \in States
    <2>1. /\ L.env \in [Heaps -> Places \cup Heaps \cup {None}]
          /\ L.count \in [Heaps -> Nat]
          /\ L.leave \in [Heaps -> Nat]
      BY <1>1, <1>2 DEF Sane, States, Exists
    <2>2. /\ L.hide \in [Heaps -> BOOLEAN]
          /\ L.dying \in [Heaps -> BOOLEAN]
      BY <1>2 DEF Sane, States, Exists
    <2>3. QED
      BY <1>2, <2>1, <2>2 DEF Sane, States
  <1> HIDE DEF L
  <1>4. Sane(L)
    BY <1>1, <1>2, <1>3 DEF Sane, States, Exists
  <1>5. QED
    BY <1>4 DEF L

LEMMA LeaveSane ==
    ASSUME NEW S, Sane(S), NEW h, Exists(S, h), NEW p,
           S.leave[h] > 0 => HasFree(S), p \in Places \cup Heaps
    PROVE  Sane(Leave(S, h, p)) /\ Keeps(S, Leave(S, h, p))
  <1> DEFINE f == Fresh(S)
             L == [S EXCEPT !.count[h] = @ - S.leave[h], !.leave[h] = 0,
                            !.env[f] = p, !.count[f] = S.leave[h],
                            !.hide[f] = S.hide[h], !.dying[f] = S.dying[h]]
             left == 0 < S.leave[h] /\ S.leave[h] < S.count[h]
             R == IF left THEN Enter(L, f, p) ELSE S
  <1>1. left => f \in Heaps /\ S.env[f] = None
    BY DEF HasFree, Fresh, Sane, States, Exists
  <1>2. p # None /\ (left => f # h)
    BY <1>1, HeapAssumption DEF Places, Exists
  <1>3. Leave(S, h, p) = Credit(R, p, - Num(S, h))
    BY DEF Leave
  <1>4. Num(S, h) \in Int
    BY DEF Sane, States, Exists, Num
  <1> HIDE DEF f
  <1>5. Sane(R) /\ Keeps(S, R)
    <2>1. CASE left
      <3>1. L.env = [S.env EXCEPT ![f] = p]
        BY DEF Sane, States
      <3>2. Sane(L)
        BY <1>1, <1>2, <2>1, CloneSane
      <3> HIDE DEF L
      <3>3. Exists(L, f) /\ Keeps(S, L)
        BY <1>1, <1>2, <2>1, <3>1 DEF Exists, Keeps, Sane, States
      <3>4. QED
        BY <1>2, <2>1, <3>2, <3>3, EnterSane DEF Keeps
    <2>2. CASE ~left
      BY <2>2 DEF Keeps
    <2>3. QED
      BY <2>1, <2>2
  <1> HIDE DEF R
  <1>6. QED
    BY <1>3, <1>4, <1>5, CreditSane DEF Keeps

LEMMA RelocateSane ==
    ASSUME NEW S, Sane(S), HasFree(S), NEW h, Exists(S, h), NEW p, p \in Places
    PROVE  Sane(Relocate(S, h, p)) /\ Keeps(S, Relocate(S, h, p))
  <1> DEFINE M == [S EXCEPT !.env[h] = p]
             L == Leave(M, h, S.env[h])
  <1>1. p # None
    BY HeapAssumption DEF Places
  <1>2. Sane(M) /\ M.env = [S.env EXCEPT ![h] = p]
    BY <1>1 DEF Sane, States, Exists
  <1>3. Exists(M, h) /\ Keeps(S, M) /\ HasFree(M)
    BY <1>1, <1>2 DEF Exists, Keeps, HasFree, Sane, States
  <1>4. S.env[h] \in Places \cup Heaps
    BY DEF Sane, States, Exists
  <1>5. Relocate(S, h, p) = Enter(L, h, p)
    BY DEF Relocate
  <1> HIDE DEF M
  <1>6. Sane(L) /\ Keeps(M, L)
    BY <1>2, <1>3, <1>4, LeaveSane
  <1> HIDE DEF L
  <1>7. Exists(L, h)
    BY <1>3, <1>6 DEF Exists, Keeps
  <1>8. QED
    BY <1>1, <1>3, <1>5, <1>6, <1>7, EnterSane DEF Keeps

\* A living that cannot carry all takes what it can.
LEMMA FitSane ==
    ASSUME NEW S, Sane(S), HasFree(S), NEW h, Exists(S, h), NEW p, p \in Places, Fits(S, h, p)
    PROVE  Sane(Fit(S, h, p)) /\ HasFree(Fit(S, h, p)) /\ Exists(Fit(S, h, p), h)
  <1>1. CASE p # Room /\ Num(S, h) > Spare(S, p)
    <2>1. Spare(S, p) \in Int /\ Num(S, h) \in Int
      BY <1>1, HeapAssumption DEF Spare, Num, Sane, States, Places, Exists
    <2>2. Spare(S, p) \in Nat
      BY <1>1, <2>1 DEF Fits
    <2>3. Fit(S, h, p) = SplitHeap(S, h, Spare(S, p))
      BY <1>1 DEF Fit
    <2>4. QED
      BY <2>2, <2>3, SplitHeapSane DEF HasFree, Exists
  <1>2. CASE ~(p # Room /\ Num(S, h) > Spare(S, p))
    BY <1>2 DEF Fit
  <1>3. QED
    BY <1>1, <1>2

LEMMA MovedSane ==
    ASSUME NEW S, Sane(S), HasFree(S), NEW h, Exists(S, h), NEW p, p \in Places,
           NEW allowed \in BOOLEAN
    PROVE  Sane(Moved(S, h, p, allowed)) /\ Exists(Moved(S, h, p, allowed), h)
  <1>1. CASE ~Fits(S, h, p)
    BY <1>1 DEF Moved
  <1>2. CASE Fits(S, h, p)
    <2>1. /\ Sane(Fit(S, h, p)) /\ HasFree(Fit(S, h, p)) /\ Exists(Fit(S, h, p), h)
      BY <1>2, FitSane
    <2>2. CASE allowed
      <3>1. Moved(S, h, p, allowed) = Relocate(Fit(S, h, p), h, p)
        BY <1>2, <2>2 DEF Moved
      <3>2. QED
        BY <2>1, <3>1, RelocateSane DEF Keeps, Exists
    <2>3. CASE ~allowed
      BY <1>2, <2>1, <2>3 DEF Moved
    <2>4. QED
      BY <2>2, <2>3
  <1>3. QED
    BY <1>1, <1>2

LEMMA SetHideSane ==
    ASSUME NEW S, Sane(S), NEW h, Exists(S, h), NEW b \in BOOLEAN
    PROVE  Sane(SetHide(S, h, b)) /\ Exists(SetHide(S, h, b), h)
  BY DEF Sane, States, Exists, SetHide

LEMMA ForceHeapMergeSane ==
    ASSUME NEW S, Sane(S), NEW h, Exists(S, h)
    PROVE  Sane(ForceHeapMerge(S, h))
  <1>1. CASE Twins(S, h, S.env[h]) = {}
    BY <1>1 DEF ForceHeapMerge
  <1>2. CASE Twins(S, h, S.env[h]) # {}
    <2> DEFINE t == CHOOSE t \in Twins(S, h, S.env[h]) : TRUE
               M == SetHeapSize(S, t, S.count[h] + Num(S, t))
    <2>1. Exists(S, t)
      BY <1>2 DEF Twins, Exists
    <2>2. S.count[h] + Num(S, t) \in Int
      BY <2>1 DEF Sane, States, Exists, Num
    <2>3. ForceHeapMerge(S, h) = Doom(M, h)
      BY <1>2 DEF ForceHeapMerge
    <2> HIDE DEF t
    <2>4. Sane(M) /\ M.env = S.env
      BY <2>1, <2>2, SetHeapSizeSane
    <2> HIDE DEF M
    <2>5. QED
      BY <2>3, <2>4, DoomSane DEF Exists
  <1>3. QED
    BY <1>1, <1>2

LEMMA DestructSane ==
    ASSUME NEW S, Sane(S), NEW hs
    PROVE  Sane(Destruct(S, hs))
  <1> DEFINE D == Destruct(S, hs)
  <1>1. /\ D.env = [x \in Heaps |-> IF x \in hs THEN None ELSE S.env[x]]
        /\ D.count = [x \in Heaps |-> IF x \in hs THEN 0 ELSE S.count[x]]
        /\ D.leave = [x \in Heaps |-> IF x \in hs THEN 0 ELSE S.leave[x]]
        /\ D.restores = [x \in Heaps |-> IF x \in hs THEN 0 ELSE S.restores[x]]
        /\ D.removals = [x \in Heaps |-> IF x \in hs THEN 0 ELSE S.removals[x]]
    BY DEF Sane, States, Destruct
  <1>2. /\ D.hide = [x \in Heaps |-> x \notin hs /\ S.hide[x]]
        /\ D.dying = [x \in Heaps |-> x \notin hs /\ S.dying[x]]
        /\ D.held = S.held
    BY DEF Sane, States, Destruct
  <1>3. D \in States
    <2>1. /\ D.env \in [Heaps -> Places \cup Heaps \cup {None}]
          /\ D.count \in [Heaps -> Nat] /\ D.leave \in [Heaps -> Nat]
          /\ D.restores \in [Heaps -> Nat] /\ D.removals \in [Heaps -> Nat]
      <3> HIDE DEF D
      <3>1. QED
        BY <1>1 DEF Sane, States
    <2>2. D.hide \in [Heaps -> BOOLEAN] /\ D.dying \in [Heaps -> BOOLEAN]
          /\ D.held \in [Livings -> Int]
      <3> HIDE DEF D
      <3>1. QED
        BY <1>2 DEF Sane, States
    <2>3. QED
      BY <2>1, <2>2 DEF Sane, States, Destruct
  <1> HIDE DEF D
  <1>4. ASSUME NEW x \in Heaps
        PROVE  /\ D.env[x] = None => /\ D.count[x] = 0 /\ D.leave[x] = 0
                                     /\ D.restores[x] = 0 /\ D.removals[x] = 0
               /\ D.leave[x] > 0 => D.restores[x] > 0
    <2>1. /\ S.env[x] = None => /\ S.count[x] = 0 /\ S.leave[x] = 0
                                /\ S.restores[x] = 0 /\ S.removals[x] = 0
          /\ S.leave[x] > 0 => S.restores[x] > 0
      BY DEF Sane
    <2>2. CASE x \in hs
      BY <1>1, <2>2
    <2>3. CASE x \notin hs
      BY <1>1, <2>1, <2>3
    <2>4. QED
      BY <2>2, <2>3
  <1>5. Sane(D)
    BY <1>3, <1>4 DEF Sane
  <1>6. QED
    BY <1>5 DEF D

LEMMA RemoveObjectSane ==
    ASSUME NEW S, Sane(S), NEW h, Exists(S, h), S.leave[h] > 0 => HasFree(S)
    PROVE  Sane(RemoveObject(S, h))
  <1>1. S.env[h] \in Places \cup Heaps
    BY DEF Sane, States, Exists
  <1>2. Sane(Leave(S, h, S.env[h]))
    BY <1>1, LeaveSane
  <1>3. QED
    BY <1>2, DestructSane DEF RemoveObject

\* A call-out of restore_heap: the split it undoes is no longer pending.
LEMMA RestoreSane ==
    ASSUME NEW S, Sane(S), NEW h, Exists(S, h), S.restores[h] > 0
    PROVE  Sane([RestoreHeap(S, h) EXCEPT !.restores[h] = @ - 1])
  <1> DEFINE R == RestoreHeap(S, h)
  <1>1. Sane(R) /\ R.leave = [S.leave EXCEPT ![h] = 0] /\ R.env = S.env
    BY RestoreHeapSane
  <1>2. R.restores = S.restores
    BY DEF Sane, States, RestoreHeap, Resize, Credit
  <1> HIDE DEF R
  <1> DEFINE T == [R EXCEPT !.restores[h] = @ - 1]
  <1>3. /\ T.env = S.env /\ T.count = R.count /\ T.leave = R.leave
        /\ T.removals = R.removals /\ T.restores = [S.restores EXCEPT ![h] = @ - 1]
    BY <1>1, <1>2 DEF Sane, States
  <1>4. T \in States
    <2>1. S.restores[h] - 1 \in Nat
      BY DEF Sane, States, Exists
    <2>2. QED
      BY <1>1, <1>2, <2>1 DEF Sane, States, Exists
  <1> HIDE DEF T
  <1>5. Sane(T)
    BY <1>1, <1>3, <1>4 DEF Sane, States, Exists
  <1>6. QED
    BY <1>5 DEF T, R

-----------------------------------------------------------------------------

IInv == Sane(State) /\ eaten \in Nat

LEMMA SplitOfNamed ==
    ASSUME NEW S, Sane(S), NEW h, Exists(S, h), NEW n \in Nat
    PROVE  LET T == IF n = 0 THEN S ELSE SplitHeap(S, h, n)
           IN Sane(T) /\ Exists(T, h) /\ (HasFree(S) => HasFree(T))
  BY SplitHeapSane DEF Exists, HasFree

LEMMA InitSane == ASSUME Init PROVE IInv
  <1>1. PICK h \in Heaps :
          /\ env = [x \in Heaps |-> IF x = h THEN Room ELSE None]
          /\ count = [x \in Heaps |-> IF x = h THEN Items ELSE 0]
          /\ leave = [x \in Heaps |-> 0]
          /\ hide = [x \in Heaps |-> FALSE]
          /\ dying = [x \in Heaps |-> FALSE]
          /\ restores = [x \in Heaps |-> 0]
          /\ removals = [x \in Heaps |-> 0]
          /\ held = [p \in Livings |-> 0]
          /\ eaten = 0
    BY DEF Init
  <1>2. State \in States
    BY <1>1, HeapAssumption DEF State, States, Places
  <1>3. \A x \in Heaps : env[x] = None => count[x] = 0
    BY <1>1, HeapAssumption
  <1>4. QED
    BY <1>1, <1>2, <1>3 DEF IInv, Sane, State

LEMMA BecomesSane ==
    ASSUME NEW T, Sane(T), Becomes(T), eaten' \in Nat
    PROVE  IInv'
  BY DEF IInv, Sane, State, States, Becomes

LEMMA CommandSane ==
    ASSUME IInv, NEW p \in Livings, NEW h \in Heaps, NEW n \in 0 .. MaxTotal,
           Command(p, h, n)
    PROVE  IInv'
  <1> DEFINE S == Named(h, n)
  <1>1. Sane(State) /\ HasFree(State) /\ n \in Nat
    BY HeapAssumption DEF IInv, Command, Free, HasFree, State
  <1>2. p \in Places /\ Room \in Places /\ None \notin Places
    BY HeapAssumption DEF Places
  <1>3. Name(p, h, n) \/ Reveal(p, h, n) \/ (\E e \in 0 .. MaxTotal : Eat(p, h, n, e))
        \/ \E allowed \in BOOLEAN :
             Get(p, h, n, allowed) \/ Drop(p, h, n, allowed) \/ Hide(p, h, n, allowed)
    BY DEF Command
  <1>4. Exists(State, h)
    BY <1>2, <1>3 DEF Exists, State, Name, Reveal, Eat, Get, Drop, Hide
  <1>5. Sane(S) /\ Exists(S, h) /\ HasFree(S)
    <2>1. Sane(State) /\ Exists(State, h) /\ n \in Nat
      BY <1>1, <1>4
    <2>2. QED
      BY <1>1, <2>1, SplitOfNamed DEF Named
  <1>6. eaten \in Nat
    BY DEF IInv
  <1>7. CASE Name(p, h, n)
    BY <1>5, <1>6, <1>7, BecomesSane DEF Name
  <1>8. CASE Reveal(p, h, n)
    <2>1. Sane(ForceHeapMerge(SetHide(S, h, FALSE), h))
      BY <1>5, SetHideSane, ForceHeapMergeSane
    <2>2. QED
      BY <1>6, <1>8, <2>1, BecomesSane DEF Reveal
  <1>9. ASSUME NEW e \in 0 .. MaxTotal, Eat(p, h, n, e)
        PROVE  IInv'
    <2> DEFINE T == IF e < Num(S, h) THEN SplitHeap(S, h, e) ELSE S
    <2>1. e \in Nat
      BY HeapAssumption
    <2>2. Sane(T) /\ Exists(T, h) /\ HasFree(T)
      <3>1. CASE e < Num(S, h)
        BY <1>5, <2>1, <3>1, SplitHeapSane DEF Exists, HasFree
      <3>2. CASE ~(e < Num(S, h))
        BY <1>5, <3>2
      <3>3. QED
        BY <3>1, <3>2
    <2>3. Becomes(IF T.leave[h] > 0 THEN SetHeapSize(T, h, T.leave[h]) ELSE RemoveObject(T, h))
      BY <1>9 DEF Eat
    <2> HIDE DEF T
    <2>4. T.leave[h] \in Int
      BY <2>2 DEF Sane, States, Exists
    <2>5. Sane(IF T.leave[h] > 0 THEN SetHeapSize(T, h, T.leave[h]) ELSE RemoveObject(T, h))
      BY <2>2, <2>4, SetHeapSizeSane, RemoveObjectSane
    <2>6. eaten' \in Nat
      BY <1>6, <1>9, <2>1 DEF Eat
    <2>7. QED
      BY <2>3, <2>5, <2>6, BecomesSane
  <1>10. ASSUME NEW allowed \in BOOLEAN,
                Get(p, h, n, allowed) \/ Drop(p, h, n, allowed) \/ Hide(p, h, n, allowed)
         PROVE  IInv'
    <2> DEFINE MP == Moved(S, h, p, allowed)
               MR == Moved(S, h, Room, allowed)
    <2>1. Sane(MP) /\ Exists(MP, h) /\ Sane(MR) /\ Exists(MR, h)
      BY <1>2, <1>5, MovedSane
    <2>2. eaten' \in Nat
      BY <1>6, <1>10 DEF Get, Drop, Hide
    <2>3. \/ Becomes(MP) \/ Becomes(ForceHeapMerge(SetHide(MP, h, FALSE), h))
          \/ Becomes(MR) \/ Becomes(ForceHeapMerge(SetHide(MR, h, TRUE), h))
      BY <1>10 DEF Get, Drop, Hide
    <2> HIDE DEF MP, MR
    <2>4. /\ Sane(ForceHeapMerge(SetHide(MP, h, FALSE), h))
          /\ Sane(ForceHeapMerge(SetHide(MR, h, TRUE), h))
      BY <2>1, SetHideSane, ForceHeapMergeSane
    <2>5. QED
      BY <2>1, <2>2, <2>3, <2>4, BecomesSane
  <1>11. QED
    BY <1>3, <1>7, <1>8, <1>9, <1>10

LEMMA NextSane == ASSUME IInv, [Next]_vars PROVE IInv'
  <1>1. CASE UNCHANGED vars
    BY <1>1 DEF IInv, Sane, State, vars
  <1>2. ASSUME NEW h \in Heaps, Restore(h)
        PROVE  IInv'
    <2>1. Sane(State) /\ State.restores[h] > 0 /\ Exists(State, h)
      BY <1>2 DEF IInv, Restore, State, Sane, Exists
    <2>2. QED
      BY <1>2, <2>1, RestoreSane, BecomesSane DEF Restore, IInv
  <1>3. ASSUME NEW h \in Heaps, Remove(h)
        PROVE  IInv'
    <2>1. Sane(State) /\ Exists(State, h) /\ (State.leave[h] > 0 => HasFree(State))
      BY <1>3 DEF IInv, Remove, State, Sane, Exists, HasFree, Free
    <2>2. QED
      BY <1>3, <2>1, RemoveObjectSane, BecomesSane DEF Remove, IInv
  <1>4. QED
    BY <1>1, <1>2, <1>3, CommandSane DEF Next

\* Types: every heap has a sensible size and environment, and a destructed heap
\* has no items and no call-outs, whatever the commands and call-outs did.
THEOREM HeapTypes == Spec => []TypeOK
  <1>1. IInv => TypeOK
    BY DEF IInv, Sane, State, States, TypeOK
  <1>2. QED
    BY <1>1, InitSane, NextSane, PTL DEF Spec

\* A split that was not carried out is undone: in every reachable state in which
\* a heap holds items back, a call-out of its restore_heap is due.
THEOREM HeapSplitIsPending == Spec => []SplitIsPending
  <1>1. IInv => SplitIsPending
    BY DEF IInv, Sane, State, SplitIsPending
  <1>2. QED
    BY <1>1, InitSane, NextSane, PTL DEF Spec

-----------------------------------------------------------------------------
(***************************************************************************)
(* No twins.  In the middle of a command a heap may well lie beside its    *)
(* twin: it has come in and enter_env has not been called, or it has been  *)
(* revealed and force_heap_merge has not.  So the invariant is said of all *)
(* heaps but those in X, and the functions that merge take heaps out of X. *)
(***************************************************************************)
Apart(S, X) ==
    \A a, b \in Heaps \ X :
        a # b /\ S.env[a] \in Places /\ S.env[b] = S.env[a] /\ S.hide[b] = S.hide[a]
            => S.dying[a] \/ S.dying[b]

\* What most functions do: nothing to where heaps are, nor to what is hidden.
Stays(S, T) ==
    /\ T.env = S.env
    /\ T.hide = S.hide
    /\ \A a \in Heaps : S.dying[a] => T.dying[a]

LEMMA StaysApart ==
    ASSUME NEW S, NEW T, Stays(S, T), NEW X, Apart(S, X)
    PROVE  Apart(T, X)
  BY DEF Stays, Apart

LEMMA CreditStays ==
    ASSUME NEW S, Sane(S), NEW p, NEW d
    PROVE  Stays(S, Credit(S, p, d))
  BY DEF Sane, States, Credit, Stays

LEMMA ResizeStays ==
    ASSUME NEW S, Sane(S), NEW h, NEW n, NEW l
    PROVE  Stays(S, Resize(S, h, n, l))
  BY DEF Sane, States, Resize, Credit, Stays

LEMMA DoomStays ==
    ASSUME NEW S, Sane(S), NEW h, Exists(S, h)
    PROVE  Stays(S, Doom(S, h)) /\ Doom(S, h).dying[h]
  <1>1. /\ Doom(S, h).env = S.env /\ Doom(S, h).hide = S.hide
        /\ Doom(S, h).dying = [S.dying EXCEPT ![h] = TRUE]
    BY DEF Sane, States, Doom
  <1>2. S.dying \in [Heaps -> BOOLEAN] /\ h \in Heaps
    BY DEF Sane, States, Exists
  <1>3. QED
    BY <1>1, <1>2 DEF Stays

LEMMA SetHeapSizeStays ==
    ASSUME NEW S, Sane(S), NEW h, Exists(S, h), NEW n \in Int
    PROVE  Stays(S, SetHeapSize(S, h, n))
  <1>1. CASE n <= 0
    <2> DEFINE R == Resize(S, h, 0, 0)
    <2>1. Sane(R) /\ R.env = S.env /\ Stays(S, R)
      BY ResizeSane, ResizeStays
    <2>2. SetHeapSize(S, h, n) = Doom(R, h)
      BY <1>1 DEF SetHeapSize
    <2> HIDE DEF R
    <2>3. Stays(R, Doom(R, h))
      BY <2>1, DoomStays DEF Exists
    <2>4. QED
      BY <2>1, <2>2, <2>3 DEF Stays
  <1>2. CASE ~(n <= 0)
    BY <1>2, ResizeStays DEF SetHeapSize
  <1>3. QED
    BY <1>1, <1>2

LEMMA SplitHeapStays ==
    ASSUME NEW S, Sane(S), NEW h, NEW n
    PROVE  Stays(S, SplitHeap(S, h, n))
  <1>1. CASE S.count[h] <= n
    BY <1>1 DEF SplitHeap, Sane, States, Stays
  <1>2. CASE ~(S.count[h] <= n)
    BY <1>2 DEF SplitHeap, Resize, Credit, Sane, States, Stays
  <1>3. QED
    BY <1>1, <1>2

\* A heap that enters p merges with its twin there, or has none.
LEMMA EnterApart ==
    ASSUME NEW S, Sane(S), NEW h, Exists(S, h), NEW p, p # None, S.env[h] = p,
           NEW X, Apart(S, X \cup {h})
    PROVE  /\ Apart(Enter(S, h, p), X)
           /\ \A x \in Heaps \ {h} : Enter(S, h, p).env[x] = S.env[x]
  <1>1. CASE Twins(S, h, p) = {}
    <2>1. Apart(S, X)
      BY <1>1 DEF Apart, Twins
    <2>2. Stays(S, Enter(S, h, p))
      BY <1>1, CreditStays DEF Enter
    <2>3. QED
      BY <2>1, <2>2, StaysApart DEF Stays
  <1>2. CASE Twins(S, h, p) # {}
    <2> DEFINE t == CHOOSE t \in Twins(S, h, p) : TRUE
               M == SetHeapSize(S, t, S.count[h] + Num(S, t))
               N == [M EXCEPT !.leave[h] = 0, !.env[h] = t]
    <2>1. t \in Heaps /\ Exists(S, t) /\ t \notin Places
      BY <1>2, HeapAssumption DEF Twins, Exists, Places
    <2>2. S.count[h] + Num(S, t) \in Int
      BY <2>1 DEF Sane, States, Exists, Num
    <2>3. Sane(M) /\ Stays(S, M)
      <3> HIDE DEF t
      <3>1. QED
        BY <2>1, <2>2, SetHeapSizeSane, SetHeapSizeStays
    <2>4. Enter(S, h, p) = Doom(N, h)
      BY <1>2 DEF Enter
    <2> HIDE DEF t, M
    <2>5. /\ Doom(N, h).env = [M.env EXCEPT ![h] = t]
          /\ Doom(N, h).hide = M.hide
          /\ Doom(N, h).dying = [M.dying EXCEPT ![h] = TRUE]
      BY <2>3 DEF Sane, States, Doom
    <2> HIDE DEF N
    <2>6. \A x \in Heaps : Doom(N, h).env[x] = IF x = h THEN t ELSE S.env[x]
      BY <2>3, <2>5 DEF Sane, States, Stays
    <2>7. \A x \in Heaps : S.dying[x] => Doom(N, h).dying[x]
      BY <2>3, <2>5 DEF Sane, States, Stays
    <2>8. Apart(Doom(N, h), X)
      BY <2>1, <2>3, <2>5, <2>6, <2>7 DEF Apart, Stays
    <2>9. QED
      BY <2>4, <2>6, <2>8
  <1>3. QED
    BY <1>1, <1>2

\* What h leaves behind in p merges there too; h itself may be anywhere.
LEMMA LeaveApart ==
    ASSUME NEW S, Sane(S), NEW h, Exists(S, h), NEW p,
           S.leave[h] > 0 => HasFree(S), p \in Places \cup Heaps,
           NEW X, Apart(S, X)
    PROVE  /\ Apart(Leave(S, h, p), X)
           /\ Leave(S, h, p).env[h] = S.env[h]
  <1> DEFINE f == Fresh(S)
             L == [S EXCEPT !.count[h] = @ - S.leave[h], !.leave[h] = 0,
                            !.env[f] = p, !.count[f] = S.leave[h],
                            !.hide[f] = S.hide[h], !.dying[f] = S.dying[h]]
             left == 0 < S.leave[h] /\ S.leave[h] < S.count[h]
             R == IF left THEN Enter(L, f, p) ELSE S
  <1>1. left => f \in Heaps /\ S.env[f] = None
    BY DEF HasFree, Fresh, Sane, States, Exists
  <1>2. p # None /\ None \notin Places /\ (left => f # h)
    BY <1>1, HeapAssumption DEF Places, Exists
  <1>3. Leave(S, h, p) = Credit(R, p, - Num(S, h))
    BY DEF Leave
  <1> HIDE DEF f
  <1>4. Sane(R) /\ Apart(R, X) /\ R.env[h] = S.env[h]
    <2>1. CASE left
      <3>1. /\ L.env = [S.env EXCEPT ![f] = p]
            /\ L.count = [S.count EXCEPT ![h] = @ - S.leave[h], ![f] = S.leave[h]]
            /\ L.leave = [S.leave EXCEPT ![h] = 0]
            /\ L.hide = [S.hide EXCEPT ![f] = S.hide[h]]
            /\ L.dying = [S.dying EXCEPT ![f] = S.dying[h]]
            /\ L.restores = S.restores /\ L.removals = S.removals /\ L.held = S.held
        BY DEF Sane, States
      <3>2. Sane(L)
        BY <2>1, <1>1, <1>2, CloneSane
      <3> HIDE DEF L
      <3>3. Exists(L, f) /\ L.env[f] = p /\ L.env[h] = S.env[h] /\ h \in Heaps
        BY <1>1, <1>2, <2>1, <3>1 DEF Exists, Sane, States
      <3>4. Apart(L, X \cup {f})
        <4>1. \A x \in Heaps \ {f} : /\ L.env[x] = S.env[x] /\ L.hide[x] = S.hide[x]
                                     /\ L.dying[x] = S.dying[x]
          BY <3>1 DEF Sane, States
        <4>2. QED
          BY <4>1 DEF Apart
      <3>5. Sane(Enter(L, f, p))
        BY <1>2, <3>2, <3>3, EnterSane
      <3>6. /\ Apart(Enter(L, f, p), X)
            /\ Enter(L, f, p).env[h] = S.env[h]
        BY <1>1, <1>2, <2>1, <3>2, <3>3, <3>4, EnterApart
      <3>7. QED
        BY <2>1, <3>5, <3>6
    <2>2. CASE ~left
      BY <2>2
    <2>3. QED
      BY <2>1, <2>2
  <1> HIDE DEF R
  <1>5. Stays(R, Leave(S, h, p))
    BY <1>3, <1>4, CreditStays
  <1>6. QED
    BY <1>4, <1>5, StaysApart DEF Stays

LEMMA RelocateApart ==
    ASSUME NEW S, Sane(S), HasFree(S), NEW h, Exists(S, h), NEW p, p \in Places,
           Apart(S, {})
    PROVE  Apart(Relocate(S, h, p), {})
  <1> DEFINE M == [S EXCEPT !.env[h] = p]
             L == Leave(M, h, S.env[h])
  <1>1. p # None
    BY HeapAssumption DEF Places
  <1>2. Sane(M) /\ M.env = [S.env EXCEPT ![h] = p] /\ M.hide = S.hide /\ M.dying = S.dying
    BY <1>1 DEF Sane, States, Exists
  <1>3. Exists(M, h) /\ HasFree(M) /\ M.env[h] = p
    BY <1>1, <1>2 DEF Exists, HasFree, Sane, States
  <1>4. S.env[h] \in Places \cup Heaps
    BY DEF Sane, States, Exists
  <1>5. Apart(M, {h})
    BY <1>2 DEF Apart, Sane, States
  <1>6. Relocate(S, h, p) = Enter(L, h, p)
    BY DEF Relocate
  <1> HIDE DEF M
  <1>7. Sane(L) /\ Keeps(M, L)
    BY <1>2, <1>3, <1>4, LeaveSane
  <1>8. Apart(L, {h}) /\ L.env[h] = p
    <2> DEFINE q == S.env[h]
    <2>1. Sane(M) /\ Exists(M, h) /\ HasFree(M) /\ q \in Places \cup Heaps
      BY <1>2, <1>3, <1>4
    <2> HIDE DEF q
    <2>2. Apart(Leave(M, h, q), {h}) /\ Leave(M, h, q).env[h] = M.env[h]
      BY <1>5, <2>1, LeaveApart
    <2>3. QED
      BY <1>3, <2>2 DEF q
  <1> HIDE DEF L
  <1>9. Exists(L, h)
    BY <1>3, <1>7 DEF Exists, Keeps
  <1>10. {h} = {} \cup {h}
    OBVIOUS
  <1> DEFINE X == {}
  <1>11. Apart(L, X \cup {h})
    BY <1>8, <1>10
  <1> HIDE DEF X
  <1>12. Apart(Enter(L, h, p), X)
    BY <1>1, <1>7, <1>8, <1>9, <1>11, EnterApart
  <1>13. QED
    BY <1>6, <1>12 DEF X

LEMMA MovedApart ==
    ASSUME NEW S, Sane(S), HasFree(S), NEW h, Exists(S, h), NEW p, p \in Places,
           NEW allowed \in BOOLEAN, Apart(S, {})
    PROVE  Apart(Moved(S, h, p, allowed), {})
  <1>1. CASE ~Fits(S, h, p)
    BY <1>1 DEF Moved
  <1>2. CASE Fits(S, h, p)
    <2>1. /\ Sane(Fit(S, h, p)) /\ HasFree(Fit(S, h, p)) /\ Exists(Fit(S, h, p), h)
      BY <1>2, FitSane
    <2>2. Apart(Fit(S, h, p), {})
      BY SplitHeapStays, StaysApart DEF Fit
    <2>3. CASE allowed
      <3>1. Moved(S, h, p, allowed) = Relocate(Fit(S, h, p), h, p)
        BY <1>2, <2>3 DEF Moved
      <3>2. QED
        BY <2>1, <2>2, <3>1, RelocateApart
    <2>4. CASE ~allowed
      BY <1>2, <2>2, <2>4 DEF Moved
    <2>5. QED
      BY <2>3, <2>4
  <1>3. QED
    BY <1>1, <1>2

LEMMA SetHideApart ==
    ASSUME NEW S, Sane(S), NEW h, NEW b, Apart(S, {})
    PROVE  Apart(SetHide(S, h, b), {h})
  <1>1. /\ SetHide(S, h, b).env = S.env /\ SetHide(S, h, b).dying = S.dying
        /\ SetHide(S, h, b).hide = [S.hide EXCEPT ![h] = b]
    BY DEF Sane, States, SetHide
  <1>2. QED
    BY <1>1 DEF Apart, Sane, States

LEMMA ForceHeapMergeApart ==
    ASSUME NEW S, Sane(S), NEW h, Exists(S, h), Apart(S, {h})
    PROVE  Apart(ForceHeapMerge(S, h), {})
  <1>1. CASE Twins(S, h, S.env[h]) = {}
    BY <1>1 DEF ForceHeapMerge, Apart, Twins
  <1>2. CASE Twins(S, h, S.env[h]) # {}
    <2> DEFINE t == CHOOSE t \in Twins(S, h, S.env[h]) : TRUE
               M == SetHeapSize(S, t, S.count[h] + Num(S, t))
    <2>1. Exists(S, t)
      BY <1>2 DEF Twins, Exists
    <2>2. S.count[h] + Num(S, t) \in Int
      BY <2>1 DEF Sane, States, Exists, Num
    <2>3. ForceHeapMerge(S, h) = Doom(M, h)
      BY <1>2 DEF ForceHeapMerge
    <2> HIDE DEF t
    <2>4. Sane(M) /\ Stays(S, M) /\ Exists(M, h)
      BY <2>1, <2>2, SetHeapSizeSane, SetHeapSizeStays DEF Exists
    <2> HIDE DEF M
    <2>5. Apart(M, {h})
      BY <2>4, StaysApart
    <2>6. Stays(M, Doom(M, h)) /\ Doom(M, h).dying[h]
      BY <2>4, DoomStays
    <2>7. Apart(Doom(M, h), {h})
      BY <2>5, <2>6, StaysApart
    <2>8. QED
      BY <2>3, <2>6, <2>7 DEF Apart
  <1>3. QED
    BY <1>1, <1>2

LEMMA RemoveObjectApart ==
    ASSUME NEW S, Sane(S), NEW h, Exists(S, h), S.leave[h] > 0 => HasFree(S), Apart(S, {})
    PROVE  Apart(RemoveObject(S, h), {})
  <1> DEFINE L == Leave(S, h, S.env[h])
             hs == Inside(S, h)
             D == Destruct(L, hs)
  <1>1. S.env[h] \in Places \cup Heaps /\ None \notin Places
    BY HeapAssumption DEF Sane, States, Exists, Places
  <1>2. Sane(L) /\ Apart(L, {})
    BY <1>1, LeaveSane, LeaveApart
  <1>3. RemoveObject(S, h) = D
    BY DEF RemoveObject
  <1> HIDE DEF L, hs
  <1>4. /\ D.env = [x \in Heaps |-> IF x \in hs THEN None ELSE L.env[x]]
        /\ D.hide = [x \in Heaps |-> x \notin hs /\ L.hide[x]]
        /\ D.dying = [x \in Heaps |-> x \notin hs /\ L.dying[x]]
    BY <1>2 DEF Sane, States, Destruct
  <1> HIDE DEF D
  <1>5. L.hide \in [Heaps -> BOOLEAN] /\ L.dying \in [Heaps -> BOOLEAN]
    BY <1>2 DEF Sane, States
  <1>6. \A x \in Heaps : D.env[x] \in Places =>
          /\ D.env[x] = L.env[x] /\ D.hide[x] = L.hide[x] /\ D.dying[x] = L.dying[x]
    BY <1>1, <1>4, <1>5
  <1>7. QED
    BY <1>2, <1>3, <1>6 DEF Apart

LEMMA InitApart == ASSUME Init PROVE Apart(State, {})
  BY HeapAssumption DEF Init, Apart, State, Places

LEMMA BecomesApart ==
    ASSUME NEW T, Apart(T, {}), Becomes(T)
    PROVE  Apart(State, {})'
  BY DEF Apart, State, Becomes

LEMMA CommandApart ==
    ASSUME IInv, Apart(State, {}), NEW p \in Livings, NEW h \in Heaps,
           NEW n \in 0 .. MaxTotal, Command(p, h, n)
    PROVE  Apart(State, {})'
  <1> DEFINE S == Named(h, n)
  <1>1. Sane(State) /\ HasFree(State) /\ n \in Nat
    BY HeapAssumption DEF IInv, Command, Free, HasFree, State
  <1>2. p \in Places /\ Room \in Places /\ None \notin Places
    BY HeapAssumption DEF Places
  <1>3. Name(p, h, n) \/ Reveal(p, h, n) \/ (\E e \in 0 .. MaxTotal : Eat(p, h, n, e))
        \/ \E allowed \in BOOLEAN :
             Get(p, h, n, allowed) \/ Drop(p, h, n, allowed) \/ Hide(p, h, n, allowed)
    BY DEF Command
  <1>4. Exists(State, h)
    BY <1>2, <1>3 DEF Exists, State, Name, Reveal, Eat, Get, Drop, Hide
  <1>5. Sane(S) /\ Exists(S, h) /\ HasFree(S)
    <2>1. Sane(State) /\ Exists(State, h) /\ n \in Nat
      BY <1>1, <1>4
    <2>2. QED
      BY <1>1, <2>1, SplitOfNamed DEF Named
  <1>6. Apart(S, {})
    <2>1. CASE n = 0
      BY <2>1 DEF Named
    <2>2. CASE n # 0
      BY <1>1, <2>2, SplitHeapStays, StaysApart DEF Named
    <2>3. QED
      BY <2>1, <2>2
  <1> HIDE DEF S
  <1>7. CASE Name(p, h, n)
    BY <1>6, <1>7, BecomesApart DEF Name, S
  <1>8. CASE Reveal(p, h, n)
    <2>1. Apart(ForceHeapMerge(SetHide(S, h, FALSE), h), {})
      BY <1>5, <1>6, SetHideSane, SetHideApart, ForceHeapMergeApart
    <2>2. QED
      BY <1>8, <2>1, BecomesApart DEF Reveal, S
  <1>9. ASSUME NEW e \in 0 .. MaxTotal, Eat(p, h, n, e)
        PROVE  Apart(State, {})'
    <2> DEFINE T == IF e < Num(S, h) THEN SplitHeap(S, h, e) ELSE S
    <2>1. e \in Nat
      BY HeapAssumption
    <2>2. Sane(T) /\ Exists(T, h) /\ HasFree(T) /\ Apart(T, {})
      <3>1. CASE e < Num(S, h)
        <4>1. Sane(SplitHeap(S, h, e)) /\ SplitHeap(S, h, e).env = S.env
          BY <1>5, <2>1, SplitHeapSane
        <4>2. Apart(SplitHeap(S, h, e), {})
          BY <1>5, <1>6, SplitHeapStays, StaysApart
        <4>3. QED
          BY <1>5, <3>1, <4>1, <4>2 DEF Exists, HasFree
      <3>2. CASE ~(e < Num(S, h))
        BY <1>5, <1>6, <3>2
      <3>3. QED
        BY <3>1, <3>2
    <2>3. Becomes(IF T.leave[h] > 0 THEN SetHeapSize(T, h, T.leave[h]) ELSE RemoveObject(T, h))
      BY <1>9 DEF Eat, S
    <2> HIDE DEF T
    <2>4. T.leave[h] \in Int
      BY <2>2 DEF Sane, States, Exists
    <2>5. Apart(SetHeapSize(T, h, T.leave[h]), {})
      BY <2>2, <2>4, SetHeapSizeStays, StaysApart
    <2>6. Apart(RemoveObject(T, h), {})
      BY <2>2, RemoveObjectApart
    <2>7. QED
      BY <2>3, <2>5, <2>6, BecomesApart
  <1>10. ASSUME NEW allowed \in BOOLEAN,
                Get(p, h, n, allowed) \/ Drop(p, h, n, allowed) \/ Hide(p, h, n, allowed)
         PROVE  Apart(State, {})'
    <2> DEFINE MP == Moved(S, h, p, allowed)
               MR == Moved(S, h, Room, allowed)
    <2>1. Sane(MP) /\ Exists(MP, h) /\ Sane(MR) /\ Exists(MR, h)
      BY <1>2, <1>5, MovedSane
    <2>2. Apart(MP, {}) /\ Apart(MR, {})
      BY <1>2, <1>5, <1>6, MovedApart
    <2>3. \/ Becomes(MP) \/ Becomes(ForceHeapMerge(SetHide(MP, h, FALSE), h))
          \/ Becomes(MR) \/ Becomes(ForceHeapMerge(SetHide(MR, h, TRUE), h))
      BY <1>10 DEF Get, Drop, Hide, S
    <2> HIDE DEF MP, MR
    <2>4. /\ Apart(ForceHeapMerge(SetHide(MP, h, FALSE), h), {})
          /\ Apart(ForceHeapMerge(SetHide(MR, h, TRUE), h), {})
      BY <2>1, <2>2, SetHideSane, SetHideApart, ForceHeapMergeApart
    <2>5. QED
      BY <2>2, <2>3, <2>4, BecomesApart
  <1>11. QED
    BY <1>3, <1>7, <1>8, <1>9, <1>10

LEMMA NextApart == ASSUME IInv, Apart(State, {}), [Next]_vars PROVE Apart(State, {})'
  <1>1. CASE UNCHANGED vars
    BY <1>1 DEF Apart, State, vars
  <1>2. ASSUME NEW h \in Heaps, Restore(h)
        PROVE  Apart(State, {})'
    <2> DEFINE R == RestoreHeap(State, h)
               T == [R EXCEPT !.restores[h] = @ - 1]
    <2>1. Sane(State) /\ Exists(State, h)
      BY <1>2 DEF IInv, Restore, State, Sane, Exists
    <2>2. Sane(R) /\ Stays(State, R)
      BY <2>1, RestoreHeapSane, ResizeStays DEF RestoreHeap
    <2>3. Becomes(T)
      BY <1>2 DEF Restore
    <2> HIDE DEF R
    <2>4. Stays(R, T)
      BY <2>2 DEF Stays, Sane, States
    <2> HIDE DEF T
    <2>5. QED
      BY <2>2, <2>3, <2>4, StaysApart, BecomesApart
  <1>3. ASSUME NEW h \in Heaps, Remove(h)
        PROVE  Apart(State, {})'
    <2>1. Sane(State) /\ Exists(State, h) /\ (State.leave[h] > 0 => HasFree(State))
      BY <1>3 DEF IInv, Remove, State, Sane, Exists, HasFree, Free
    <2>2. QED
      BY <1>3, <2>1, RemoveObjectApart, BecomesApart DEF Remove
  <1>4. QED
    BY <1>1, <1>2, <1>3, CommandApart DEF Next

\* Side by side no two heaps are alike: whatever is split, left behind, hidden,
\* revealed or removed, in any order, enter_env and force_heap_merge have merged it.
THEOREM HeapNoTwins == Spec => []NoTwins
  <1>1. Init => IInv /\ Apart(State, {})
    BY InitSane, InitApart
  <1>2. IInv /\ Apart(State, {}) /\ [Next]_vars => IInv' /\ Apart(State, {})'
    BY NextSane, NextApart
  <1>3. Apart(State, {}) => NoTwins
    BY DEF Apart, NoTwins, Twins, State
  <1>4. QED
    BY <1>1, <1>2, <1>3, PTL DEF Spec

-----------------------------------------------------------------------------
(***************************************************************************)
(* The books of a living.  Book is what held says beyond what the heaps    *)
(* but those in X weigh; every function of heap.c that changes a heap or   *)
(* moves it credits its environment with the difference, but for           *)
(* split_heap when the whole heap is named.                                *)
(***************************************************************************)
Share(S, p, X, x) == IF x \notin X /\ S.env[x] = p THEN S.count[x] - S.leave[x] ELSE 0
Shares(S, p, X) == [x \in Heaps |-> Share(S, p, X, x)]
Book(S, p, X) == S.held[p] - Sum(Shares(S, p, X), Heaps)
Balanced(S, X, T, Y) == \A p \in Livings : Book(T, p, Y) = Book(S, p, X)

LEMMA BookInt ==
    ASSUME NEW S, Sane(S), NEW p \in Livings, NEW X
    PROVE  /\ Integral(Shares(S, p, X), Heaps)
           /\ Sum(Shares(S, p, X), Heaps) \in Int
           /\ Book(S, p, X) \in Int
  <1>1. Integral(Shares(S, p, X), Heaps)
    BY DEF Sane, States, Shares, Share, Integral
  <1>2. Sum(Shares(S, p, X), Heaps) \in Int
    BY <1>1, SumInt, HeapAssumption
  <1>3. S.held[p] \in Int
    BY DEF Sane, States
  <1>4. QED
    BY <1>1, <1>2, <1>3 DEF Book

\* One heap changes, and the account by as much, but for d.
LEMMA BookChanges ==
    ASSUME NEW S, Sane(S), NEW T, Sane(T), NEW p \in Livings, NEW X, NEW Y, NEW h \in Heaps,
           \A x \in Heaps \ {h} : Share(T, p, Y, x) = Share(S, p, X, x),
           NEW d \in Int,
           T.held[p] = S.held[p] + d + (Share(T, p, Y, h) - Share(S, p, X, h))
    PROVE  Book(T, p, Y) = Book(S, p, X) + d
  <1> DEFINE f == Shares(S, p, X)
             g == Shares(T, p, Y)
  <1>1. Integral(f, Heaps) /\ Integral(g, Heaps) /\ Sum(f, Heaps) \in Int
    BY BookInt
  <1>2. Coincide(f, g, Heaps \ {h})
    BY DEF Coincide, Shares
  <1>3. f[h] = Share(S, p, X, h) /\ g[h] = Share(T, p, Y, h)
    BY DEF Shares
  <1>4. S.held[p] \in Int
    BY DEF Sane, States
  <1>5. Book(S, p, X) = S.held[p] - Sum(f, Heaps) /\ Book(T, p, Y) = T.held[p] - Sum(g, Heaps)
    BY DEF Book
  <1> HIDE DEF f, g
  <1>6. Sum(g, Heaps) = Sum(f, Heaps) + (g[h] - f[h])
    BY <1>1, <1>2, SumChange, HeapAssumption
  <1>7. f[h] \in Int /\ g[h] \in Int
    BY <1>1 DEF Integral
  <1>8. QED
    BY <1>1, <1>3, <1>4, <1>5, <1>6, <1>7

LEMMA BookKept ==
    ASSUME NEW S, Sane(S), NEW T, Sane(T), NEW X, NEW Y, T.held = S.held,
           \A p \in Livings : \A x \in Heaps : Share(T, p, Y, x) = Share(S, p, X, x)
    PROVE  Balanced(S, X, T, Y)
  <1>1. ASSUME NEW p \in Livings
        PROVE  Book(T, p, Y) = Book(S, p, X)
    <2>1. Coincide(Shares(S, p, X), Shares(T, p, Y), Heaps)
      BY DEF Coincide, Shares
    <2>2. Sum(Shares(S, p, X), Heaps) = Sum(Shares(T, p, Y), Heaps)
      BY <2>1, SumAgree, HeapAssumption
    <2>3. QED
      BY <2>2 DEF Book
  <1>2. QED
    BY <1>1 DEF Balanced

LEMMA CreditBook ==
    ASSUME NEW S, Sane(S), NEW q, NEW d \in Int, NEW X
    PROVE  \A p \in Livings : Book(Credit(S, q, d), p, X)
                                = Book(S, p, X) + (IF p = q THEN d ELSE 0)
  <1> DEFINE T == Credit(S, q, d)
  <1>1. Sane(T)
    BY CreditSane
  <1>2. /\ T.env = S.env /\ T.count = S.count /\ T.leave = S.leave
        /\ T.held = [p \in Livings |-> IF p = q THEN S.held[p] + d ELSE S.held[p]]
    BY DEF Sane, States, Credit
  <1> HIDE DEF T
  <1>3. ASSUME NEW p \in Livings
        PROVE  Book(T, p, X) = Book(S, p, X) + (IF p = q THEN d ELSE 0)
    <2> DEFINE e == IF p = q THEN d ELSE 0
    <2>1. \A x \in Heaps : Share(T, p, X, x) = Share(S, p, X, x)
      BY <1>2 DEF Share
    <2>2. PICK h : h \in Heaps
      BY HeapAssumption
    <2>3. e \in Int /\ T.held[p] = S.held[p] + e
      BY <1>2 DEF Sane, States
    <2>4. Share(S, p, X, h) \in Int /\ S.held[p] \in Int
      BY <2>2 DEF Share, Sane, States
    <2> HIDE DEF e
    <2>5. T.held[p] = S.held[p] + e + (Share(T, p, X, h) - Share(S, p, X, h))
      BY <2>1, <2>2, <2>3, <2>4
    <2>6. Book(T, p, X) = Book(S, p, X) + e
      BY <1>1, <2>1, <2>2, <2>3, <2>5, BookChanges
    <2>7. QED
      BY <2>6 DEF e
  <1>4. QED
    BY <1>3 DEF T

LEMMA ResizeBook ==
    ASSUME NEW S, Sane(S), NEW h, Exists(S, h), NEW n \in Nat, NEW l \in Nat,
           l > 0 => S.restores[h] > 0, NEW X, h \notin X
    PROVE  Balanced(S, X, Resize(S, h, n, l), X)
  <1> DEFINE T == Resize(S, h, n, l)
             c == S.count[h] - S.leave[h]
  <1>1. Sane(T)
    BY ResizeSane
  <1>2. /\ T.env = S.env /\ T.count = [S.count EXCEPT ![h] = n]
        /\ T.leave = [S.leave EXCEPT ![h] = l]
        /\ T.held = [p \in Livings |-> IF p = S.env[h] THEN S.held[p] + ((n - l) - c)
                                       ELSE S.held[p]]
    BY DEF Sane, States, Exists, Resize, Credit, Num
  <1>3. S.count[h] \in Nat /\ S.leave[h] \in Nat /\ h \in Heaps
    BY DEF Sane, States, Exists
  <1>4. c \in Int
    BY <1>3
  <1> HIDE DEF T
  <1>5. ASSUME NEW p \in Livings
        PROVE  Book(T, p, X) = Book(S, p, X)
    <2>1. \A x \in Heaps \ {h} : Share(T, p, X, x) = Share(S, p, X, x)
      BY <1>2 DEF Share, Sane, States
    <2>2. S.held[p] \in Int
      BY DEF Sane, States
    <2>3. CASE p = S.env[h]
      <3>1. Share(T, p, X, h) = n - l /\ Share(S, p, X, h) = c
        BY <1>2, <1>3, <2>3 DEF Share, Sane, States
      <3>2. T.held[p] = S.held[p] + ((n - l) - c)
        BY <1>2, <2>3
      <3> HIDE DEF c
      <3>3. T.held[p] = S.held[p] + 0 + (Share(T, p, X, h) - Share(S, p, X, h))
        BY <1>4, <2>2, <3>1, <3>2
      <3>4. Book(T, p, X) = Book(S, p, X) + 0
        BY <1>1, <1>3, <2>1, <3>3, BookChanges
      <3>5. QED
        BY <3>4, BookInt
    <2>4. CASE p # S.env[h]
      <3>1. Share(T, p, X, h) = 0 /\ Share(S, p, X, h) = 0
        BY <1>2, <2>4 DEF Share
      <3>2. T.held[p] = S.held[p] + 0 + (Share(T, p, X, h) - Share(S, p, X, h))
        BY <1>2, <2>2, <2>4, <3>1
      <3>3. Book(T, p, X) = Book(S, p, X) + 0
        BY <1>1, <1>3, <2>1, <3>2, BookChanges
      <3>4. QED
        BY <3>3, BookInt
    <2>5. QED
      BY <2>3, <2>4
  <1>6. QED
    BY <1>5 DEF Balanced, T

LEMMA DoomBook ==
    ASSUME NEW S, Sane(S), NEW h, Exists(S, h), NEW X
    PROVE  Balanced(S, X, Doom(S, h), X)
  <1>1. Sane(Doom(S, h))
    BY DoomSane
  <1>2. /\ Doom(S, h).env = S.env /\ Doom(S, h).count = S.count
        /\ Doom(S, h).leave = S.leave /\ Doom(S, h).held = S.held
    BY DEF Sane, States, Doom
  <1>3. \A p \in Livings : \A x \in Heaps : Share(Doom(S, h), p, X, x) = Share(S, p, X, x)
    BY <1>2 DEF Share
  <1>4. QED
    BY <1>1, <1>2, <1>3, BookKept

LEMMA SetHeapSizeBook ==
    ASSUME NEW S, Sane(S), NEW h, Exists(S, h), NEW n \in Int, NEW X, h \notin X
    PROVE  Balanced(S, X, SetHeapSize(S, h, n), X)
  <1>1. CASE n <= 0
    <2> DEFINE R == Resize(S, h, 0, 0)
    <2>1. Sane(R) /\ R.env = S.env /\ Balanced(S, X, R, X)
      BY ResizeSane, ResizeBook
    <2>2. SetHeapSize(S, h, n) = Doom(R, h)
      BY <1>1 DEF SetHeapSize
    <2> HIDE DEF R
    <2>3. Balanced(R, X, Doom(R, h), X)
      BY <2>1, DoomBook DEF Exists
    <2>4. QED
      BY <2>1, <2>2, <2>3 DEF Balanced
  <1>2. CASE ~(n <= 0)
    <2>1. S.leave[h] \in Nat /\ (S.leave[h] > 0 => S.restores[h] > 0)
      BY DEF Sane, States, Exists
    <2>2. QED
      BY <1>2, <2>1, ResizeBook DEF SetHeapSize
  <1>3. QED
    BY <1>1, <1>2

\* split_heap forgets the account only of a heap that was split before.
LEMMA SplitHeapBook ==
    ASSUME NEW S, Sane(S), NEW h, Exists(S, h), NEW n \in Nat, NEW p \in Livings,
           S.env[h] # p \/ S.leave[h] = 0 \/ S.count[h] > n
    PROVE  Book(SplitHeap(S, h, n), p, {}) = Book(S, p, {})
  <1>1. S.count[h] \in Nat /\ S.leave[h] \in Nat /\ h \in Heaps
    BY DEF Sane, States, Exists
  <1>2. Sane(SplitHeap(S, h, n))
    BY SplitHeapSane
  <1>3. CASE S.count[h] <= n
    <2> DEFINE T == SplitHeap(S, h, n)
    <2>1. /\ T.env = S.env /\ T.count = S.count /\ T.held = S.held
          /\ T.leave = [S.leave EXCEPT ![h] = 0]
      BY <1>3 DEF SplitHeap, Sane, States
    <2> HIDE DEF T
    <2>2. \A x \in Heaps : Share(T, p, {}, x) = Share(S, p, {}, x)
      BY <1>1, <1>3, <2>1 DEF Share, Sane, States
    <2>3. Coincide(Shares(S, p, {}), Shares(T, p, {}), Heaps)
      BY <2>2 DEF Coincide, Shares
    <2>4. Sum(Shares(S, p, {}), Heaps) = Sum(Shares(T, p, {}), Heaps)
      BY <2>3, SumAgree, HeapAssumption
    <2>5. QED
      BY <2>1, <2>4 DEF Book, T
  <1>4. CASE ~(S.count[h] <= n)
    <2> DEFINE R == [S EXCEPT !.restores[h] = @ + 1]
               l == S.count[h] - n
    <2>1. R.env = S.env /\ R.count = S.count /\ R.leave = S.leave /\ R.held = S.held
      BY DEF Sane, States
    <2>2. Sane(R) /\ Exists(R, h) /\ R.restores[h] > 0
      BY <2>1, MoreRestoresSane DEF Exists
    <2>3. l \in Nat
      BY <1>1, <1>4
    <2>4. SplitHeap(S, h, n) = Resize(R, h, S.count[h], l)
      BY <1>4 DEF SplitHeap
    <2> HIDE DEF R, l
    <2>5. \A q \in Livings : \A x \in Heaps : Share(R, q, {}, x) = Share(S, q, {}, x)
      BY <2>1 DEF Share
    <2>6. Balanced(S, {}, R, {})
      BY <2>1, <2>2, <2>5, BookKept
    <2>7. Balanced(R, {}, Resize(R, h, S.count[h], l), {})
      BY <1>1, <2>1, <2>2, <2>3, ResizeBook
    <2>8. QED
      BY <2>4, <2>6, <2>7 DEF Balanced
  <1>5. QED
    BY <1>3, <1>4

\* The account of what is in p, when h has moved there and been booked.
LEMMA EnterBook ==
    ASSUME NEW S, Sane(S), NEW h, Exists(S, h), NEW p, p # None, S.env[h] = p,
           NEW X, h \notin X, Twins(S, h, p) \cap X = {}
    PROVE  /\ Balanced(S, X \cup {h}, Enter(S, h, p), X)
           /\ Enter(S, h, p).restores = S.restores
  <1>1. CASE Twins(S, h, p) = {}
    <2>1. Num(S, h) \in Int /\ h \in Heaps
      BY DEF Sane, States, Exists, Num
    <2>2. Enter(S, h, p) = Credit(S, p, Num(S, h))
      BY <1>1 DEF Enter
    <2>3. ASSUME NEW q \in Livings
          PROVE  Book(Enter(S, h, p), q, X) = Book(S, q, X \cup {h})
      <3> DEFINE d == IF q = p THEN Num(S, h) ELSE 0
      <3>1. Book(Enter(S, h, p), q, X) = Book(S, q, X) + d
        BY <2>1, <2>2, CreditBook
      <3>2. \A x \in Heaps \ {h} : Share(S, q, X \cup {h}, x) = Share(S, q, X, x)
        BY DEF Share
      <3>3. Share(S, q, X \cup {h}, h) = 0 /\ Share(S, q, X, h) = d
        BY DEF Share, Num
      <3>4. d \in Int /\ S.held[q] \in Int
        BY <2>1 DEF Sane, States
      <3> HIDE DEF d
      <3>5. S.held[q] = S.held[q] + d + (Share(S, q, X \cup {h}, h) - Share(S, q, X, h))
        BY <3>3, <3>4
      <3> DEFINE Y == X \cup {h}
      <3>6. \A x \in Heaps \ {h} : Share(S, q, Y, x) = Share(S, q, X, x)
        BY <3>2
      <3>7. S.held[q] = S.held[q] + d + (Share(S, q, Y, h) - Share(S, q, X, h))
        BY <3>5
      <3> HIDE DEF Y
      <3>8. Book(S, q, Y) = Book(S, q, X) + d
        BY <2>1, <3>4, <3>6, <3>7, BookChanges
      <3>9. QED
        BY <3>1, <3>8 DEF Y
    <2>4. Enter(S, h, p).restores = S.restores
      BY <2>1, <2>2, CreditSane
    <2>5. QED
      BY <2>3, <2>4 DEF Balanced
  <1>2. CASE Twins(S, h, p) # {}
    <2> DEFINE t == CHOOSE t \in Twins(S, h, p) : TRUE
               M == SetHeapSize(S, t, S.count[h] + Num(S, t))
               N == [M EXCEPT !.leave[h] = 0, !.env[h] = t]
               Y == X \cup {h}
    <2>1. t \in Heaps /\ Exists(S, t) /\ t \notin Places /\ t \notin Y /\ t \notin Livings
          /\ t # h /\ t # None
      BY <1>2, HeapAssumption DEF Twins, Exists, Places
    <2>2. S.count[h] + Num(S, t) \in Int
      BY <2>1 DEF Sane, States, Exists, Num
    <2>3. Enter(S, h, p) = Doom(N, h)
      BY <1>2 DEF Enter
    <2> HIDE DEF t
    <2>4. M.restores = S.restores
      BY DEF SetHeapSize, Resize, Doom, Credit, Sane, States
    <2> HIDE DEF Y
    <2>5. Sane(M) /\ M.env = S.env /\ Balanced(S, Y, M, Y)
      BY <2>1, <2>2, SetHeapSizeSane, SetHeapSizeBook
    <2> HIDE DEF M
    <2>6. /\ N.env = [M.env EXCEPT ![h] = t] /\ N.leave = [M.leave EXCEPT ![h] = 0]
          /\ N.count = M.count /\ N.restores = M.restores /\ N.removals = M.removals
          /\ N.held = M.held
      BY <2>5 DEF Sane, States
    <2>7. N.env \in [Heaps -> Places \cup Heaps \cup {None}] /\ N.leave \in [Heaps -> Nat]
      BY <2>1, <2>5, <2>6 DEF Sane, States
    <2>8. N \in States
      BY <2>5, <2>6, <2>7 DEF Sane, States
    <2> HIDE DEF N
    <2>9. Sane(N) /\ Exists(N, h)
      BY <2>1, <2>5, <2>6, <2>8 DEF Sane, States, Exists
    <2>10. \A q \in Livings : \A x \in Heaps : Share(N, q, X, x) = Share(M, q, Y, x)
      BY <2>1, <2>5, <2>6 DEF Share, Y, Sane, States
    <2>11. Balanced(M, Y, N, X)
      BY <2>5, <2>6, <2>9, <2>10, BookKept
    <2>12. Balanced(N, X, Doom(N, h), X) /\ Doom(N, h).restores = N.restores
      BY <2>9, DoomBook DEF Doom, Sane, States
    <2>13. QED
      BY <2>3, <2>4, <2>5, <2>6, <2>11, <2>12 DEF Balanced, Y
  <1>3. QED
    BY <1>1, <1>2

\* h leaves p, and is taken off the account that what it leaves behind is put on.
LEMMA LeaveBook ==
    ASSUME NEW S, Sane(S), NEW h, Exists(S, h), NEW p,
           S.leave[h] > 0 => HasFree(S), p \in Places \cup Heaps,
           S.leave[h] > 0 => S.env[h] # p \/ S.dying[h]
    PROVE  /\ \A q \in Livings : Book(Leave(S, h, p), q, {h})
                                   = Book(S, q, {h}) - (IF q = p THEN Num(S, h) ELSE 0)
           /\ Leave(S, h, p).restores = S.restores
  <1> DEFINE f == Fresh(S)
             L == [S EXCEPT !.count[h] = @ - S.leave[h], !.leave[h] = 0,
                            !.env[f] = p, !.count[f] = S.leave[h],
                            !.hide[f] = S.hide[h], !.dying[f] = S.dying[h]]
             left == 0 < S.leave[h] /\ S.leave[h] < S.count[h]
             R == IF left THEN Enter(L, f, p) ELSE S
  <1>1. left => f \in Heaps /\ S.env[f] = None
    BY DEF HasFree, Fresh, Sane, States, Exists
  <1>2. p # None /\ None \notin Places /\ None \notin Livings /\ (left => f # h)
    BY <1>1, HeapAssumption DEF Places, Exists
  <1>3. Leave(S, h, p) = Credit(R, p, - Num(S, h))
    BY DEF Leave
  <1>4. Num(S, h) \in Int
    BY DEF Sane, States, Exists, Num
  <1> HIDE DEF f
  <1>5. Sane(R) /\ Balanced(S, {h}, R, {h}) /\ R.restores = S.restores
    <2>1. CASE left
      <3>1. /\ L.env = [S.env EXCEPT ![f] = p]
            /\ L.count = [S.count EXCEPT ![h] = @ - S.leave[h], ![f] = S.leave[h]]
            /\ L.leave = [S.leave EXCEPT ![h] = 0]
            /\ L.hide = [S.hide EXCEPT ![f] = S.hide[h]]
            /\ L.dying = [S.dying EXCEPT ![f] = S.dying[h]]
            /\ L.restores = S.restores /\ L.removals = S.removals /\ L.held = S.held
        BY DEF Sane, States
      <3>2. Sane(L)
        BY <2>1, <1>1, <1>2, CloneSane
      <3> HIDE DEF L
      <3>3. Exists(L, f) /\ L.env[f] = p /\ h \in Heaps
        BY <1>1, <1>2, <2>1, <3>1 DEF Exists, Sane, States
      <3>4. Twins(L, f, p) \cap {h} = {}
        BY <1>1, <1>2, <2>1, <3>1, <3>3 DEF Twins, Sane, States
      <3>5. Balanced(L, {h} \cup {f}, Enter(L, f, p), {h}) /\ Enter(L, f, p).restores = L.restores
        BY <1>2, <2>1, <3>2, <3>3, <3>4, EnterBook
      <3>6. \A q \in Livings : \A x \in Heaps :
              Share(L, q, {h} \cup {f}, x) = Share(S, q, {h}, x)
        BY <1>1, <1>2, <2>1, <3>1 DEF Share, Sane, States
      <3> DEFINE Y == {h} \cup {f}
      <3>7. \A q \in Livings : \A x \in Heaps : Share(L, q, Y, x) = Share(S, q, {h}, x)
        BY <3>6
      <3> HIDE DEF Y
      <3>8. Balanced(S, {h}, L, Y)
        BY <3>1, <3>2, <3>7, BookKept
      <3>9. Sane(Enter(L, f, p))
        BY <1>2, <3>2, <3>3, EnterSane
      <3>10. QED
        BY <2>1, <3>1, <3>5, <3>8, <3>9 DEF Balanced, Y
    <2>2. CASE ~left
      BY <2>2 DEF Balanced
    <2>3. QED
      BY <2>1, <2>2
  <1> HIDE DEF R
  <1> DEFINE d == - Num(S, h)
  <1>6. d \in Int
    BY <1>4
  <1> HIDE DEF d
  <1>7. \A q \in Livings : Book(Credit(R, p, d), q, {h}) = Book(R, q, {h}) + (IF q = p THEN d ELSE 0)
    BY <1>5, <1>6, CreditBook
  <1>8. Credit(R, p, d).restores = R.restores
    BY <1>5, <1>6, CreditSane
  <1>9. \A q \in Livings : Book(S, q, {h}) \in Int
    BY BookInt
  <1>10. ASSUME NEW q \in Livings
         PROVE  Book(Leave(S, h, p), q, {h}) = Book(S, q, {h}) - (IF q = p THEN Num(S, h) ELSE 0)
    <2>1. /\ Leave(S, h, p) = Credit(R, p, d)
          /\ Book(Credit(R, p, d), q, {h}) = Book(S, q, {h}) + (IF q = p THEN d ELSE 0)
      BY <1>3, <1>5, <1>7 DEF Balanced, d
    <2>2. Book(Leave(S, h, p), q, {h}) = Book(S, q, {h}) + (IF q = p THEN d ELSE 0)
      BY <2>1, Zenon
    <2>3. CASE q = p
      BY <1>4, <1>9, <2>2, <2>3 DEF d
    <2>4. CASE q # p
      BY <1>9, <2>2, <2>4
    <2>5. QED
      BY <2>3, <2>4
  <1>11. QED
    BY <1>3, <1>5, <1>8, <1>10 DEF d

LEMMA BookWithout ==
    ASSUME NEW S, Sane(S), NEW h \in Heaps, NEW q \in Livings
    PROVE  Book(S, q, {}) = Book(S, q, {h}) - (IF q = S.env[h] THEN Num(S, h) ELSE 0)
  <1> DEFINE n == IF q = S.env[h] THEN Num(S, h) ELSE 0
             d == - n
             X == {h}
             Y == {}
  <1>1. \A x \in Heaps \ {h} : Share(S, q, Y, x) = Share(S, q, X, x)
    BY DEF Share
  <1>2. Share(S, q, Y, h) = n /\ Share(S, q, X, h) = 0
    BY DEF Share, Num
  <1>3. n \in Int /\ S.held[q] \in Int
    BY DEF Sane, States, Num
  <1> HIDE DEF X, Y, n
  <1>4. d \in Int /\ S.held[q] = S.held[q] + d + (Share(S, q, Y, h) - Share(S, q, X, h))
    BY <1>2, <1>3
  <1>5. Book(S, q, Y) = Book(S, q, X) + d
    <2> HIDE DEF d
    <2>1. QED
      BY <1>1, <1>4, BookChanges
  <1>6. Book(S, q, X) \in Int
    BY BookInt
  <1>7. QED
    BY <1>3, <1>5, <1>6 DEF X, Y, n

LEMMA RelocateBook ==
    ASSUME NEW S, Sane(S), HasFree(S), NEW h, Exists(S, h), NEW p, p \in Places,
           S.env[h] # p
    PROVE  /\ Balanced(S, {}, Relocate(S, h, p), {})
           /\ Relocate(S, h, p).restores = S.restores
  <1> DEFINE M == [S EXCEPT !.env[h] = p]
             o == S.env[h]
             L == Leave(M, h, o)
  <1>1. p # None
    BY HeapAssumption DEF Places
  <1>2. /\ M.env = [S.env EXCEPT ![h] = p] /\ M.count = S.count /\ M.leave = S.leave
        /\ M.held = S.held /\ M.restores = S.restores
    BY DEF Sane, States, Exists
  <1>3. Sane(M) /\ h \in Heaps
    BY <1>1 DEF Sane, States, Exists
  <1>4. Exists(M, h) /\ HasFree(M) /\ M.env[h] = p
    BY <1>1, <1>2, <1>3 DEF Exists, HasFree, Sane, States
  <1>5. o \in Places \cup Heaps
    BY DEF Sane, States, Exists
  <1>6. Relocate(S, h, p) = Enter(L, h, p)
    BY DEF Relocate
  <1>7. Num(M, h) = Num(S, h) /\ Num(S, h) \in Int
    BY <1>2 DEF Num, Sane, States, Exists
  <1> HIDE DEF M
  <1>8. \A q \in Livings : \A x \in Heaps : Share(M, q, {h}, x) = Share(S, q, {h}, x)
    BY <1>2 DEF Share, Sane, States
  <1>9. Balanced(S, {h}, M, {h})
    <2> DEFINE X == {h}
    <2>1. \A q \in Livings : \A x \in Heaps : Share(M, q, X, x) = Share(S, q, X, x)
      BY <1>8
    <2> HIDE DEF X
    <2>2. Balanced(S, X, M, X)
      BY <1>2, <1>3, <2>1, BookKept
    <2>3. QED
      BY <2>2 DEF X
  <1>10. M.env[h] # o
    BY <1>4
  <1>11. \A q \in Livings : Book(S, q, {}) = Book(S, q, {h}) - (IF q = o THEN Num(S, h) ELSE 0)
    BY <1>3, BookWithout
  <1> HIDE DEF o
  <1>12. Sane(L) /\ L.env[h] = p /\ Exists(L, h)
    <2>1. Apart(M, Heaps)
      BY DEF Apart
    <2>2. Sane(L) /\ L.env[h] = M.env[h]
      BY <1>3, <1>4, <1>5, <2>1, LeaveSane, LeaveApart
    <2>3. QED
      BY <1>1, <1>3, <1>4, <2>2 DEF Exists
  <1>13. /\ \A q \in Livings : Book(L, q, {h}) = Book(M, q, {h}) - (IF q = o THEN Num(M, h) ELSE 0)
         /\ L.restores = M.restores
    BY <1>3, <1>4, <1>5, <1>10, LeaveBook
  <1> HIDE DEF L
  <1>14. Balanced(L, {} \cup {h}, Enter(L, h, p), {}) /\ Enter(L, h, p).restores = L.restores
    BY <1>1, <1>12, EnterBook
  <1>15. {} \cup {h} = {h}
    OBVIOUS
  <1>16. ASSUME NEW q \in Livings
         PROVE  Book(Enter(L, h, p), q, {}) = Book(S, q, {})
    <2>1. Book(Enter(L, h, p), q, {}) = Book(L, q, {h})
      BY <1>14, <1>15 DEF Balanced
    <2>2. Book(M, q, {h}) = Book(S, q, {h})
      BY <1>9 DEF Balanced
    <2>3. QED
      BY <1>7, <1>11, <1>13, <2>1, <2>2
  <1>17. QED
    BY <1>2, <1>6, <1>13, <1>14, <1>16 DEF Balanced

Waits(S, T) == \A x \in Heaps : T.restores[x] >= S.restores[x]

LEMMA SplitHeapWaits ==
    ASSUME NEW S, Sane(S), NEW h, Exists(S, h), NEW n
    PROVE  Waits(S, SplitHeap(S, h, n))
  <1>1. \A x \in Heaps : S.restores[x] \in Nat
    BY DEF Sane, States
  <1>2. \/ SplitHeap(S, h, n).restores = S.restores
        \/ SplitHeap(S, h, n).restores = [S.restores EXCEPT ![h] = @ + 1]
    BY DEF SplitHeap, Resize, Credit, Sane, States
  <1>3. S.restores \in [Heaps -> Nat]
    BY DEF Sane, States
  <1>4. QED
    BY <1>1, <1>2, <1>3 DEF Waits

LEMMA MovedBook ==
    ASSUME NEW S, Sane(S), HasFree(S), NEW h, Exists(S, h), NEW p, p \in Places,
           S.env[h] # p, NEW allowed \in BOOLEAN
    PROVE  /\ Balanced(S, {}, Moved(S, h, p, allowed), {})
           /\ Waits(S, Moved(S, h, p, allowed))
  <1>1. \A x \in Heaps : S.restores[x] \in Nat
    BY DEF Sane, States
  <1>2. CASE ~Fits(S, h, p)
    BY <1>1, <1>2 DEF Moved, Balanced, Waits
  <1>3. CASE Fits(S, h, p)
    <2> DEFINE F == Fit(S, h, p)
    <2>1. /\ Sane(F) /\ HasFree(F) /\ Exists(F, h)
      BY <1>3, FitSane
    <2>2. Balanced(S, {}, F, {}) /\ Waits(S, F) /\ F.env = S.env
      <3>1. CASE p # Room /\ Num(S, h) > Spare(S, p)
        <4> DEFINE n == Spare(S, p)
        <4>1. n \in Int /\ Num(S, h) \in Int
          BY <3>1, HeapAssumption DEF Spare, Num, Sane, States, Places, Exists
        <4>2. n \in Nat
          BY <1>3, <3>1, <4>1 DEF Fits
        <4>3. Fit(S, h, p) = SplitHeap(S, h, n) /\ Num(S, h) > n
          BY <3>1 DEF Fit
        <4> HIDE DEF n
        <4>4. S.count[h] > n
          BY <4>2, <4>3 DEF Num, Sane, States, Exists
        <4>5. Balanced(S, {}, SplitHeap(S, h, n), {})
          BY <4>2, <4>4, SplitHeapBook DEF Balanced
        <4>6. QED
          BY <4>2, <4>3, <4>5, SplitHeapWaits, SplitHeapSane
      <3>2. CASE ~(p # Room /\ Num(S, h) > Spare(S, p))
        BY <1>1, <3>2 DEF Fit, Balanced, Waits
      <3>3. QED
        BY <3>1, <3>2
    <2>3. CASE allowed
      <3>1. Moved(S, h, p, allowed) = Relocate(F, h, p)
        BY <1>3, <2>3 DEF Moved
      <3> HIDE DEF F
      <3>2. Balanced(F, {}, Relocate(F, h, p), {}) /\ Relocate(F, h, p).restores = F.restores
        BY <2>1, <2>2, RelocateBook
      <3>3. QED
        BY <2>2, <3>1, <3>2 DEF Balanced, Waits
    <2>4. CASE ~allowed
      BY <1>3, <2>2, <2>4 DEF Moved
    <2>5. QED
      BY <2>3, <2>4
  <1>4. QED
    BY <1>2, <1>3

LEMMA SetHideBook ==
    ASSUME NEW S, Sane(S), NEW h, Exists(S, h), NEW b \in BOOLEAN
    PROVE  /\ Balanced(S, {}, SetHide(S, h, b), {})
           /\ SetHide(S, h, b).restores = S.restores
  <1>1. Sane(SetHide(S, h, b))
    BY SetHideSane
  <1>2. /\ SetHide(S, h, b).env = S.env /\ SetHide(S, h, b).count = S.count
        /\ SetHide(S, h, b).leave = S.leave /\ SetHide(S, h, b).held = S.held
        /\ SetHide(S, h, b).restores = S.restores
    BY DEF SetHide, Sane, States
  <1>3. \A q \in Livings : \A x \in Heaps : Share(SetHide(S, h, b), q, {}, x) = Share(S, q, {}, x)
    BY <1>2 DEF Share
  <1>4. QED
    BY <1>1, <1>2, <1>3, BookKept

LEMMA ForceHeapMergeBook ==
    ASSUME NEW S, Sane(S), NEW h, Exists(S, h)
    PROVE  /\ Balanced(S, {}, ForceHeapMerge(S, h), {})
           /\ ForceHeapMerge(S, h).restores = S.restores
  <1>1. CASE Twins(S, h, S.env[h]) = {}
    BY <1>1 DEF ForceHeapMerge, Balanced
  <1>2. CASE Twins(S, h, S.env[h]) # {}
    <2> DEFINE t == CHOOSE t \in Twins(S, h, S.env[h]) : TRUE
               M == SetHeapSize(S, t, S.count[h] + Num(S, t))
    <2>1. Exists(S, t)
      BY <1>2 DEF Twins, Exists
    <2>2. S.count[h] + Num(S, t) \in Int
      BY <2>1 DEF Sane, States, Exists, Num
    <2>3. ForceHeapMerge(S, h) = Doom(M, h)
      BY <1>2 DEF ForceHeapMerge
    <2> HIDE DEF t
    <2>4. M.restores = S.restores
      BY DEF SetHeapSize, Resize, Doom, Credit, Sane, States
    <2>5. Sane(M) /\ M.env = S.env /\ Balanced(S, {}, M, {})
      BY <2>1, <2>2, SetHeapSizeSane, SetHeapSizeBook
    <2> HIDE DEF M
    <2>6. Balanced(M, {}, Doom(M, h), {}) /\ Doom(M, h).restores = M.restores
      BY <2>5, DoomBook DEF Exists, Doom, Sane, States
    <2>7. QED
      BY <2>3, <2>4, <2>5, <2>6 DEF Balanced
  <1>3. QED
    BY <1>1, <1>2

-----------------------------------------------------------------------------
(***************************************************************************)
(* Heaps that have gone into another: they are about to be destructed, and *)
(* nothing was split from them.                                            *)
(***************************************************************************)
Buried(S) ==
    \A h \in Heaps : /\ S.removals[h] > 0 => S.dying[h]
                     /\ S.env[h] \in Heaps => S.removals[h] > 0 /\ S.leave[h] = 0

\* What set_heap_size makes of n items.
Size(n) == IF n <= 0 THEN 0 ELSE n

\* T is S but for h, which counts n items now; a heap of none is destructed.
Resized(S, T, h, n) ==
    /\ T.env = S.env /\ T.hide = S.hide /\ T.restores = S.restores
    /\ \A x \in Heaps : T.count[x] = IF x = h THEN Size(n) ELSE S.count[x]
    /\ \A x \in Heaps : T.leave[x] = IF x = h /\ n <= 0 THEN 0 ELSE S.leave[x]
    /\ \A x \in Heaps : T.dying[x] <=> (S.dying[x] \/ (x = h /\ n <= 0))
    /\ \A x \in Heaps : T.removals[x] = S.removals[x] + (IF x = h /\ n <= 0 THEN 1 ELSE 0)

LEMMA SetHeapSizeFacts ==
    ASSUME NEW S, Sane(S), NEW h, Exists(S, h), NEW n \in Int
    PROVE  Resized(S, SetHeapSize(S, h, n), h, n)
  <1> DEFINE T == SetHeapSize(S, h, n)
  <1>1. h \in Heaps /\ S \in States
    BY DEF Exists, Sane
  <1>2. CASE n <= 0
    <2> DEFINE R == Resize(S, h, 0, 0)
    <2>1. /\ R.env = S.env /\ R.hide = S.hide /\ R.restores = S.restores
          /\ R.count = [S.count EXCEPT ![h] = 0]
          /\ R.leave = [S.leave EXCEPT ![h] = 0]
          /\ R.dying = S.dying /\ R.removals = S.removals
      BY DEF Resize, Credit, Sane, States
    <2>2. T = Doom(R, h) /\ Sane(R)
      BY <1>2, ResizeSane DEF SetHeapSize
    <2> HIDE DEF R
    <2>3. /\ T.env = R.env /\ T.hide = R.hide /\ T.restores = R.restores
          /\ T.count = R.count /\ T.leave = R.leave
          /\ T.dying = [R.dying EXCEPT ![h] = TRUE]
          /\ T.removals = [R.removals EXCEPT ![h] = @ + 1]
      BY <2>2 DEF Doom, Sane, States
    <2> HIDE DEF T
    <2>4. /\ T.env = S.env /\ T.hide = S.hide /\ T.restores = S.restores
          /\ \A x \in Heaps : T.count[x] = IF x = h THEN Size(n) ELSE S.count[x]
          /\ \A x \in Heaps : T.leave[x] = IF x = h /\ n <= 0 THEN 0 ELSE S.leave[x]
      BY <1>1, <1>2, <2>1, <2>3 DEF Size, States
    <2>5. \A x \in Heaps : T.removals[x] = S.removals[x] + (IF x = h THEN 1 ELSE 0)
      BY <1>1, <2>1, <2>3 DEF States
    <2>6. \A x \in Heaps : T.dying[x] <=> (S.dying[x] \/ x = h)
      BY <1>1, <2>1, <2>3 DEF States
    <2>7. Resized(S, T, h, n)
      BY <1>2, <2>4, <2>5, <2>6 DEF Resized
    <2>8. QED
      BY <2>7 DEF T
  <1>3. CASE ~(n <= 0)
    <2>1. /\ T.env = S.env /\ T.hide = S.hide /\ T.restores = S.restores
          /\ T.count = [S.count EXCEPT ![h] = n]
          /\ T.leave = [S.leave EXCEPT ![h] = S.leave[h]]
          /\ T.dying = S.dying /\ T.removals = S.removals
      BY <1>3 DEF SetHeapSize, Resize, Credit, Sane, States
    <2> HIDE DEF T
    <2>2. \A x \in Heaps : T.removals[x] = S.removals[x] + 0
      BY <1>1, <2>1 DEF States
    <2>3. Resized(S, T, h, n)
      BY <1>1, <1>3, <2>1, <2>2 DEF Resized, Size, States
    <2>4. QED
      BY <2>3 DEF T
  <1>4. QED
    BY <1>2, <1>3

\* h has gone into t, which counts n items now.
Joined(S, T, h, t, n) ==
    /\ \A x \in Heaps \ {h} : T.env[x] = S.env[x]
    /\ \A x \in Heaps : T.count[x] = IF x = t THEN Size(n) ELSE S.count[x]
    /\ \A x \in Heaps : T.leave[x] = S.leave[x] \/ T.leave[x] = 0
    /\ \A x \in Heaps : T.dying[x] <=> (S.dying[x] \/ x = h \/ (x = t /\ n <= 0))
    /\ \A x \in Heaps : T.removals[x] = S.removals[x] +
                            (IF x = h \/ (x = t /\ n <= 0) THEN 1 ELSE 0)

LEMMA DoomFacts ==
    ASSUME NEW S, Sane(S), NEW h
    PROVE  LET T == Doom(S, h)
           IN /\ T.env = S.env /\ T.count = S.count /\ T.leave = S.leave
              /\ T.dying = [S.dying EXCEPT ![h] = TRUE]
              /\ T.removals = [S.removals EXCEPT ![h] = @ + 1]
  BY DEF Doom, Sane, States

LEMMA EnterFacts ==
    ASSUME NEW S, Sane(S), NEW h, Exists(S, h), NEW p, p # None
    PROVE  LET T == Enter(S, h, p)
           IN \/ /\ Twins(S, h, p) = {}
                 /\ T.env = S.env /\ T.count = S.count /\ T.leave = S.leave
                 /\ T.dying = S.dying /\ T.removals = S.removals
              \/ \E t \in Twins(S, h, p) :
                    /\ Joined(S, T, h, t, S.count[h] + (S.count[t] - S.leave[t]))
                    /\ T.env[h] = t /\ T.leave[h] = 0
  <1>1. CASE Twins(S, h, p) = {}
    BY <1>1 DEF Enter, Credit, Sane, States
  <1>2. CASE Twins(S, h, p) # {}
    <2> DEFINE t == CHOOSE t \in Twins(S, h, p) : TRUE
               n == S.count[h] + (S.count[t] - S.leave[t])
               M == SetHeapSize(S, t, n)
               N == [M EXCEPT !.leave[h] = 0, !.env[h] = t]
               T == Doom(N, h)
    <2>1. t \in Twins(S, h, p)
      BY <1>2
    <2>2. t \in Heaps /\ Exists(S, t) /\ t # h /\ t # None
      BY <2>1, HeapAssumption DEF Twins, Exists
    <2>3. Enter(S, h, p) = T
      BY <1>2 DEF Enter, Num
    <2> HIDE DEF t
    <2>4. n \in Int
      BY <2>2 DEF Sane, States, Exists
    <2> HIDE DEF n
    <2>5. Resized(S, M, t, n)
      BY <2>2, <2>4, SetHeapSizeFacts
    <2>6. Sane(M)
      BY <2>2, <2>4, SetHeapSizeSane
    <2> HIDE DEF M
    <2>7. /\ T.env = [M.env EXCEPT ![h] = t] /\ T.count = M.count
          /\ T.leave = [M.leave EXCEPT ![h] = 0]
          /\ T.dying = [M.dying EXCEPT ![h] = TRUE]
          /\ T.removals = [M.removals EXCEPT ![h] = @ + 1]
      BY <2>6 DEF Doom, Sane, States
    <2> HIDE DEF T
    <2>8. h \in Heaps /\ t # h /\ S \in States /\ M \in States
      BY <2>2, <2>6 DEF Exists, Sane
    <2>9. /\ \A x \in Heaps : T.removals[x] = S.removals[x] +
                            (IF x = h \/ (x = t /\ n <= 0) THEN 1 ELSE 0)
          /\ \A x \in Heaps : T.dying[x] <=> (S.dying[x] \/ x = h \/ (x = t /\ n <= 0))
      <3>1. \A x \in Heaps : /\ T.removals[x] = M.removals[x] + (IF x = h THEN 1 ELSE 0)
                             /\ T.dying[x] <=> (M.dying[x] \/ x = h)
        BY <2>7, <2>8 DEF States
      <3>2. \A x \in Heaps : M.removals[x] \in Nat /\ S.removals[x] \in Nat
        BY <2>8 DEF States
      <3>3. QED
        BY <2>5, <2>8, <3>1, <3>2 DEF Resized
    <2>10. /\ \A x \in Heaps \ {h} : T.env[x] = S.env[x]
           /\ \A x \in Heaps : T.count[x] = IF x = t THEN Size(n) ELSE S.count[x]
           /\ \A x \in Heaps : T.leave[x] = S.leave[x] \/ T.leave[x] = 0
           /\ T.env[h] = t /\ T.leave[h] = 0
      BY <2>5, <2>7, <2>8 DEF Resized, States
    <2>11. Joined(S, T, h, t, n)
      BY <2>9, <2>10 DEF Joined
    <2>12. QED
      BY <2>1, <2>3, <2>10, <2>11 DEF n
  <1>3. QED
    BY <1>1, <1>2

LEMMA ForceHeapMergeFacts ==
    ASSUME NEW S, Sane(S), NEW h, Exists(S, h)
    PROVE  LET T == ForceHeapMerge(S, h)
           IN \/ /\ T = S
                 /\ Twins(S, h, S.env[h]) = {}
              \/ \E t \in Twins(S, h, S.env[h]) :
                    /\ Joined(S, T, h, t, S.count[h] + (S.count[t] - S.leave[t]))
                    /\ T.env[h] = S.env[h] /\ T.leave[h] = S.leave[h]
  <1>1. CASE Twins(S, h, S.env[h]) = {}
    BY <1>1 DEF ForceHeapMerge
  <1>2. CASE Twins(S, h, S.env[h]) # {}
    <2> DEFINE t == CHOOSE t \in Twins(S, h, S.env[h]) : TRUE
               n == S.count[h] + (S.count[t] - S.leave[t])
               M == SetHeapSize(S, t, n)
               T == Doom(M, h)
    <2>1. t \in Twins(S, h, S.env[h])
      BY <1>2
    <2>2. t \in Heaps /\ Exists(S, t) /\ t # h
      BY <2>1 DEF Twins, Exists
    <2>3. ForceHeapMerge(S, h) = T
      BY <1>2 DEF ForceHeapMerge, Num
    <2> HIDE DEF t
    <2>4. n \in Int
      BY <2>2 DEF Sane, States, Exists
    <2> HIDE DEF n
    <2>5. Resized(S, M, t, n)
      BY <2>2, <2>4, SetHeapSizeFacts
    <2>6. Sane(M)
      BY <2>2, <2>4, SetHeapSizeSane
    <2> HIDE DEF M
    <2>7. /\ T.env = M.env /\ T.count = M.count /\ T.leave = M.leave
          /\ T.dying = [M.dying EXCEPT ![h] = TRUE]
          /\ T.removals = [M.removals EXCEPT ![h] = @ + 1]
      BY <2>6, DoomFacts
    <2> HIDE DEF T
    <2>8. h \in Heaps /\ t # h /\ S \in States /\ M \in States
      BY <2>2, <2>6 DEF Exists, Sane
    <2>9. /\ \A x \in Heaps : T.removals[x] = S.removals[x] +
                            (IF x = h \/ (x = t /\ n <= 0) THEN 1 ELSE 0)
          /\ \A x \in Heaps : T.dying[x] <=> (S.dying[x] \/ x = h \/ (x = t /\ n <= 0))
      <3>1. \A x \in Heaps : /\ T.removals[x] = M.removals[x] + (IF x = h THEN 1 ELSE 0)
                             /\ T.dying[x] <=> (M.dying[x] \/ x = h)
        BY <2>7, <2>8 DEF States
      <3>2. \A x \in Heaps : M.removals[x] \in Nat /\ S.removals[x] \in Nat
        BY <2>8 DEF States
      <3>3. \A x \in Heaps : M.removals[x] = S.removals[x] + (IF x = t /\ n <= 0 THEN 1 ELSE 0)
        BY <2>5 DEF Resized
      <3>4. \A x \in Heaps : M.dying[x] <=> (S.dying[x] \/ (x = t /\ n <= 0))
        BY <2>5 DEF Resized
      <3>5. \A x \in Heaps : T.removals[x] = S.removals[x] +
                                (IF x = h \/ (x = t /\ n <= 0) THEN 1 ELSE 0)
        BY <2>8, <3>1, <3>2, <3>3
      <3>6. QED
        BY <3>1, <3>4, <3>5
    <2>10. /\ \A x \in Heaps : T.env[x] = S.env[x]
           /\ \A x \in Heaps : T.count[x] = IF x = t THEN Size(n) ELSE S.count[x]
           /\ \A x \in Heaps : T.leave[x] = S.leave[x] \/ T.leave[x] = 0
           /\ T.leave[h] = S.leave[h]
      BY <2>5, <2>7, <2>8 DEF Resized, States
    <2>11. Joined(S, T, h, t, n)
      BY <2>9, <2>10 DEF Joined
    <2>12. QED
      BY <2>1, <2>3, <2>8, <2>10, <2>11 DEF n
  <1>3. QED
    BY <1>1, <1>2

LEMMA JoinedBuried ==
    ASSUME NEW S, Sane(S), NEW T, NEW h, NEW t, NEW n, Joined(S, T, h, t, n), Buried(S),
           T.env[h] = S.env[h] \/ T.leave[h] = 0
    PROVE  Buried(T)
  <1>1. \A x \in Heaps : S.removals[x] \in Nat
    BY DEF Sane, States
  <1>2. ASSUME NEW x \in Heaps, T.removals[x] > 0
        PROVE  T.dying[x]
    BY <1>1, <1>2 DEF Joined, Buried
  <1>3. ASSUME NEW x \in Heaps, T.env[x] \in Heaps
        PROVE  T.removals[x] > 0 /\ T.leave[x] = 0
    BY <1>1, <1>3 DEF Joined, Buried
  <1>4. QED
    BY <1>2, <1>3 DEF Buried

\* What is not in a place is in a heap that was entered before.
LEMMA BuriedPlaces ==
    ASSUME NEW S, Sane(S), Buried(S), NEW x \in Heaps, S.env[x] # None,
           S.leave[x] > 0 \/ ~S.dying[x]
    PROVE  S.env[x] \in Places
  BY DEF Sane, States, Buried

-----------------------------------------------------------------------------
(***************************************************************************)
(* The account of the items: those in heaps that no call-out is going to   *)
(* destruct.                                                               *)
(***************************************************************************)
Alive(S, x) == IF S.removals[x] > 0 THEN 0 ELSE S.count[x]
Lives(S) == [x \in Heaps |-> Alive(S, x)]
Live(S) == Sum(Lives(S), Heaps)

LEMMA LiveInt ==
    ASSUME NEW S, Sane(S)
    PROVE  Integral(Lives(S), Heaps) /\ Live(S) \in Int
  <1>1. Integral(Lives(S), Heaps)
    BY DEF Sane, States, Lives, Alive, Integral
  <1>2. QED
    BY <1>1, SumInt, HeapAssumption DEF Live

LEMMA LiveSame ==
    ASSUME NEW S, NEW T, \A x \in Heaps : Alive(T, x) = Alive(S, x)
    PROVE  Live(T) = Live(S)
  <1>1. Coincide(Lives(S), Lives(T), Heaps)
    BY DEF Coincide, Lives
  <1>2. QED
    BY <1>1, SumAgree, HeapAssumption DEF Live

LEMMA LiveChange ==
    ASSUME NEW S, Sane(S), NEW T, Sane(T), NEW h \in Heaps,
           \A x \in Heaps \ {h} : Alive(T, x) = Alive(S, x)
    PROVE  Live(T) = Live(S) + (Alive(T, h) - Alive(S, h))
  <1> DEFINE f == Lives(S)
             g == Lives(T)
  <1>1. Integral(f, Heaps) /\ Integral(g, Heaps)
    BY LiveInt
  <1>2. Coincide(f, g, Heaps \ {h}) /\ f[h] = Alive(S, h) /\ g[h] = Alive(T, h)
    BY DEF Coincide, Lives
  <1> HIDE DEF f, g
  <1>3. Sum(g, Heaps) = Sum(f, Heaps) + (g[h] - f[h])
    BY <1>1, <1>2, SumChange, HeapAssumption
  <1>4. QED
    BY <1>2, <1>3 DEF Live, f, g

LEMMA LiveChangeTwo ==
    ASSUME NEW S, Sane(S), NEW T, Sane(T), NEW h \in Heaps, NEW t \in Heaps \ {h},
           \A x \in Heaps \ {h, t} : Alive(T, x) = Alive(S, x)
    PROVE  Live(T) = Live(S) + (Alive(T, h) - Alive(S, h)) + (Alive(T, t) - Alive(S, t))
  <1> DEFINE f == Lives(S)
             g == Lives(T)
  <1>1. Integral(f, Heaps) /\ Integral(g, Heaps)
    BY LiveInt
  <1>2. /\ Coincide(f, g, Heaps \ {h, t}) /\ f[h] = Alive(S, h) /\ g[h] = Alive(T, h)
        /\ f[t] = Alive(S, t) /\ g[t] = Alive(T, t)
    BY DEF Coincide, Lives
  <1> HIDE DEF f, g
  <1>3. Sum(g, Heaps) = Sum(f, Heaps) + (g[h] - f[h]) + (g[t] - f[t])
    BY <1>1, <1>2, SumChangeTwo, HeapAssumption
  <1>4. QED
    BY <1>2, <1>3 DEF Live, f, g

\* What a function that handles h leaves alone of the other heaps.
Tends(S, T, h) ==
    /\ \A x \in Heaps \ {h} : S.env[x] # None => T.env[x] = S.env[x]
    /\ \A x \in Heaps \ {h} : T.leave[x] > 0 /\ ~T.dying[x] => S.leave[x] > 0 /\ ~S.dying[x]
    /\ \A x \in Heaps : T.removals[x] >= S.removals[x]

\* A heap with a pending split has taken in another.
Overrun(S, T, h) ==
    \E t \in Heaps \ {h} : /\ S.env[t] # None /\ S.leave[t] > 0 /\ ~S.dying[t]
                           /\ \E x \in Heaps \ {t} : T.removals[x] > S.removals[x]

Waiting(S, h) == S.removals[h] > 0 /\ S.env[h] \in Places

Accounts(S, T, h) ==
    /\ Tends(S, T, h)
    /\ Live(T) < Live(S) => Overrun(S, T, h)
    /\ Live(T) > Live(S) => Waiting(S, h)

LEMMA AccountsAdd ==
    ASSUME NEW S, Sane(S), NEW T, Sane(T), NEW U, Sane(U), NEW h \in Heaps,
           Accounts(S, T, h), Accounts(T, U, h), Waiting(T, h) => Waiting(S, h)
    PROVE  Accounts(S, U, h)
  <1>1. Live(S) \in Int /\ Live(T) \in Int /\ Live(U) \in Int
    BY LiveInt
  <1>2. \A x \in Heaps : /\ S.removals[x] \in Nat /\ T.removals[x] \in Nat
                         /\ U.removals[x] \in Nat
                         /\ S.env[x] = None => S.leave[x] = 0
    BY DEF Sane, States
  <1>3. Tends(S, T, h) /\ Tends(T, U, h)
    BY DEF Accounts
  <1>4. Tends(S, U, h)
    <2>1. ASSUME NEW x \in Heaps \ {h}, S.env[x] # None
          PROVE  U.env[x] = S.env[x]
      BY <1>3, <2>1 DEF Tends
    <2>2. ASSUME NEW x \in Heaps \ {h}, U.leave[x] > 0, ~U.dying[x]
          PROVE  S.leave[x] > 0 /\ ~S.dying[x]
      BY <1>3, <2>2 DEF Tends
    <2>3. ASSUME NEW x \in Heaps
          PROVE  U.removals[x] >= S.removals[x]
      <3>1. U.removals[x] >= T.removals[x] /\ T.removals[x] >= S.removals[x]
        BY <1>3 DEF Tends
      <3>2. QED
        BY <1>2, <3>1
    <2>4. QED
      BY <2>1, <2>2, <2>3 DEF Tends
  <1>5. ASSUME Live(U) < Live(S)
        PROVE  Overrun(S, U, h)
    <2>1. CASE Live(T) < Live(S)
      <3>1. PICK t \in Heaps \ {h} : /\ S.env[t] # None /\ S.leave[t] > 0 /\ ~S.dying[t]
                                     /\ \E x \in Heaps \ {t} : T.removals[x] > S.removals[x]
        BY <2>1 DEF Accounts, Overrun
      <3>2. PICK x \in Heaps \ {t} : T.removals[x] > S.removals[x]
        BY <3>1
      <3>3. U.removals[x] >= T.removals[x]
        BY <1>3 DEF Tends
      <3>4. U.removals[x] > S.removals[x]
        BY <1>2, <3>2, <3>3
      <3>5. QED
        BY <3>1, <3>4 DEF Overrun
    <2>2. CASE ~(Live(T) < Live(S))
      <3>1. Live(U) < Live(T)
        BY <1>1, <1>5, <2>2
      <3>2. PICK t \in Heaps \ {h} : /\ T.env[t] # None /\ T.leave[t] > 0 /\ ~T.dying[t]
                                     /\ \E x \in Heaps \ {t} : U.removals[x] > T.removals[x]
        BY <3>1 DEF Accounts, Overrun
      <3>3. PICK x \in Heaps \ {t} : U.removals[x] > T.removals[x]
        BY <3>2
      <3>4. S.leave[t] > 0 /\ ~S.dying[t] /\ T.removals[x] >= S.removals[x]
        BY <1>3, <3>2 DEF Tends
      <3>5. S.env[t] # None
        BY <1>2, <3>4
      <3>6. U.removals[x] > S.removals[x]
        BY <1>2, <3>3, <3>4
      <3>7. QED
        BY <3>4, <3>5, <3>6 DEF Overrun
    <2>3. QED
      BY <2>1, <2>2
  <1>6. ASSUME Live(U) > Live(S)
        PROVE  Waiting(S, h)
    <2>1. Live(T) > Live(S) \/ Live(U) > Live(T)
      BY <1>1, <1>6
    <2>2. QED
      BY <2>1 DEF Accounts
  <1>7. QED
    BY <1>4, <1>5, <1>6 DEF Accounts

\* No items move, and of the heaps but h only the accounts change.
LEMMA AccountsPlain ==
    ASSUME NEW S, Sane(S), NEW T, NEW h, T.count = S.count, T.removals = S.removals,
           \A x \in Heaps \ {h} : /\ T.env[x] = S.env[x] /\ T.leave[x] = S.leave[x]
                                  /\ T.dying[x] = S.dying[x]
    PROVE  Live(T) = Live(S) /\ Accounts(S, T, h)
  <1>1. \A x \in Heaps : Alive(T, x) = Alive(S, x)
    BY DEF Alive
  <1>2. Live(T) = Live(S)
    BY <1>1, LiveSame
  <1>3. \A x \in Heaps : S.removals[x] \in Nat
    BY DEF Sane, States
  <1>4. Tends(S, T, h)
    BY <1>3 DEF Tends
  <1>5. Live(S) \in Int
    BY LiveInt
  <1>6. QED
    BY <1>2, <1>4, <1>5 DEF Accounts

\* What a merger costs: the items that t was going to leave behind.
LEMMA JoinedLive ==
    ASSUME NEW S, Sane(S), Buried(S), NEW T, Sane(T), NEW h \in Heaps, NEW t \in Heaps \ {h},
           ~S.dying[t], Joined(S, T, h, t, S.count[h] + (S.count[t] - S.leave[t]))
    PROVE  /\ Tends(S, T, h)
           /\ T.removals[h] > S.removals[h]
           /\ Live(T) < Live(S) => S.leave[t] > 0
           /\ Live(T) > Live(S) => S.removals[h] > 0
  <1> DEFINE n == S.count[h] + (S.count[t] - S.leave[t])
  <1>1. /\ S.count[h] \in Nat /\ S.count[t] \in Nat /\ S.leave[t] \in Nat
        /\ \A x \in Heaps : S.removals[x] \in Nat
    BY DEF Sane, States
  <1>2. n \in Int
    BY <1>1
  <1>3. Joined(S, T, h, t, n)
    OBVIOUS
  <1>4. S.removals[t] = 0
    BY <1>1 DEF Buried
  <1> DEFINE m == Size(n)
  <1>5. \A x \in Heaps \ {h, t} : Alive(T, x) = Alive(S, x)
    <2> HIDE DEF n
    <2>1. QED
      BY <1>1, <1>3 DEF Alive, Joined
  <1>6. Alive(T, h) = 0 /\ T.removals[h] > S.removals[h]
    <2> HIDE DEF n
    <2>1. T.removals[h] = S.removals[h] + 1
      BY <1>3 DEF Joined
    <2>2. QED
      BY <1>1, <2>1 DEF Alive
  <1>7. Alive(S, t) = S.count[t] /\ Alive(T, t) = m
    <2> HIDE DEF n
    <2>1. T.removals[t] = S.removals[t] + (IF n <= 0 THEN 1 ELSE 0) /\ T.count[t] = Size(n)
      BY <1>3 DEF Joined
    <2>2. CASE n <= 0
      BY <1>4, <2>1, <2>2 DEF Alive, Size
    <2>3. CASE ~(n <= 0)
      BY <1>4, <2>1, <2>3 DEF Alive
    <2>4. QED
      BY <2>2, <2>3
  <1>8. Live(T) = Live(S) + (Alive(T, h) - Alive(S, h)) + (Alive(T, t) - Alive(S, t))
    BY <1>5, LiveChangeTwo
  <1>9. Live(S) \in Int
    BY LiveInt
  <1>10. Alive(S, h) = (IF S.removals[h] > 0 THEN 0 ELSE S.count[h])
    BY DEF Alive
  <1>11. Tends(S, T, h)
    <2> HIDE DEF n
    <2>1. ASSUME NEW x \in Heaps \ {h}, T.leave[x] > 0, ~T.dying[x]
          PROVE  S.leave[x] > 0 /\ ~S.dying[x]
      <3>1. T.leave[x] = S.leave[x]
        BY <1>3, <2>1 DEF Joined
      <3>2. QED
        BY <1>3, <2>1, <3>1 DEF Joined
    <2>2. \A x \in Heaps : T.removals[x] >= S.removals[x]
      BY <1>1, <1>3 DEF Joined
    <2>3. \A x \in Heaps \ {h} : T.env[x] = S.env[x]
      BY <1>3 DEF Joined
    <2>4. QED
      BY <2>1, <2>2, <2>3 DEF Tends
  <1>12. m = (IF n <= 0 THEN 0 ELSE n)
    BY DEF Size
  <1> HIDE DEF m
  <1>13. ASSUME Live(T) < Live(S)
         PROVE  S.leave[t] > 0
    BY <1>1, <1>6, <1>7, <1>8, <1>9, <1>10, <1>12, <1>13
  <1>14. ASSUME Live(T) > Live(S)
         PROVE  S.removals[h] > 0
    BY <1>1, <1>6, <1>7, <1>8, <1>9, <1>10, <1>12, <1>14
  <1>15. QED
    BY <1>6, <1>11, <1>13, <1>14

LEMMA EnterAccounts ==
    ASSUME NEW S, Sane(S), Buried(S), NEW h, Exists(S, h), NEW p, p \in Places, S.env[h] = p
    PROVE  LET T == Enter(S, h, p)
           IN Accounts(S, T, h) /\ Buried(T) /\ (Waiting(T, h) => Waiting(S, h))
              /\ T.env[h] \in {p} \cup Heaps
  <1> DEFINE T == Enter(S, h, p)
  <1>1. p # None /\ h \in Heaps
    BY HeapAssumption DEF Places, Exists
  <1>2. Sane(T)
    BY <1>1, EnterSane
  <1>3. \/ /\ Twins(S, h, p) = {}
           /\ T.env = S.env /\ T.count = S.count /\ T.leave = S.leave
           /\ T.dying = S.dying /\ T.removals = S.removals
        \/ \E t \in Twins(S, h, p) :
              /\ Joined(S, T, h, t, S.count[h] + (S.count[t] - S.leave[t]))
              /\ T.env[h] = t /\ T.leave[h] = 0
    BY <1>1, EnterFacts
  <1> HIDE DEF T
  <1>4. CASE /\ T.env = S.env /\ T.count = S.count /\ T.leave = S.leave
             /\ T.dying = S.dying /\ T.removals = S.removals
    <2>1. Accounts(S, T, h)
      BY <1>4, AccountsPlain
    <2>2. QED
      BY <1>4, <2>1 DEF Buried, Waiting, T
  <1>5. CASE \E t \in Twins(S, h, p) :
              /\ Joined(S, T, h, t, S.count[h] + (S.count[t] - S.leave[t]))
              /\ T.env[h] = t /\ T.leave[h] = 0
    <2>1. PICK t \in Twins(S, h, p) :
              /\ Joined(S, T, h, t, S.count[h] + (S.count[t] - S.leave[t]))
              /\ T.env[h] = t /\ T.leave[h] = 0
      BY <1>5
    <2>2. t \in Heaps \ {h} /\ ~S.dying[t] /\ S.env[t] = p /\ t \notin Places
      BY HeapAssumption DEF Twins, Places
    <2>3. /\ Tends(S, T, h)
          /\ T.removals[h] > S.removals[h]
          /\ Live(T) < Live(S) => S.leave[t] > 0
          /\ Live(T) > Live(S) => S.removals[h] > 0
      BY <1>1, <1>2, <2>1, <2>2, JoinedLive
    <2>4. Accounts(S, T, h)
      BY <1>1, <2>2, <2>3 DEF Accounts, Overrun, Waiting
    <2>5. Buried(T)
      BY <2>1, JoinedBuried
    <2>6. QED
      BY <2>1, <2>2, <2>4, <2>5 DEF Waiting, T
  <1>6. QED
    BY <1>3, <1>4, <1>5

LEMMA CreditFacts ==
    ASSUME NEW S, Sane(S), NEW p, NEW d
    PROVE  LET T == Credit(S, p, d)
           IN /\ T.env = S.env /\ T.count = S.count /\ T.leave = S.leave
              /\ T.dying = S.dying /\ T.removals = S.removals
  BY DEF Credit, Sane, States

\* Something is left behind in p, and goes into a heap with a pending split.
Spilled(S, T, h, p) ==
    \E t \in Heaps \ {h} : /\ S.env[t] = p /\ S.leave[t] > 0 /\ ~S.dying[t]
                           /\ \E x \in Heaps \ {t} : /\ S.env[x] = None
                                                     /\ T.removals[x] > S.removals[x]

LEMMA LeaveAccounts ==
    ASSUME NEW S, Sane(S), Buried(S), NEW h, Exists(S, h), NEW p,
           S.leave[h] > 0 => HasFree(S), p \in Places \cup Heaps,
           S.leave[h] > 0 => p \in Places /\ (S.env[h] # p \/ S.dying[h])
    PROVE  LET T == Leave(S, h, p)
           IN /\ Tends(S, T, h) /\ Buried(T)
              /\ T.env[h] = S.env[h] /\ T.removals[h] = S.removals[h]
              /\ Live(T) < Live(S) => Spilled(S, T, h, p)
              /\ Live(T) > Live(S) => S.removals[h] > 0 /\ S.leave[h] > 0
              /\ S.leave[h] = 0 => T.count = S.count /\ T.removals = S.removals
  <1> DEFINE f == Fresh(S)
             L == [S EXCEPT !.count[h] = @ - S.leave[h], !.leave[h] = 0,
                            !.env[f] = p, !.count[f] = S.leave[h],
                            !.hide[f] = S.hide[h], !.dying[f] = S.dying[h]]
             left == 0 < S.leave[h] /\ S.leave[h] < S.count[h]
             R == IF left THEN Enter(L, f, p) ELSE S
             T == Leave(S, h, p)
  <1>1. left => f \in Heaps /\ S.env[f] = None
    BY DEF HasFree, Fresh, Sane, States, Exists
  <1>2. p # None /\ None \notin Places /\ (left => f # h) /\ h \in Heaps
    BY <1>1, HeapAssumption DEF Places, Exists
  <1>3. Leave(S, h, p) = Credit(R, p, - Num(S, h))
    BY DEF Leave
  <1>4. /\ S.count[h] \in Nat /\ S.leave[h] \in Nat
        /\ \A x \in Heaps : S.removals[x] \in Nat
    BY <1>2 DEF Sane, States
  <1> HIDE DEF f
  <1>5. /\ Sane(R) /\ Tends(S, R, h) /\ Buried(R)
        /\ R.env[h] = S.env[h] /\ R.removals[h] = S.removals[h]
        /\ Live(R) < Live(S) => Spilled(S, R, h, p)
        /\ Live(R) > Live(S) => S.removals[h] > 0 /\ S.leave[h] > 0
        /\ S.leave[h] = 0 => R.count = S.count /\ R.removals = S.removals
    <2>1. CASE left
      <3>1. /\ L.env = [S.env EXCEPT ![f] = p]
            /\ L.count = [S.count EXCEPT ![h] = @ - S.leave[h], ![f] = S.leave[h]]
            /\ L.leave = [S.leave EXCEPT ![h] = 0]
            /\ L.hide = [S.hide EXCEPT ![f] = S.hide[h]]
            /\ L.dying = [S.dying EXCEPT ![f] = S.dying[h]]
            /\ L.restores = S.restores /\ L.removals = S.removals /\ L.held = S.held
        BY DEF Sane, States
      <3>2. Sane(L)
        BY <2>1, <1>1, <1>2, CloneSane
      <3> HIDE DEF L
      <3>3. f \in Heaps \ {h} /\ S.env[f] = None /\ p \in Places /\ p # None
        BY <1>1, <1>2, <2>1, <1>4
      <3>4. Exists(L, f) /\ L.env[f] = p
        BY <3>1, <3>3 DEF Exists, Sane, States
      <3>5. /\ S.removals[f] = 0 /\ S.leave[f] = 0 /\ S.count[f] = 0
        BY <3>3 DEF Sane
      <3>6. \A x \in Heaps \ {f} : L.env[x] = S.env[x] /\ L.dying[x] = S.dying[x]
        BY <3>1, <3>3 DEF Sane, States
      <3>7. \A x \in Heaps : L.leave[x] = IF x = h THEN 0 ELSE S.leave[x]
        BY <3>1 DEF Sane, States
      <3>8. p \notin Heaps
        BY <3>3, HeapAssumption DEF Places
      <3>9. Buried(L)
        BY <3>1, <3>4, <3>5, <3>6, <3>7, <3>8 DEF Buried
      <3>10. L.removals[f] = 0
        BY <3>1, <3>5
      <3>11. /\ Live(L) >= Live(S)
             /\ Live(L) > Live(S) => S.removals[h] > 0
        <4>1. \A x \in Heaps \ {h, f} : Alive(L, x) = Alive(S, x)
          BY <3>1, <3>3 DEF Alive, Sane, States
        <4>2. /\ Alive(L, f) = S.leave[h] /\ Alive(S, f) = 0
              /\ Alive(L, h) = IF S.removals[h] > 0 THEN 0 ELSE S.count[h] - S.leave[h]
              /\ Alive(S, h) = IF S.removals[h] > 0 THEN 0 ELSE S.count[h]
          BY <1>2, <3>1, <3>3, <3>5 DEF Alive, Sane, States
        <4>3. Live(L) = Live(S) + (Alive(L, h) - Alive(S, h)) + (Alive(L, f) - Alive(S, f))
          BY <1>2, <3>2, <3>3, <4>1, LiveChangeTwo
        <4>4. Live(S) \in Int
          BY LiveInt
        <4>5. QED
          BY <1>4, <4>2, <4>3, <4>4
      <3> DEFINE E == Enter(L, f, p)
      <3>12. \/ /\ E.env = L.env /\ E.count = L.count /\ E.leave = L.leave
                /\ E.dying = L.dying /\ E.removals = L.removals
             \/ \E t \in Twins(L, f, p) :
                   /\ Joined(L, E, f, t, L.count[f] + (L.count[t] - L.leave[t]))
                   /\ E.env[f] = t /\ E.leave[f] = 0
        BY <3>2, <3>3, <3>4, EnterFacts
      <3>13. Sane(E)
        BY <3>2, <3>3, <3>4, EnterSane
      <3>14. Accounts(L, E, f) /\ Buried(E)
        BY <3>2, <3>3, <3>4, <3>9, EnterAccounts
      <3>15. E.leave[f] = 0
        BY <3>3, <3>5, <3>7, <3>12
      <3> HIDE DEF E
      <3>16. Tends(S, E, h)
        <4>1. ASSUME NEW x \in Heaps \ {h}, S.env[x] # None
              PROVE  E.env[x] = S.env[x]
          <5>1. x # f /\ L.env[x] = S.env[x]
            BY <3>3, <3>6, <4>1
          <5>2. QED
            BY <3>14, <4>1, <5>1 DEF Accounts, Tends
        <4>2. ASSUME NEW x \in Heaps \ {h}, E.leave[x] > 0, ~E.dying[x]
              PROVE  S.leave[x] > 0 /\ ~S.dying[x]
          <5>1. x # f
            BY <3>15, <4>2
          <5>2. L.leave[x] > 0 /\ ~L.dying[x]
            BY <3>14, <4>2, <5>1 DEF Accounts, Tends
          <5>3. QED
            BY <3>6, <3>7, <5>1, <5>2
        <4>3. \A x \in Heaps : E.removals[x] >= S.removals[x]
          BY <3>1, <3>14 DEF Accounts, Tends
        <4>4. QED
          BY <4>1, <4>2, <4>3 DEF Tends
      <3>17. CASE /\ E.env = L.env /\ E.count = L.count /\ E.leave = L.leave
                  /\ E.dying = L.dying /\ E.removals = L.removals
        <4>1. \A x \in Heaps : Alive(E, x) = Alive(L, x)
          BY <3>17 DEF Alive
        <4>2. Live(E) = Live(L)
          BY <4>1, LiveSame
        <4>3. Live(S) \in Int /\ Live(L) \in Int
          BY <3>2, LiveInt
        <4>4. ~(Live(E) < Live(S)) /\ (Live(E) > Live(S) => S.removals[h] > 0)
          BY <3>11, <4>2, <4>3
        <4>5. E.env[h] = S.env[h] /\ E.removals[h] = S.removals[h]
          BY <1>2, <2>1, <3>1, <3>6, <3>17
        <4>6. QED
          BY <2>1, <3>13, <3>14, <3>16, <4>4, <4>5 DEF E
      <3>18. ASSUME NEW t \in Twins(L, f, p),
                    Joined(L, E, f, t, L.count[f] + (L.count[t] - L.leave[t]))
             PROVE  /\ E.env[h] = S.env[h] /\ E.removals[h] = S.removals[h]
                    /\ Live(E) < Live(S) => Spilled(S, E, h, p)
                    /\ Live(E) > Live(S) => S.removals[h] > 0
        <4>1. t \in Heaps \ {f} /\ ~L.dying[t] /\ L.env[t] = p
          BY DEF Twins
        <4>2. t # h /\ S.env[t] = p /\ ~S.dying[t] /\ S.leave[t] = L.leave[t]
          BY <1>2, <1>4, <2>1, <3>3, <3>6, <3>7, <4>1
        <4>3. /\ E.removals[f] > L.removals[f]
              /\ Live(E) < Live(L) => L.leave[t] > 0
              /\ Live(E) > Live(L) => L.removals[f] > 0
          BY <3>2, <3>3, <3>9, <3>13, <3>18, <4>1, JoinedLive
        <4>4. Live(S) \in Int /\ Live(L) \in Int /\ Live(E) \in Int
          BY <3>2, <3>13, LiveInt
        <4>5. Live(E) < Live(S) => Spilled(S, E, h, p)
          <5>1. SUFFICES ASSUME Live(E) < Live(S) PROVE Spilled(S, E, h, p)
            OBVIOUS
          <5>2. Live(E) < Live(L)
            BY <3>11, <4>4, <5>1
          <5>3. S.leave[t] > 0
            BY <4>2, <4>3, <5>2
          <5>4. E.removals[f] > S.removals[f]
            BY <3>1, <4>3
          <5>5. t \in Heaps \ {h} /\ f \in Heaps \ {t}
            BY <3>3, <4>1, <4>2
          <5>6. QED
            BY <3>3, <4>2, <5>3, <5>4, <5>5 DEF Spilled
        <4>6. Live(E) > Live(S) => S.removals[h] > 0
          BY <3>10, <3>11, <4>3, <4>4
        <4>7. E.env[h] = S.env[h]
          BY <1>2, <2>1, <3>6, <3>18 DEF Joined
        <4>8. E.removals[h] = S.removals[h]
          <5>1. E.removals[h] = L.removals[h] + 0
            BY <1>2, <2>1, <3>18, <4>2 DEF Joined
          <5>2. QED
            BY <1>2, <1>4, <3>1, <5>1
        <4>9. QED
          BY <4>5, <4>6, <4>7, <4>8
      <3>19. CASE \E t \in Twins(L, f, p) :
                   Joined(L, E, f, t, L.count[f] + (L.count[t] - L.leave[t]))
        BY <2>1, <3>13, <3>14, <3>16, <3>18, <3>19, <1>4 DEF E
      <3>20. QED
        BY <3>12, <3>17, <3>19
    <2>2. CASE ~left
      <3>1. Tends(S, S, h)
        BY <1>4 DEF Tends
      <3>2. Live(S) \in Int
        BY LiveInt
      <3>3. QED
        BY <2>2, <3>1, <3>2
    <2>3. QED
      BY <2>1, <2>2
  <1> HIDE DEF R
  <1>6. /\ T.env = R.env /\ T.count = R.count /\ T.leave = R.leave
        /\ T.dying = R.dying /\ T.removals = R.removals
    BY <1>3, <1>5, CreditFacts
  <1> HIDE DEF T
  <1>7. Live(T) = Live(R)
    BY <1>5, <1>6, AccountsPlain
  <1>8. QED
    BY <1>5, <1>6, <1>7 DEF Tends, Buried, Spilled, T

LEMMA RelocateAccounts ==
    ASSUME NEW S, Sane(S), Buried(S), HasFree(S), NEW h, Exists(S, h), NEW p, p \in Places,
           S.env[h] \in Places, S.env[h] # p
    PROVE  LET T == Relocate(S, h, p)
           IN Accounts(S, T, h) /\ Buried(T) /\ (Waiting(T, h) => Waiting(S, h))
              /\ T.env[h] # S.env[h]
  <1> DEFINE M == [S EXCEPT !.env[h] = p]
             o == S.env[h]
             L == Leave(M, h, o)
             T == Enter(L, h, p)
  <1>1. p # None /\ h \in Heaps /\ p \notin Heaps /\ o \in Places \cup Heaps /\ o # None
    BY HeapAssumption DEF Places, Exists
  <1>2. /\ M.env = [S.env EXCEPT ![h] = p] /\ M.count = S.count /\ M.leave = S.leave
        /\ M.held = S.held /\ M.restores = S.restores /\ M.removals = S.removals
        /\ M.dying = S.dying
    BY DEF Sane, States, Exists
  <1>3. Sane(M)
    BY <1>1 DEF Sane, States, Exists
  <1>4. Relocate(S, h, p) = T
    BY DEF Relocate
  <1> HIDE DEF M
  <1>5. M.env[h] = p /\ \A x \in Heaps \ {h} : M.env[x] = S.env[x]
    BY <1>1, <1>2 DEF Sane, States
  <1>6. Exists(M, h) /\ HasFree(M) /\ M.env[h] # o
    BY <1>1, <1>5 DEF Exists, HasFree
  <1>7. Buried(M)
    BY <1>1, <1>2, <1>5 DEF Buried
  <1>8. Accounts(S, M, h) /\ (Waiting(M, h) => Waiting(S, h))
    BY <1>2, <1>5, AccountsPlain DEF Waiting
  <1>9. o \in Places
    OBVIOUS
  <1> HIDE DEF o
  <1>10. Sane(L)
    BY <1>1, <1>3, <1>6, LeaveSane
  <1>11. /\ Tends(M, L, h) /\ Buried(L)
         /\ L.env[h] = M.env[h] /\ L.removals[h] = M.removals[h]
         /\ Live(L) < Live(M) => Spilled(M, L, h, o)
         /\ Live(L) > Live(M) => M.removals[h] > 0 /\ M.leave[h] > 0
    BY <1>1, <1>3, <1>6, <1>7, <1>9, LeaveAccounts
  <1> HIDE DEF L
  <1>12. Spilled(M, L, h, o) => Overrun(M, L, h)
    BY <1>1 DEF Spilled, Overrun
  <1>13. Accounts(M, L, h) /\ (Waiting(L, h) => Waiting(M, h))
    BY <1>5, <1>11, <1>12 DEF Accounts, Waiting
  <1>14. Exists(L, h) /\ L.env[h] = p
    BY <1>1, <1>5, <1>11 DEF Exists
  <1>15. /\ Accounts(L, T, h) /\ Buried(T) /\ (Waiting(T, h) => Waiting(L, h))
         /\ T.env[h] \in {p} \cup Heaps
    BY <1>10, <1>11, <1>14, EnterAccounts
  <1>16. Sane(T)
    BY <1>1, <1>10, <1>14, EnterSane
  <1> HIDE DEF T
  <1>17. Accounts(S, L, h)
    BY <1>1, <1>3, <1>8, <1>10, <1>13, AccountsAdd
  <1>18. Accounts(S, T, h)
    BY <1>1, <1>8, <1>10, <1>13, <1>15, <1>16, <1>17, AccountsAdd
  <1>19. T.env[h] # S.env[h]
    BY <1>9, <1>15, HeapAssumption DEF o, Places
  <1>20. QED
    BY <1>4, <1>8, <1>13, <1>15, <1>18, <1>19

LEMMA SplitHeapFacts ==
    ASSUME NEW S, Sane(S), NEW h, Exists(S, h), NEW n
    PROVE  LET T == SplitHeap(S, h, n)
           IN /\ T.env = S.env /\ T.count = S.count /\ T.dying = S.dying
              /\ T.removals = S.removals
              /\ T.leave = [S.leave EXCEPT ![h] = IF S.count[h] <= n THEN 0 ELSE S.count[h] - n]
  <1>1. CASE S.count[h] <= n
    BY <1>1 DEF SplitHeap, Sane, States
  <1>2. CASE ~(S.count[h] <= n)
    BY <1>2 DEF SplitHeap, Resize, Credit, Sane, States
  <1>3. QED
    BY <1>1, <1>2

LEMMA SplitHeapAccounts ==
    ASSUME NEW S, Sane(S), Buried(S), NEW h, Exists(S, h), S.env[h] \in Places, NEW n \in Nat
    PROVE  LET T == SplitHeap(S, h, n)
           IN /\ Accounts(S, T, h) /\ Live(T) = Live(S) /\ Buried(T)
              /\ Waiting(T, h) => Waiting(S, h)
  <1> DEFINE T == SplitHeap(S, h, n)
  <1>1. /\ T.env = S.env /\ T.count = S.count /\ T.dying = S.dying
        /\ T.removals = S.removals
        /\ T.leave = [S.leave EXCEPT ![h] = IF S.count[h] <= n THEN 0 ELSE S.count[h] - n]
    BY SplitHeapFacts
  <1> HIDE DEF T
  <1>2. \A x \in Heaps \ {h} : T.leave[x] = S.leave[x]
    BY <1>1 DEF Sane, States
  <1>3. Accounts(S, T, h) /\ Live(T) = Live(S)
    BY <1>1, <1>2, AccountsPlain
  <1>4. Buried(T)
    BY <1>1, <1>2, HeapAssumption DEF Buried, Places
  <1>5. QED
    BY <1>1, <1>3, <1>4 DEF Waiting, T

LEMMA MovedAccounts ==
    ASSUME NEW S, Sane(S), Buried(S), HasFree(S), NEW h, Exists(S, h), NEW p, p \in Places,
           S.env[h] \in Places, S.env[h] # p, NEW allowed \in BOOLEAN
    PROVE  LET T == Moved(S, h, p, allowed)
           IN /\ Accounts(S, T, h) /\ Buried(T) /\ (Waiting(T, h) => Waiting(S, h))
              /\ Live(T) = Live(S) \/ T.env[h] # S.env[h]
              /\ T.env[h] = S.env[h] \/ Moves(S, h, p, allowed)
  <1> DEFINE T == Moved(S, h, p, allowed)
  <1>1. Accounts(S, S, h)
    BY AccountsPlain
  <1>2. CASE ~Fits(S, h, p)
    BY <1>1, <1>2 DEF Moved
  <1>3. CASE Fits(S, h, p)
    <2> DEFINE F == Fit(S, h, p)
    <2>1. /\ Sane(F) /\ HasFree(F) /\ Exists(F, h)
      BY <1>3, FitSane
    <2>2. /\ Accounts(S, F, h) /\ Buried(F) /\ (Waiting(F, h) => Waiting(S, h))
          /\ Live(F) = Live(S) /\ F.env = S.env
      <3>1. CASE p # Room /\ Num(S, h) > Spare(S, p)
        <4>1. Spare(S, p) \in Int /\ Num(S, h) \in Int
          BY <3>1, HeapAssumption DEF Spare, Num, Sane, States, Places, Exists
        <4>2. Spare(S, p) \in Nat
          BY <1>3, <3>1, <4>1 DEF Fits
        <4>3. F = SplitHeap(S, h, Spare(S, p))
          BY <3>1 DEF Fit
        <4>4. QED
          BY <4>2, <4>3, SplitHeapAccounts, SplitHeapSane
      <3>2. CASE ~(p # Room /\ Num(S, h) > Spare(S, p))
        BY <1>1, <3>2 DEF Fit
      <3>3. QED
        BY <3>1, <3>2
    <2>3. CASE allowed
      <3>1. T = Relocate(F, h, p)
        BY <1>3, <2>3 DEF Moved
      <3> HIDE DEF F
      <3>2. /\ Accounts(F, T, h) /\ Buried(T) /\ (Waiting(T, h) => Waiting(F, h))
            /\ T.env[h] # F.env[h]
        BY <2>1, <2>2, <3>1, RelocateAccounts
      <3>3. Sane(T) /\ h \in Heaps
        BY <2>1, <3>1, RelocateSane DEF Exists
      <3> HIDE DEF T
      <3>4. Accounts(S, T, h)
        BY <2>1, <2>2, <3>2, <3>3, AccountsAdd
      <3>5. QED
        BY <1>3, <2>2, <2>3, <3>2, <3>4 DEF T, Moves
    <2>4. CASE ~allowed
      BY <1>3, <2>2, <2>4 DEF Moved
    <2>5. QED
      BY <2>3, <2>4
  <1>4. QED
    BY <1>2, <1>3

LEMMA SetHideAccounts ==
    ASSUME NEW S, Sane(S), Buried(S), NEW h, NEW b
    PROVE  LET T == SetHide(S, h, b)
           IN /\ Accounts(S, T, h) /\ Buried(T) /\ (Waiting(T, h) => Waiting(S, h))
              /\ Live(T) = Live(S) /\ T.env = S.env /\ T.removals = S.removals
  <1> DEFINE T == SetHide(S, h, b)
  <1>1. /\ T.env = S.env /\ T.count = S.count /\ T.leave = S.leave
        /\ T.dying = S.dying /\ T.removals = S.removals
    BY DEF SetHide, Sane, States
  <1> HIDE DEF T
  <1>2. Accounts(S, T, h) /\ Live(T) = Live(S)
    BY <1>1, AccountsPlain
  <1>3. QED
    BY <1>1, <1>2 DEF Buried, Waiting, T

LEMMA ForceHeapMergeAccounts ==
    ASSUME NEW S, Sane(S), Buried(S), NEW h, Exists(S, h)
    PROVE  LET T == ForceHeapMerge(S, h)
           IN /\ Accounts(S, T, h) /\ Buried(T) /\ T.env[h] = S.env[h]
              /\ Live(T) > Live(S) => T.removals[h] > S.removals[h]
  <1> DEFINE T == ForceHeapMerge(S, h)
             p == S.env[h]
  <1>1. Sane(T) /\ h \in Heaps
    BY ForceHeapMergeSane DEF Exists
  <1>2. \/ /\ T = S
           /\ Twins(S, h, p) = {}
        \/ \E t \in Twins(S, h, p) :
              /\ Joined(S, T, h, t, S.count[h] + (S.count[t] - S.leave[t]))
              /\ T.env[h] = S.env[h] /\ T.leave[h] = S.leave[h]
    BY ForceHeapMergeFacts
  <1> HIDE DEF T
  <1>3. CASE T = S
    <2>1. Accounts(S, S, h) /\ Live(S) \in Int
      BY AccountsPlain, LiveInt
    <2>2. QED
      BY <1>3, <2>1 DEF T
  <1>4. CASE \E t \in Twins(S, h, p) :
              /\ Joined(S, T, h, t, S.count[h] + (S.count[t] - S.leave[t]))
              /\ T.env[h] = S.env[h] /\ T.leave[h] = S.leave[h]
    <2>1. PICK t \in Twins(S, h, p) :
              /\ Joined(S, T, h, t, S.count[h] + (S.count[t] - S.leave[t]))
              /\ T.env[h] = S.env[h] /\ T.leave[h] = S.leave[h]
      BY <1>4
    <2>2. t \in Heaps \ {h} /\ ~S.dying[t] /\ S.env[t] = p /\ p # None
      BY DEF Twins, Exists
    <2>3. p \in Places
      BY <2>2, BuriedPlaces
    <2>4. /\ Tends(S, T, h)
          /\ T.removals[h] > S.removals[h]
          /\ Live(T) < Live(S) => S.leave[t] > 0
          /\ Live(T) > Live(S) => S.removals[h] > 0
      BY <1>1, <2>1, <2>2, JoinedLive
    <2>5. Accounts(S, T, h)
      BY <1>1, <2>2, <2>3, <2>4 DEF Accounts, Overrun, Waiting
    <2>6. Buried(T)
      BY <2>1, JoinedBuried
    <2>7. QED
      BY <2>1, <2>4, <2>5, <2>6 DEF T
  <1>5. QED
    BY <1>2, <1>3, <1>4

-----------------------------------------------------------------------------
(***************************************************************************)
(* Destruction.                                                            *)
(***************************************************************************)

\* What goes with h is h and what is in heaps; nothing that did not exist.
LEMMA InsideFacts ==
    ASSUME NEW S, Sane(S), NEW h, Exists(S, h)
    PROVE  /\ h \in Inside(S, h)
           /\ \A x \in Inside(S, h) \ {h} : x \in Heaps /\ S.env[x] \in Heaps
           /\ \A x \in Heaps : S.env[x] = None => x \notin Inside(S, h)
  <1>1. h \in Inside(S, h)
    BY DEF Inside, Exists
  <1> DEFINE T == {h} \cup {x \in Heaps : S.env[x] \in Heaps}
  <1>2. T \in SUBSET Heaps /\ h \in T /\ \A y \in Heaps : S.env[y] \in T => y \in T
    BY DEF Exists
  <1>3. \A x \in Inside(S, h) : x \in Heaps /\ x \in T
    <2> HIDE DEF T
    <2>1. QED
      BY <1>2 DEF Inside
  <1>4. None \notin Heaps /\ S.env[h] # None
    BY HeapAssumption DEF Exists
  <1>5. QED
    BY <1>1, <1>3, <1>4

Destructed(S, D, hs) ==
    /\ D.env = [x \in Heaps |-> IF x \in hs THEN None ELSE S.env[x]]
    /\ D.count = [x \in Heaps |-> IF x \in hs THEN 0 ELSE S.count[x]]
    /\ D.leave = [x \in Heaps |-> IF x \in hs THEN 0 ELSE S.leave[x]]
    /\ D.dying = [x \in Heaps |-> x \notin hs /\ S.dying[x]]
    /\ D.removals = [x \in Heaps |-> IF x \in hs THEN 0 ELSE S.removals[x]]
    /\ D.held = S.held

LEMMA DestructFacts ==
    ASSUME NEW S, Sane(S), NEW hs
    PROVE  Destructed(S, Destruct(S, hs), hs)
  BY DEF Sane, States, Destruct, Destructed

LEMMA RemoveObjectBook ==
    ASSUME NEW S, Sane(S), Buried(S), NEW h, Exists(S, h),
           S.leave[h] > 0 => HasFree(S) /\ S.dying[h]
    PROVE  Balanced(S, {}, RemoveObject(S, h), {}) /\ RemoveObject(S, h).env[h] = None
  <1> DEFINE o == S.env[h]
             L == Leave(S, h, o)
             hs == Inside(S, h)
             D == Destruct(L, hs)
  <1>1. h \in Heaps /\ o \in Places \cup Heaps /\ o # None
    BY DEF Sane, States, Exists
  <1>2. RemoveObject(S, h) = D
    BY DEF RemoveObject
  <1>3. S.leave[h] > 0 => o \in Places
    BY <1>1, BuriedPlaces
  <1>4. \A q \in Livings : Book(S, q, {}) = Book(S, q, {h}) - (IF q = o THEN Num(S, h) ELSE 0)
    BY <1>1, BookWithout
  <1> HIDE DEF o
  <1>5. Sane(L)
    BY <1>1, LeaveSane
  <1>6. \A q \in Livings : Book(L, q, {h}) = Book(S, q, {h}) - (IF q = o THEN Num(S, h) ELSE 0)
    <2>1. /\ o \in Places \cup Heaps /\ (S.leave[h] > 0 => HasFree(S))
          /\ S.leave[h] > 0 => S.env[h] # o \/ S.dying[h]
      BY <1>1
    <2>2. /\ \A q \in Livings : Book(Leave(S, h, o), q, {h})
                                   = Book(S, q, {h}) - (IF q = o THEN Num(S, h) ELSE 0)
          /\ Leave(S, h, o).restores = S.restores
      BY <2>1, LeaveBook
    <2> QED
      BY <2>2
  <1>7. Tends(S, L, h)
    BY <1>1, <1>3, LeaveAccounts
  <1>8. /\ h \in hs
        /\ \A x \in hs \ {h} : x \in Heaps /\ S.env[x] \in Heaps
    BY InsideFacts
  <1> HIDE DEF L, hs
  <1>9. /\ D.env = [x \in Heaps |-> IF x \in hs THEN None ELSE L.env[x]]
        /\ D.count = [x \in Heaps |-> IF x \in hs THEN 0 ELSE L.count[x]]
        /\ D.leave = [x \in Heaps |-> IF x \in hs THEN 0 ELSE L.leave[x]]
        /\ D.held = L.held
    <2> Destructed(L, D, hs)
      BY <1>5, DestructFacts
    <2> QED
      BY DEF Destructed
  <1>10. Sane(D)
    BY <1>5, DestructSane
  <1> HIDE DEF D
  <1>11. None \notin Livings /\ Heaps \cap Livings = {} /\ None \notin Heaps
    BY HeapAssumption
  <1>12. \A q \in Livings : \A x \in Heaps : Share(D, q, {}, x) = Share(L, q, {h}, x)
    <2>1. SUFFICES ASSUME NEW q \in Livings, NEW x \in Heaps
                   PROVE  Share(D, q, {}, x) = Share(L, q, {h}, x)
      OBVIOUS
    <2>2. CASE x \notin hs
      BY <1>8, <1>9, <2>2 DEF Share
    <2>3. CASE x \in hs
      <3>1. Share(D, q, {}, x) = 0
        BY <1>9, <1>11, <2>3 DEF Share
      <3>2. x # h => L.env[x] = S.env[x] /\ S.env[x] \notin Livings
        BY <1>7, <1>8, <1>11, <2>3 DEF Tends
      <3>3. QED
        BY <3>1, <3>2 DEF Share
    <2>4. QED
      BY <2>2, <2>3
  <1>13. Balanced(L, {h}, D, {})
    <2> DEFINE X == {h}
    <2>1. \A q \in Livings : \A x \in Heaps : Share(D, q, {}, x) = Share(L, q, X, x)
      BY <1>12
    <2> HIDE DEF X
    <2>2. Balanced(L, X, D, {})
      BY <1>5, <1>9, <1>10, <2>1, BookKept
    <2>3. QED
      BY <2>2 DEF X
  <1>14. Balanced(S, {}, D, {})
    BY <1>4, <1>6, <1>13 DEF Balanced
  <1>15. D.env[h] = None
    BY <1>1, <1>8, <1>9
  <1>16. QED
    BY <1>2, <1>14, <1>15

LEMMA RemoveObjectAccounts ==
    ASSUME NEW S, Sane(S), Buried(S), NEW h, Exists(S, h),
           S.leave[h] > 0 => HasFree(S) /\ S.dying[h]
    PROVE  LET T == RemoveObject(S, h)
           IN /\ Buried(T)
              /\ S.removals[h] > 0 /\ Live(T) < Live(S) =>
                   \E t \in Heaps : /\ S.leave[t] > 0 /\ ~S.dying[t] /\ T.env[t] = S.env[t]
                                    /\ \E x \in Heaps \ {t} : T.removals[x] > S.removals[x]
              /\ S.removals[h] > 0 /\ Live(T) > Live(S) => S.env[h] \in Places
              /\ S.leave[h] = 0 => Live(T) = Live(S) - Alive(S, h)
  <1> DEFINE o == S.env[h]
             L == Leave(S, h, o)
             hs == Inside(S, h)
             D == Destruct(L, hs)
  <1>1. h \in Heaps /\ o \in Places \cup Heaps /\ o # None
    BY DEF Sane, States, Exists
  <1>2. RemoveObject(S, h) = D
    BY DEF RemoveObject
  <1>3. S.leave[h] > 0 => o \in Places
    BY <1>1, BuriedPlaces
  <1> HIDE DEF o
  <1>4. Sane(L)
    BY <1>1, LeaveSane
  <1>5. /\ Tends(S, L, h) /\ Buried(L)
        /\ L.env[h] = S.env[h] /\ L.removals[h] = S.removals[h]
        /\ Live(L) < Live(S) => Spilled(S, L, h, o)
        /\ Live(L) > Live(S) => S.removals[h] > 0 /\ S.leave[h] > 0
        /\ S.leave[h] = 0 => L.count = S.count /\ L.removals = S.removals
    BY <1>1, <1>3, LeaveAccounts
  <1>6. /\ h \in hs
        /\ \A x \in hs \ {h} : x \in Heaps /\ S.env[x] \in Heaps
        /\ \A x \in Heaps : S.env[x] = None => x \notin hs
    BY InsideFacts
  <1> HIDE DEF L, hs
  <1>7. Destructed(L, D, hs)
    BY <1>4, DestructFacts
  <1>8. Sane(D)
    BY <1>4, DestructSane
  <1> HIDE DEF D
  <1>9. \A x \in Heaps : /\ S.removals[x] \in Nat /\ L.removals[x] \in Nat
    BY <1>4 DEF Sane, States
  <1>10. Buried(D)
    <2>1. \A x \in Heaps : x \notin hs => /\ D.env[x] = L.env[x] /\ D.leave[x] = L.leave[x]
                                          /\ D.removals[x] = L.removals[x]
                                          /\ L.dying[x] => D.dying[x]
      <3>1. L.dying \in [Heaps -> BOOLEAN]
        BY <1>4 DEF Sane, States
      <3>2. \A x \in Heaps : x \notin hs => D.dying[x] = L.dying[x]
        BY <1>7, <3>1 DEF Destructed
      <3>3. QED
        BY <1>7, <3>2 DEF Destructed
    <2>2. \A x \in hs : x \in Heaps => ~(D.env[x] \in Heaps) /\ ~(D.removals[x] > 0)
      <3>1. \A x \in hs : x \in Heaps => D.env[x] = None /\ D.removals[x] = 0
        BY <1>7 DEF Destructed
      <3>2. QED
        BY <3>1, HeapAssumption
    <2>3. QED
      BY <1>5, <2>1, <2>2 DEF Buried
  <1>11. Live(D) = Live(L) - Alive(L, h)
    <2>1. ASSUME NEW x \in Heaps \ {h}
          PROVE  Alive(D, x) = Alive(L, x)
      <3>1. CASE x \in hs
        <4>1. S.removals[x] > 0
          BY <1>6, <3>1 DEF Buried
        <4>2. L.removals[x] >= S.removals[x]
          BY <1>5 DEF Tends
        <4>3. Alive(L, x) = 0
          BY <1>9, <4>1, <4>2 DEF Alive
        <4>4. QED
          BY <1>7, <3>1, <4>3 DEF Destructed, Alive
      <3>2. CASE x \notin hs
        BY <1>7, <3>2 DEF Destructed, Alive
      <3>3. QED
        BY <3>1, <3>2
    <2>2. Alive(D, h) = 0
      BY <1>1, <1>6, <1>7 DEF Destructed, Alive
    <2>3. Live(D) = Live(L) + (Alive(D, h) - Alive(L, h))
      BY <1>1, <1>4, <1>8, <2>1, LiveChange
    <2>4. Live(L) \in Int
      BY <1>4, LiveInt
    <2>5. Alive(L, h) \in Int
      <3>1. L.count[h] \in Nat
        BY <1>1, <1>4 DEF Sane, States
      <3>2. QED
        BY <3>1 DEF Alive
    <2>6. QED
      BY <2>2, <2>3, <2>4, <2>5
  <1>12. S.removals[h] > 0 => Live(D) = Live(L)
    <2>1. S.removals[h] > 0 => Alive(L, h) = 0
      BY <1>5 DEF Alive
    <2>2. Live(L) \in Int
      BY <1>4, LiveInt
    <2>3. QED
      BY <1>11, <2>1, <2>2
  <1>13. ASSUME S.removals[h] > 0, Live(D) < Live(S)
         PROVE  \E t \in Heaps : /\ S.leave[t] > 0 /\ ~S.dying[t] /\ D.env[t] = S.env[t]
                                 /\ \E x \in Heaps \ {t} : D.removals[x] > S.removals[x]
    <2>1. Spilled(S, L, h, o)
      BY <1>5, <1>12, <1>13
    <2>2. PICK t \in Heaps \ {h} : /\ S.env[t] = o /\ S.leave[t] > 0 /\ ~S.dying[t]
                                   /\ \E x \in Heaps \ {t} : /\ S.env[x] = None
                                                             /\ L.removals[x] > S.removals[x]
      BY <2>1 DEF Spilled
    <2>3. PICK x \in Heaps \ {t} : S.env[x] = None /\ L.removals[x] > S.removals[x]
      BY <2>2
    <2>4. t \notin hs
      BY <1>6, <2>2 DEF Buried
    <2>5. D.env[t] = S.env[t]
      BY <1>1, <1>5, <1>7, <2>2, <2>4 DEF Destructed, Tends
    <2>6. D.removals[x] > S.removals[x]
      BY <1>6, <1>7, <2>3 DEF Destructed
    <2>7. QED
      BY <2>2, <2>5, <2>6
  <1>14. S.removals[h] > 0 /\ Live(D) > Live(S) => S.env[h] \in Places
    BY <1>1, <1>3, <1>5, <1>12 DEF o
  <1>15. ASSUME S.leave[h] = 0
         PROVE  Live(D) = Live(S) - Alive(S, h)
    <2>1. \A x \in Heaps : Alive(L, x) = Alive(S, x)
      BY <1>5, <1>15 DEF Alive
    <2>2. Live(L) = Live(S)
      BY <2>1, LiveSame
    <2>3. QED
      BY <1>1, <1>11, <2>1, <2>2
  <1>16. QED
    BY <1>2, <1>10, <1>13, <1>14, <1>15

-----------------------------------------------------------------------------
(***************************************************************************)
(* The steps of the specification.                                         *)
(***************************************************************************)

\* The invariant of the two accounts.
Sound == IInv /\ Buried(State)

LEMMA BecomesState ==
    ASSUME NEW T, T \in States, Becomes(T)
    PROVE  State' = T
  BY DEF State, States, Becomes

LEMMA DriftIsBook == \A q \in Livings : Drift(q) = Book(State, q, {})
  <1>1. SUFFICES ASSUME NEW q \in Livings PROVE Drift(q) = Book(State, q, {})
    OBVIOUS
  <1>2. [h \in Heaps |-> IF env[h] = q THEN Num(State, h) ELSE 0] = Shares(State, q, {})
    BY DEF Shares, Share, State, Num
  <1>3. Weight(q) = Sum(Shares(State, q, {}), Heaps)
    BY <1>2 DEF Weight, Sum
  <1>4. QED
    BY <1>3 DEF Drift, Book, State

LEMMA TotalIsLive == Total = eaten + Live(State)
  <1>1. [h \in Heaps |-> IF Doomed(h) THEN 0 ELSE count[h]] = Lives(State)
    BY DEF Lives, Alive, State, Doomed
  <1>2. SumFunctionOnSet([h \in Heaps |-> IF Doomed(h) THEN 0 ELSE count[h]], Heaps) = Live(State)
    BY <1>1 DEF Live, Sum
  <1>3. QED
    BY <1>2 DEF Total

\* What a command names, before it does anything with it.
LEMMA NamedFacts ==
    ASSUME Sound, NEW h, Exists(State, h), env[h] \in Places, HasFree(State), NEW n \in Nat
    PROVE  LET S == Named(h, n)
           IN /\ Sane(S) /\ Buried(S) /\ Exists(S, h) /\ HasFree(S) /\ S.env = env
              /\ Accounts(State, S, h) /\ Live(S) = Live(State)
              /\ Waiting(S, h) => Waiting(State, h)
              /\ Waits(State, S)
              /\ \A q \in Livings : Book(S, q, {}) # Book(State, q, {})
                                      => env[h] = q /\ leave[h] > 0
              /\ S.count = count /\ S.removals = removals
              /\ S = State \/ S.leave[h] = IF count[h] <= n THEN 0 ELSE count[h] - n
  <1> DEFINE S == Named(h, n)
  <1>1. Sane(State) /\ Buried(State) /\ h \in Heaps
    BY DEF Sound, IInv, Exists
  <1>2. State.env = env /\ State.leave = leave /\ State.count = count /\ State.removals = removals
    BY DEF State
  <1>3. CASE n = 0
    <2>1. Accounts(State, State, h)
      BY <1>1, AccountsPlain
    <2>2. Waits(State, State)
      BY <1>1 DEF Waits, Sane, States
    <2>3. S = State
      BY <1>3 DEF Named
    <2> HIDE DEF S
    <2>4. QED
      BY <1>1, <1>2, <2>1, <2>2, <2>3 DEF S
  <1>4. CASE n # 0
    <2>1. S = SplitHeap(State, h, n)
      BY <1>4 DEF Named
    <2>2. Sane(S) /\ S.env = State.env
      BY <1>1, <2>1, SplitHeapSane
    <2>3. /\ Accounts(State, S, h) /\ Live(S) = Live(State) /\ Buried(S)
          /\ Waiting(S, h) => Waiting(State, h)
      BY <1>1, <1>2, <2>1, SplitHeapAccounts
    <2>4. Waits(State, S)
      BY <1>1, <2>1, SplitHeapWaits
    <2>5. ASSUME NEW q \in Livings, Book(S, q, {}) # Book(State, q, {})
          PROVE  env[h] = q /\ leave[h] > 0
      <3>1. State.env[h] = q /\ State.leave[h] # 0
        BY <1>1, <2>1, <2>5, SplitHeapBook
      <3>2. leave[h] \in Nat
        BY <1>1, <1>2 DEF Sane, States
      <3>3. QED
        BY <1>2, <3>1, <3>2
    <2>6. /\ S.count = State.count /\ S.removals = State.removals
          /\ S.leave[h] = IF count[h] <= n THEN 0 ELSE count[h] - n
      <3>1. /\ S.count = State.count /\ S.removals = State.removals
            /\ S.leave = [State.leave EXCEPT ![h] = IF State.count[h] <= n THEN 0 ELSE State.count[h] - n]
        BY <1>1, <2>1, SplitHeapFacts
      <3>2. QED
        BY <1>1, <1>2, <3>1 DEF Sane, States
    <2>7. Exists(S, h) /\ HasFree(S)
      BY <2>2 DEF Exists, HasFree
    <2> HIDE DEF S
    <2>8. QED
      BY <1>2, <2>2, <2>3, <2>4, <2>5, <2>6, <2>7 DEF S
  <1>5. QED
    BY <1>3, <1>4

\* What a command does to the heap it has named: the books stay right, h goes
\* or its call-outs stay due, and the account of the items changes as Accounts
\* says, upwards only if h goes elsewhere or into another heap.
Done(S, T, h) ==
    /\ Sane(T) /\ Buried(T) /\ Balanced(S, {}, T, {})
    /\ T.env[h] = None \/ T.restores[h] >= S.restores[h]
Tally(S, T, h) ==
    /\ Accounts(S, T, h)
    /\ Live(T) > Live(S) => T.env[h] # S.env[h] \/ T.removals[h] > S.removals[h]

LEMMA NothingDone ==
    ASSUME NEW S, Sane(S), Buried(S), NEW h \in Heaps
    PROVE  Done(S, S, h) /\ Tally(S, S, h)
  <1>1. Accounts(S, S, h)
    BY AccountsPlain
  <1>2. S.restores[h] \in Nat /\ Live(S) \in Int
    BY LiveInt DEF Sane, States
  <1>3. QED
    BY <1>1, <1>2 DEF Done, Tally, Balanced

LEMMA MovedDone ==
    ASSUME NEW S, Sane(S), Buried(S), HasFree(S), NEW h, Exists(S, h), NEW p, p \in Places,
           S.env[h] \in Places, S.env[h] # p, NEW allowed \in BOOLEAN
    PROVE  LET T == Moved(S, h, p, allowed)
           IN /\ Done(S, T, h) /\ Tally(S, T, h) /\ Exists(T, h)
              /\ Live(T) = Live(S) \/ T.env[h] # S.env[h]
              /\ Waiting(T, h) => Waiting(S, h)
  <1> DEFINE T == Moved(S, h, p, allowed)
  <1>1. Sane(T) /\ Exists(T, h)
    BY MovedSane
  <1>2. Balanced(S, {}, T, {}) /\ Waits(S, T)
    BY MovedBook
  <1>3. /\ Accounts(S, T, h) /\ Buried(T) /\ (Waiting(T, h) => Waiting(S, h))
        /\ Live(T) = Live(S) \/ T.env[h] # S.env[h]
    BY MovedAccounts
  <1> HIDE DEF T
  <1>4. Live(T) \in Int /\ Live(S) \in Int /\ h \in Heaps
    BY <1>1, LiveInt DEF Exists
  <1>5. QED
    BY <1>1, <1>2, <1>3, <1>4 DEF Done, Tally, Waits, T

LEMMA MergeDone ==
    ASSUME NEW S, Sane(S), Buried(S), NEW h, Exists(S, h), NEW b \in BOOLEAN
    PROVE  LET T == ForceHeapMerge(SetHide(S, h, b), h)
           IN /\ Done(S, T, h) /\ Accounts(S, T, h) /\ T.env[h] = S.env[h]
              /\ Live(T) > Live(S) => T.removals[h] > S.removals[h]
  <1> DEFINE R == SetHide(S, h, b)
             T == ForceHeapMerge(R, h)
  <1>1. Sane(R) /\ Exists(R, h) /\ h \in Heaps
    BY SetHideSane DEF Exists
  <1>2. Balanced(S, {}, R, {}) /\ R.restores = S.restores
    BY SetHideBook
  <1>3. /\ Accounts(S, R, h) /\ Buried(R) /\ (Waiting(R, h) => Waiting(S, h))
        /\ Live(R) = Live(S) /\ R.env = S.env /\ R.removals = S.removals
    BY SetHideAccounts
  <1> HIDE DEF R
  <1>4. Sane(T)
    BY <1>1, ForceHeapMergeSane
  <1>5. Balanced(R, {}, T, {}) /\ T.restores = R.restores
    BY <1>1, ForceHeapMergeBook
  <1>6. /\ Accounts(R, T, h) /\ Buried(T) /\ T.env[h] = R.env[h]
        /\ Live(T) > Live(R) => T.removals[h] > R.removals[h]
    BY <1>1, <1>3, ForceHeapMergeAccounts
  <1> HIDE DEF T
  <1>7. Accounts(S, T, h)
    BY <1>1, <1>3, <1>4, <1>6, AccountsAdd
  <1>8. Balanced(S, {}, T, {}) /\ S.restores[h] \in Nat
    BY <1>1, <1>2, <1>5 DEF Balanced, Sane, States
  <1>9. QED
    BY <1>2, <1>3, <1>4, <1>5, <1>6, <1>7, <1>8 DEF Done, R, T

LEMMA MovedMergeDone ==
    ASSUME NEW S, Sane(S), Buried(S), HasFree(S), NEW h, Exists(S, h), NEW p, p \in Places,
           S.env[h] \in Places, S.env[h] # p, NEW allowed \in BOOLEAN, NEW b \in BOOLEAN
    PROVE  LET T == ForceHeapMerge(SetHide(Moved(S, h, p, allowed), h, b), h)
           IN Done(S, T, h) /\ Tally(S, T, h)
  <1> DEFINE M == Moved(S, h, p, allowed)
             T == ForceHeapMerge(SetHide(M, h, b), h)
  <1>1. /\ Done(S, M, h) /\ Tally(S, M, h) /\ Exists(M, h)
        /\ Live(M) = Live(S) \/ M.env[h] # S.env[h]
        /\ Waiting(M, h) => Waiting(S, h)
    BY MovedDone
  <1> HIDE DEF M
  <1>2. Sane(M) /\ Buried(M) /\ h \in Heaps
    BY <1>1 DEF Done, Exists
  <1>3. /\ Done(M, T, h) /\ Accounts(M, T, h) /\ T.env[h] = M.env[h]
        /\ Live(T) > Live(M) => T.removals[h] > M.removals[h]
    BY <1>1, <1>2, MergeDone
  <1> HIDE DEF T
  <1>4. Sane(T)
    BY <1>3 DEF Done
  <1>5. Accounts(S, T, h)
    BY <1>1, <1>2, <1>3, <1>4, AccountsAdd DEF Tally
  <1>6. /\ S.restores[h] \in Nat /\ M.restores[h] \in Nat /\ T.restores[h] \in Nat
        /\ S.removals[h] \in Nat /\ M.removals[h] \in Nat /\ T.removals[h] \in Nat
    BY <1>2, <1>4 DEF Sane, States
  <1>7. M.env[h] # None /\ M.removals[h] >= S.removals[h]
    BY <1>1, <1>2 DEF Exists, Tally, Accounts, Tends
  <1>8. Done(S, T, h)
    <2>1. Balanced(S, {}, T, {})
      BY <1>1, <1>3 DEF Done, Balanced
    <2>2. T.restores[h] >= S.restores[h]
      BY <1>1, <1>3, <1>6, <1>7 DEF Done
    <2>3. QED
      BY <1>3, <2>1, <2>2 DEF Done
  <1>9. Live(T) > Live(S) => T.env[h] # S.env[h] \/ T.removals[h] > S.removals[h]
    BY <1>1, <1>3, <1>6, <1>7
  <1>10. QED
    BY <1>5, <1>8, <1>9 DEF Tally, T, M

\* All commands but eat.
Handles(p, h, n) ==
    \/ Name(p, h, n)
    \/ Reveal(p, h, n)
    \/ \E allowed \in BOOLEAN :
          Get(p, h, n, allowed) \/ Drop(p, h, n, allowed) \/ Hide(p, h, n, allowed)

LEMMA CommandPlaces ==
    ASSUME Sound, NEW p \in Livings, NEW h \in Heaps, NEW n \in 0 .. MaxTotal, Command(p, h, n)
    PROVE  /\ Exists(State, h) /\ env[h] \in {p, Room} /\ env[h] \in Places
           /\ HasFree(State) /\ n \in Nat /\ p \in Places /\ Room \in Places /\ p # Room
  <1>1. HasFree(State) /\ n \in Nat
    BY HeapAssumption DEF Command, Free, HasFree, State
  <1>2. p \in Places /\ Room \in Places /\ None \notin Places /\ p # Room
    BY HeapAssumption DEF Places
  <1>3. Name(p, h, n) \/ Reveal(p, h, n) \/ (\E e \in 0 .. MaxTotal : Eat(p, h, n, e))
        \/ \E allowed \in BOOLEAN :
             Get(p, h, n, allowed) \/ Drop(p, h, n, allowed) \/ Hide(p, h, n, allowed)
    BY DEF Command
  <1>4. env[h] \in {p, Room}
    BY <1>3 DEF Name, Reveal, Eat, Get, Drop, Hide
  <1>5. QED
    BY <1>1, <1>2, <1>4 DEF Exists, State

LEMMA HandlesDone ==
    ASSUME Sound, NEW p \in Livings, NEW h \in Heaps, NEW n \in 0 .. MaxTotal,
           Command(p, h, n), Handles(p, h, n)
    PROVE  \E T : Becomes(T) /\ Done(Named(h, n), T, h) /\ Tally(Named(h, n), T, h)
                  /\ eaten' = eaten
  <1> DEFINE S == Named(h, n)
             Good(T) == Done(S, T, h) /\ Tally(S, T, h)
  <1>1. /\ Exists(State, h) /\ env[h] \in Places
        /\ HasFree(State) /\ n \in Nat /\ p \in Places /\ Room \in Places /\ p # Room
    BY CommandPlaces
  <1>2. Sane(S) /\ Buried(S) /\ Exists(S, h) /\ HasFree(S) /\ S.env = env
    BY <1>1, NamedFacts
  <1> HIDE DEF S
  <1>3. CASE Name(p, h, n)
    <2>1. Good(S)
      BY <1>2, NothingDone
    <2>2. QED
      BY <1>3, <2>1 DEF Name, S
  <1>4. CASE Reveal(p, h, n)
    <2>1. Good(ForceHeapMerge(SetHide(S, h, FALSE), h))
      BY <1>2, MergeDone DEF Tally
    <2>2. QED
      BY <1>4, <2>1 DEF Reveal, S
  <1>5. ASSUME NEW allowed \in BOOLEAN, Get(p, h, n, allowed)
        PROVE  \E T : Becomes(T) /\ Good(T) /\ eaten' = eaten
    <2> DEFINE M == Moved(S, h, p, allowed)
               U == ForceHeapMerge(SetHide(M, h, FALSE), h)
    <2>1. S.env[h] \in Places /\ S.env[h] # p
      BY <1>1, <1>2, <1>5 DEF Get
    <2>2. Good(M)
      BY <1>1, <1>2, <2>1, MovedDone
    <2>3. Good(U)
      BY <1>1, <1>2, <2>1, MovedMergeDone
    <2>4. (Becomes(M) \/ Becomes(U)) /\ eaten' = eaten
      BY <1>5 DEF Get, S
    <2> HIDE DEF Good, M, U
    <2>5. QED
      BY <2>2, <2>3, <2>4
  <1>6. ASSUME NEW allowed \in BOOLEAN, Drop(p, h, n, allowed) \/ Hide(p, h, n, allowed)
        PROVE  \E T : Becomes(T) /\ Good(T) /\ eaten' = eaten
    <2> DEFINE M == Moved(S, h, Room, allowed)
               U == ForceHeapMerge(SetHide(M, h, TRUE), h)
    <2>1. S.env[h] \in Places /\ S.env[h] # Room
      BY <1>1, <1>2, <1>6 DEF Drop, Hide
    <2>2. Good(M)
      BY <1>1, <1>2, <2>1, MovedDone
    <2>3. Good(U)
      BY <1>1, <1>2, <2>1, MovedMergeDone
    <2>4. (Becomes(M) \/ Becomes(U)) /\ eaten' = eaten
      BY <1>6 DEF Drop, Hide, S
    <2> HIDE DEF Good, M, U
    <2>5. QED
      BY <2>2, <2>3, <2>4
  <1>7. QED
    BY <1>3, <1>4, <1>5, <1>6 DEF Handles, S

\* Where eat hands h over to set_heap_size or remove_object.
LEMMA EatDone ==
    ASSUME Sound, NEW p \in Livings, NEW h \in Heaps, NEW n \in 0 .. MaxTotal,
           Command(p, h, n), NEW e \in 0 .. MaxTotal, Eat(p, h, n, e)
    PROVE  \E T : /\ Becomes(T) /\ Done(Named(h, n), T, h)
                  /\ Live(T) + e >= Live(State)
                  /\ Live(T) + e > Live(State) =>
                       /\ removals[h] > 0 \/ Num(State, h) < 0
                       /\ T.env[h] = None \/ T.count[h] # count[h]
  <1> DEFINE S == Named(h, n)
             T == IF e < Num(S, h) THEN SplitHeap(S, h, e) ELSE S
             c == count[h]
  <1>1. /\ Exists(State, h) /\ env[h] \in Places
        /\ HasFree(State) /\ n \in Nat /\ p \in Places /\ Room \in Places /\ p # Room
    BY CommandPlaces
  <1>2. /\ Sane(S) /\ Buried(S) /\ Exists(S, h) /\ HasFree(S) /\ S.env = env
        /\ Live(S) = Live(State)
        /\ S.count = count /\ S.removals = removals
        /\ S = State \/ S.leave[h] = IF c <= n THEN 0 ELSE c - n
    BY <1>1, NamedFacts
  <1>3. e \in Nat
    BY HeapAssumption
  <1>4. /\ IF Num(S, h) > 0 THEN 0 < e /\ e <= Num(S, h) ELSE e = 0
        /\ Becomes(IF T.leave[h] > 0 THEN SetHeapSize(T, h, T.leave[h]) ELSE RemoveObject(T, h))
    BY <1>3 DEF Eat
  <1>5. Num(S, h) = c - S.leave[h] /\ c \in Nat /\ S.leave[h] \in Nat /\ S.restores[h] \in Nat
    BY <1>2 DEF Num, Sane, States
  <1>6. Live(State) \in Int
    BY <1>2, LiveInt
  <1> HIDE DEF S
  <1>7. /\ Sane(T) /\ Buried(T) /\ Exists(T, h) /\ HasFree(T) /\ T.env = S.env
        /\ Balanced(S, {}, T, {}) /\ T.restores[h] >= S.restores[h]
        /\ Live(T) = Live(State) /\ T.count = S.count /\ T.removals = S.removals
        /\ T.leave[h] = IF e < Num(S, h) THEN c - e ELSE S.leave[h]
    <2>1. CASE e < Num(S, h)
      <3>1. T = SplitHeap(S, h, e) /\ S.count[h] > e
        BY <1>2, <1>3, <1>5, <2>1
      <3> HIDE DEF T
      <3>2. Sane(T) /\ T.env = S.env
        BY <1>2, <1>3, <3>1, SplitHeapSane
      <3>3. Live(T) = Live(S) /\ Buried(T)
        BY <1>1, <1>2, <1>3, <3>1, SplitHeapAccounts
      <3>4. Balanced(S, {}, T, {})
        BY <1>2, <1>3, <3>1, SplitHeapBook DEF Balanced
      <3>5. T.restores[h] >= S.restores[h]
        BY <1>2, <3>1, SplitHeapWaits DEF Waits
      <3>6. /\ T.count = S.count /\ T.removals = S.removals
            /\ T.leave = [S.leave EXCEPT ![h] = IF S.count[h] <= e THEN 0 ELSE S.count[h] - e]
        BY <1>2, <3>1, SplitHeapFacts
      <3>7. T.leave[h] = c - e
        <4>1. ~(S.count[h] <= e)
          BY <1>2, <1>3, <1>5, <3>1
        <4>2. QED
          BY <1>2, <3>6, <4>1 DEF Sane, States
      <3>8. QED
        BY <1>2, <2>1, <3>2, <3>3, <3>4, <3>5, <3>6, <3>7 DEF Exists, HasFree
    <2>2. CASE ~(e < Num(S, h))
      BY <1>2, <1>5, <2>2 DEF Balanced
    <2>3. QED
      BY <2>1, <2>2
  <1> DEFINE l == T.leave[h]
             U == SetHeapSize(T, h, l)
             R == RemoveObject(T, h)
  <1>8. l \in Nat /\ T.removals[h] = removals[h] /\ removals[h] \in Nat
    BY <1>2, <1>7 DEF Sane, States
  <1>9. /\ l = IF e < Num(S, h) THEN c - e ELSE S.leave[h]
        /\ Becomes(IF l > 0 THEN U ELSE R)
    BY <1>4, <1>7
  <1>10. Alive(T, h) = IF removals[h] > 0 THEN 0 ELSE c
    BY <1>2, <1>7, <1>8 DEF Alive
  <1> HIDE DEF T
  <1>11. CASE l > 0
    <2> HIDE DEF l
    <2>1. Resized(T, U, h, l) /\ Sane(U) /\ U.env = T.env
      BY <1>7, <1>8, SetHeapSizeFacts, SetHeapSizeSane
    <2>2. Balanced(T, {}, U, {})
      BY <1>7, <1>8, SetHeapSizeBook
    <2> HIDE DEF U
    <2>3. \A x \in Heaps : /\ U.removals[x] = T.removals[x] + 0
                           /\ U.dying[x] <=> T.dying[x]
                           /\ U.leave[x] = T.leave[x]
                           /\ U.count[x] = IF x = h THEN l ELSE T.count[x]
      BY <1>8, <1>11, <2>1 DEF Resized, Size
    <2>4. \A x \in Heaps : U.removals[x] = T.removals[x]
      BY <1>7, <2>3 DEF Sane, States
    <2>5. Buried(U)
      BY <1>7, <2>1, <2>3, <2>4 DEF Buried
    <2>6. Done(S, U, h)
      BY <1>7, <2>1, <2>2, <2>5 DEF Done, Balanced, Resized
    <2>7. Live(U) = Live(T) + (Alive(U, h) - Alive(T, h))
      <3>1. \A x \in Heaps \ {h} : Alive(U, x) = Alive(T, x)
        BY <2>3, <2>4 DEF Alive
      <3>2. QED
        BY <1>7, <2>1, <3>1, LiveChange
    <2>8. Alive(U, h) = IF removals[h] > 0 THEN 0 ELSE l
      BY <1>8, <2>3, <2>4 DEF Alive
    <2>9. U.count[h] = l
      BY <2>3
    <2>10. S = State => Num(State, h) = c - S.leave[h]
      BY <1>5
    <2>11. Live(U) + e >= Live(State)
      BY <1>2, <1>3, <1>4, <1>5, <1>6, <1>7, <1>8, <1>9, <1>10, <2>7, <2>8
    <2>12. ASSUME Live(U) + e > Live(State)
           PROVE  (removals[h] > 0 \/ Num(State, h) < 0) /\ U.count[h] # c
      <3>1. CASE removals[h] > 0
        BY <1>3, <1>4, <1>5, <1>6, <1>7, <1>8, <1>9, <1>10, <2>7, <2>8, <2>9, <2>12, <3>1
      <3>2. CASE ~(removals[h] > 0)
        <4>1. Live(U) = Live(State) + (l - c)
          BY <1>6, <1>7, <1>10, <2>7, <2>8, <3>2
        <4>2. l - c + e > 0
          BY <1>3, <1>5, <1>6, <1>8, <2>12, <4>1
        <4>3. ~(e < Num(S, h)) /\ l = S.leave[h]
          BY <1>3, <1>5, <1>9, <4>2
        <4>4. e = 0 /\ l > c /\ Num(S, h) < 0
          BY <1>3, <1>4, <1>5, <4>2, <4>3
        <4>5. S = State
          BY <1>1, <1>2, <1>5, <1>8, <1>11, <4>3, <4>4
        <4>6. QED
          BY <1>5, <1>8, <2>9, <4>4, <4>5
      <3>3. QED
        BY <3>1, <3>2
    <2>13. Becomes(U)
      BY <1>9, <1>11
    <2>14. QED
      BY <2>6, <2>11, <2>12, <2>13 DEF S
  <1>12. CASE ~(l > 0)
    <2>1. l = 0 /\ T.leave[h] = 0
      BY <1>8, <1>12
    <2>2. Balanced(T, {}, R, {}) /\ R.env[h] = None
      BY <1>7, <2>1, RemoveObjectBook
    <2>3. Buried(R) /\ Live(R) = Live(T) - Alive(T, h)
      BY <1>7, <2>1, RemoveObjectAccounts
    <2>4. Sane(R)
      BY <1>7, <2>1, RemoveObjectSane
    <2> HIDE DEF R, l
    <2>5. Done(S, R, h)
      BY <1>7, <2>2, <2>3, <2>4 DEF Done, Balanced
    <2>6. e = c
      BY <1>3, <1>4, <1>5, <1>9, <2>1
    <2>7. Live(R) = Live(State) - (IF removals[h] > 0 THEN 0 ELSE c)
      BY <1>7, <1>10, <2>3
    <2>8. /\ Live(R) + e >= Live(State)
          /\ Live(R) + e > Live(State) => removals[h] > 0
      BY <1>5, <1>6, <2>6, <2>7
    <2>9. Becomes(R)
      BY <1>9, <1>12
    <2>10. QED
      BY <2>2, <2>5, <2>8, <2>9 DEF S
  <1>13. QED
    BY <1>11, <1>12

LEMMA RestoreDone ==
    ASSUME Sound, NEW h \in Heaps, Restore(h)
    PROVE  \E T : /\ Becomes(T) /\ Sane(T) /\ Buried(T) /\ Balanced(State, {}, T, {})
                  /\ Live(T) = Live(State)
  <1> DEFINE R == RestoreHeap(State, h)
             T == [R EXCEPT !.restores[h] = @ - 1]
  <1>1. Sane(State) /\ Buried(State) /\ Exists(State, h) /\ State.restores[h] > 0
    BY DEF Sound, IInv, Restore, State, Sane, Exists
  <1>2. Sane(R) /\ Sane(T)
    BY <1>1, RestoreHeapSane, RestoreSane
  <1>3. /\ R.count = State.count /\ R.removals = State.removals /\ R.dying = State.dying
        /\ R.env = State.env /\ R.leave = [State.leave EXCEPT ![h] = 0]
    BY <1>1 DEF Sane, States, Exists, RestoreHeap, Resize, Credit
  <1>4. Balanced(State, {}, R, {})
    <2>1. State.count[h] \in Nat
      BY <1>1 DEF Sane, States
    <2> DEFINE X == {}
               l == 0
    <2>2. l \in Nat /\ h \notin X /\ ~(l > 0)
      OBVIOUS
    <2> HIDE DEF X, l
    <2>3. Balanced(State, X, Resize(State, h, State.count[h], l), X)
      BY <1>1, <2>1, <2>2, ResizeBook
    <2>4. QED
      BY <2>3 DEF RestoreHeap, X, l
  <1> HIDE DEF R
  <1>5. /\ T.count = R.count /\ T.removals = R.removals /\ T.dying = R.dying
        /\ T.env = R.env /\ T.leave = R.leave /\ T.held = R.held
    BY <1>2 DEF Sane, States
  <1>6. Becomes(T)
    BY DEF Restore, R
  <1> HIDE DEF T
  <1>7. Balanced(R, {}, T, {})
    BY <1>2, <1>5, BookKept DEF Share
  <1>8. Balanced(State, {}, T, {})
    BY <1>4, <1>7 DEF Balanced
  <1>9. \A x \in Heaps : Alive(T, x) = Alive(State, x)
    BY <1>3, <1>5 DEF Alive
  <1>10. Live(T) = Live(State)
    BY <1>9, LiveSame
  <1>11. Buried(T)
    <2>1. \A x \in Heaps : State.leave[x] = 0 => T.leave[x] = 0
      BY <1>1, <1>3, <1>5 DEF Sane, States
    <2>2. QED
      BY <1>1, <1>3, <1>5, <2>1 DEF Buried
  <1>12. QED
    BY <1>2, <1>6, <1>8, <1>10, <1>11

LEMMA RemoveDone ==
    ASSUME Sound, NEW h \in Heaps, Remove(h)
    PROVE  \E T : /\ Becomes(T) /\ Sane(T) /\ Buried(T) /\ Balanced(State, {}, T, {})
                  /\ T.env[h] = None /\ env[h] # None /\ removals[h] > 0
                  /\ Live(T) < Live(State) =>
                       \E t \in Heaps : /\ leave[t] > 0 /\ ~dying[t] /\ T.env[t] = env[t]
                                        /\ \E x \in Heaps \ {t} : T.removals[x] > removals[x]
                  /\ Live(T) > Live(State) => env[h] \in Places
  <1> DEFINE T == RemoveObject(State, h)
  <1>1. /\ State.env = env /\ State.leave = leave /\ State.dying = dying
        /\ State.removals = removals
    BY DEF State
  <1>2. Sane(State) /\ Buried(State) /\ Exists(State, h) /\ State.removals[h] > 0
    BY DEF Sound, IInv, Remove, State, Sane, Exists
  <1>3. State.leave[h] > 0 => HasFree(State) /\ State.dying[h]
    BY <1>1, <1>2 DEF Remove, Free, HasFree, Buried
  <1>4. Sane(T)
    BY <1>2, <1>3, RemoveObjectSane
  <1>5. Balanced(State, {}, T, {}) /\ T.env[h] = None
    BY <1>2, <1>3, RemoveObjectBook
  <1>6. /\ Buried(T)
        /\ Live(T) < Live(State) =>
             \E t \in Heaps : /\ State.leave[t] > 0 /\ ~State.dying[t]
                              /\ T.env[t] = State.env[t]
                              /\ \E x \in Heaps \ {t} : T.removals[x] > State.removals[x]
        /\ Live(T) > Live(State) => State.env[h] \in Places
    BY <1>2, <1>3, RemoveObjectAccounts
  <1>7. Becomes(T)
    BY DEF Remove
  <1> HIDE DEF T
  <1>8. QED
    BY <1>1, <1>2, <1>4, <1>5, <1>6, <1>7 DEF Exists

\* What follows from the state that a step becomes.
LEMMA BecomesSound ==
    ASSUME NEW T, Sane(T), Buried(T), Becomes(T), eaten' \in Nat
    PROVE  /\ Sound'
           /\ \A q \in Livings : Drift(q)' = Book(T, q, {})
           /\ Total' = eaten' + Live(T)
  <1>1. State' = T
    BY BecomesState DEF Sane
  <1>2. IInv'
    BY BecomesSane
  <1>3. Buried(State)'
    BY <1>1 DEF Buried
  <1>4. (\A q \in Livings : Drift(q) = Book(State, q, {}))'
    BY DriftIsBook, PTL
  <1>5. (Total = eaten + Live(State))'
    BY TotalIsLive, PTL
  <1>6. QED
    BY <1>1, <1>2, <1>3, <1>4, <1>5 DEF Sound

LEMMA InitSound == ASSUME Init PROVE Sound
  <1>1. PICK h \in Heaps :
          /\ env = [x \in Heaps |-> IF x = h THEN Room ELSE None]
          /\ removals = [x \in Heaps |-> 0]
    BY DEF Init
  <1>2. \A x \in Heaps : removals[x] = 0 /\ ~(env[x] \in Heaps)
    BY <1>1, HeapAssumption
  <1>3. Buried(State)
    BY <1>2 DEF Buried, State
  <1>4. QED
    BY <1>3, InitSane DEF Sound

\* A command, whichever it is.
LEMMA CommandDone ==
    ASSUME Sound, NEW p \in Livings, NEW h \in Heaps, NEW n \in 0 .. MaxTotal,
           Command(p, h, n)
    PROVE  \E T : Becomes(T) /\ Done(Named(h, n), T, h)
  <1>1. CASE Handles(p, h, n)
    BY <1>1, HandlesDone
  <1>2. ASSUME NEW e \in 0 .. MaxTotal, Eat(p, h, n, e)
        PROVE  \E T : Becomes(T) /\ Done(Named(h, n), T, h)
    BY <1>2, EatDone
  <1>3. QED
    BY <1>1, <1>2 DEF Command, Handles

LEMMA NextSound == ASSUME Sound, [Next]_vars PROVE Sound'
  <1>1. IInv'
    BY NextSane DEF Sound
  <1>2. eaten' \in Nat
    BY <1>1 DEF IInv
  <1>3. CASE UNCHANGED vars
    BY <1>1, <1>3 DEF Sound, Buried, State, vars
  <1>4. ASSUME NEW p \in Livings, NEW h \in Heaps, NEW n \in 0 .. MaxTotal, Command(p, h, n)
        PROVE  Sound'
    BY <1>2, <1>4, CommandDone, BecomesSound DEF Done
  <1>5. ASSUME NEW h \in Heaps, Restore(h)
        PROVE  Sound'
    BY <1>2, <1>5, RestoreDone, BecomesSound
  <1>6. ASSUME NEW h \in Heaps, Remove(h)
        PROVE  Sound'
    BY <1>2, <1>6, RemoveDone, BecomesSound
  <1>7. QED
    BY <1>3, <1>4, <1>5, <1>6 DEF Next

\* A step that becomes T with balanced books leaves every Drift as it was.
LEMMA BalancedDrift ==
    ASSUME NEW T, Sane(T), Buried(T), Becomes(T), eaten' \in Nat,
           Balanced(State, {}, T, {}), NEW q \in Livings
    PROVE  Drift(q)' = Drift(q)
  BY BecomesSound, DriftIsBook DEF Balanced

LEMMA CommandDrift ==
    ASSUME Sound, NEW p \in Livings, NEW h \in Heaps, NEW n \in 0 .. MaxTotal,
           Command(p, h, n), NEW q \in Livings, Drift(q)' # Drift(q)
    PROVE  /\ env[h] = q /\ leave[h] > 0
           /\ env'[h] = None \/ restores'[h] >= restores[h]
  <1> DEFINE S == Named(h, n)
  <1>1. PICK T : Becomes(T) /\ Done(S, T, h)
    BY CommandDone
  <1>2. /\ Sane(S) /\ Waits(State, S)
        /\ \A r \in Livings : Book(S, r, {}) # Book(State, r, {}) => env[h] = r /\ leave[h] > 0
    BY CommandPlaces, NamedFacts
  <1> HIDE DEF S
  <1>3. eaten' \in Nat
    BY NextSane DEF Next, Sound, IInv
  <1>4. Sane(T) /\ Buried(T) /\ Balanced(S, {}, T, {})
        /\ (T.env[h] = None \/ T.restores[h] >= S.restores[h])
    BY <1>1 DEF Done
  <1>5. Drift(q)' = Book(T, q, {}) /\ Drift(q) = Book(State, q, {})
    BY <1>1, <1>3, <1>4, BecomesSound, DriftIsBook
  <1>6. Book(S, q, {}) # Book(State, q, {})
    BY <1>4, <1>5 DEF Balanced
  <1>7. S.restores[h] >= restores[h] /\ S.restores[h] \in Nat /\ T.restores[h] \in Nat
        /\ restores[h] \in Nat
    BY <1>2, <1>4 DEF Waits, State, Sane, States, Sound, IInv
  <1>8. env' = T.env /\ restores' = T.restores
    BY <1>1 DEF Becomes
  <1>9. QED
    BY <1>2, <1>4, <1>6, <1>7, <1>8

\* The books of a living: no sequence of commands and call-outs, of whomever, makes
\* what a living is thought to carry depart from what it carries, but for a command
\* that names all of a heap whose split is still pending (split_heap then updates no
\* account); undoing a split, moving, merging and destructing heaps never do.
THEOREM HeapDriftNeedsSplit == Spec => DriftNeedsSplit
  <1> DEFINE Needs == \A p \in Livings : Drift(p)' # Drift(p) =>
                         \E h \in Heaps : /\ env[h] = p /\ leave[h] > 0
                                          /\ env'[h] = None \/ restores'[h] >= restores[h]
  <1>1. ASSUME Sound, Next, NEW q \in Livings, Drift(q)' # Drift(q)
        PROVE  \E h \in Heaps : /\ env[h] = q /\ leave[h] > 0
                                /\ env'[h] = None \/ restores'[h] >= restores[h]
    <2>1. eaten' \in Nat
      BY <1>1, NextSane DEF Sound, IInv
    <2>2. ASSUME NEW h \in Heaps
          PROVE  ~Restore(h) /\ ~Remove(h)
      BY <1>1, <2>1, RestoreDone, RemoveDone, BalancedDrift
    <2>3. PICK p \in Livings, h \in Heaps, n \in 0 .. MaxTotal : Command(p, h, n)
      BY <1>1, <2>2 DEF Next
    <2>4. QED
      BY <1>1, <2>3, CommandDrift
  <1>2. ASSUME UNCHANGED vars, NEW q \in Livings
        PROVE  Drift(q)' = Drift(q)
    BY <1>2 DEF Drift, Weight, Num, State, vars
  <1>3. Sound /\ [Next]_vars => [Needs]_vars
    BY <1>1, <1>2
  <1>4. QED
    BY <1>3, InitSound, NextSound, PTL DEF Spec, DriftNeedsSplit

\* The two halves of TotalIsExplained, of one step.
Lost ==
    \E t \in Heaps : /\ leave[t] > 0 /\ ~dying[t] /\ env'[t] = env[t]
                     /\ \E h \in Heaps \ {t} : removals'[h] > removals[h]
Gained(h) ==
    /\ env[h] \in Places
    /\ Doomed(h) \/ Num(State, h) < 0
    /\ <<env'[h], count'[h], removals'[h]>> # <<env[h], count[h], removals[h]>>

LEMMA HandlesTotal ==
    ASSUME Sound, NEW p \in Livings, NEW h \in Heaps, NEW n \in 0 .. MaxTotal,
           Command(p, h, n), Handles(p, h, n)
    PROVE  (Total' < Total => Lost) /\ (Total' > Total => Gained(h))
  <1> DEFINE S == Named(h, n)
  <1>1. PICK T : Becomes(T) /\ Done(S, T, h) /\ Tally(S, T, h) /\ eaten' = eaten
    BY HandlesDone
  <1>2. /\ Sane(S) /\ S.env = env /\ S.removals = removals
        /\ Accounts(State, S, h) /\ Live(S) = Live(State)
        /\ Waiting(S, h) => Waiting(State, h)
    BY CommandPlaces, NamedFacts
  <1> HIDE DEF S
  <1>3. Sane(State) /\ eaten \in Nat
    BY DEF Sound, IInv
  <1>4. Sane(T) /\ Buried(T)
    BY <1>1 DEF Done
  <1>5. Accounts(State, T, h)
    BY <1>1, <1>2, <1>3, <1>4, AccountsAdd DEF Tally
  <1>6. Total' = eaten + Live(T) /\ Total = eaten + Live(State)
    BY <1>1, <1>3, <1>4, BecomesSound, TotalIsLive
  <1>7. Live(T) \in Int /\ Live(State) \in Int
    BY <1>3, <1>4, LiveInt
  <1>8. env' = T.env /\ removals' = T.removals
    BY <1>1 DEF Becomes
  <1>9. /\ State.env = env /\ State.leave = leave /\ State.dying = dying
        /\ State.removals = removals
    BY DEF State
  <1>10. ASSUME Total' < Total
         PROVE  Lost
    <2>1. Overrun(State, T, h)
      BY <1>3, <1>5, <1>6, <1>7, <1>10 DEF Accounts
    <2>2. PICK t \in Heaps \ {h} : /\ env[t] # None /\ leave[t] > 0 /\ ~dying[t]
                                   /\ \E x \in Heaps \ {t} : T.removals[x] > removals[x]
      BY <1>9, <2>1 DEF Overrun
    <2>3. T.env[t] = env[t]
      BY <1>5, <1>9, <2>2 DEF Accounts, Tends
    <2>4. QED
      BY <1>8, <2>2, <2>3 DEF Lost
  <1>11. ASSUME Total' > Total
         PROVE  Gained(h)
    <2>1. Waiting(State, h) /\ Live(T) > Live(S)
      BY <1>2, <1>3, <1>5, <1>6, <1>7, <1>11 DEF Accounts
    <2>2. T.env[h] # S.env[h] \/ T.removals[h] > S.removals[h]
      BY <1>1, <2>1 DEF Tally
    <2>3. removals[h] \in Nat
      BY <1>3, <1>9 DEF Sane, States
    <2>4. env'[h] # env[h] \/ removals'[h] # removals[h]
      BY <1>2, <1>8, <2>2, <2>3
    <2>5. QED
      BY <1>9, <2>1, <2>4 DEF Gained, Waiting, Doomed
  <1>12. QED
    BY <1>10, <1>11

LEMMA EatTotal ==
    ASSUME Sound, NEW p \in Livings, NEW h \in Heaps, NEW n \in 0 .. MaxTotal,
           Command(p, h, n), NEW e \in 0 .. MaxTotal, Eat(p, h, n, e)
    PROVE  ~(Total' < Total) /\ (Total' > Total => Gained(h))
  <1>1. PICK T : /\ Becomes(T) /\ Done(Named(h, n), T, h)
                 /\ Live(T) + e >= Live(State)
                 /\ Live(T) + e > Live(State) =>
                      /\ removals[h] > 0 \/ Num(State, h) < 0
                      /\ T.env[h] = None \/ T.count[h] # count[h]
    BY EatDone
  <1>2. Sane(State) /\ eaten \in Nat /\ e \in Nat
    BY HeapAssumption DEF Sound, IInv
  <1>3. eaten' = eaten + e
    BY DEF Eat
  <1>4. Sane(T) /\ Buried(T)
    BY <1>1 DEF Done
  <1>5. Total' = eaten' + Live(T) /\ Total = eaten + Live(State)
    BY <1>1, <1>2, <1>3, <1>4, BecomesSound, TotalIsLive
  <1>6. Live(T) \in Int /\ Live(State) \in Int
    BY <1>2, <1>4, LiveInt
  <1>7. ~(Total' < Total) /\ (Total' > Total => Live(T) + e > Live(State))
    BY <1>1, <1>2, <1>3, <1>5, <1>6
  <1>8. env' = T.env /\ count' = T.count
    BY <1>1 DEF Becomes
  <1>9. env[h] \in Places /\ env[h] # None
    BY CommandPlaces DEF Exists, State
  <1>10. ASSUME Total' > Total
         PROVE  Gained(h)
    <2>1. /\ removals[h] > 0 \/ Num(State, h) < 0
          /\ T.env[h] = None \/ T.count[h] # count[h]
      BY <1>1, <1>7, <1>10
    <2>2. env'[h] # env[h] \/ count'[h] # count[h]
      BY <1>8, <1>9, <2>1
    <2>3. QED
      BY <1>9, <2>1, <2>2 DEF Gained, Doomed
  <1>11. QED
    BY <1>7, <1>10

LEMMA RestoreTotal ==
    ASSUME Sound, NEW h \in Heaps, Restore(h)
    PROVE  Total' = Total
  <1>1. PICK T : Becomes(T) /\ Sane(T) /\ Buried(T) /\ Live(T) = Live(State)
    BY RestoreDone
  <1>2. eaten' = eaten /\ eaten \in Nat
    BY DEF Restore, Sound, IInv
  <1>3. QED
    BY <1>1, <1>2, BecomesSound, TotalIsLive

LEMMA RemoveTotal ==
    ASSUME Sound, NEW h \in Heaps, Remove(h)
    PROVE  (Total' < Total => Lost) /\ (Total' > Total => Gained(h))
  <1>1. PICK T :
          /\ Becomes(T) /\ Sane(T) /\ Buried(T)
          /\ T.env[h] = None /\ env[h] # None /\ removals[h] > 0
          /\ Live(T) < Live(State) =>
               \E t \in Heaps : /\ leave[t] > 0 /\ ~dying[t] /\ T.env[t] = env[t]
                                /\ \E x \in Heaps \ {t} : T.removals[x] > removals[x]
          /\ Live(T) > Live(State) => env[h] \in Places
    BY RemoveDone
  <1>2. eaten' = eaten /\ eaten \in Nat /\ Sane(State)
    BY DEF Remove, Sound, IInv
  <1>3. Total' = eaten + Live(T) /\ Total = eaten + Live(State)
    BY <1>1, <1>2, BecomesSound, TotalIsLive
  <1>4. Live(T) \in Int /\ Live(State) \in Int
    BY <1>1, <1>2, LiveInt
  <1>5. env' = T.env /\ removals' = T.removals
    BY <1>1 DEF Becomes
  <1>6. Total' < Total => Lost
    BY <1>1, <1>2, <1>3, <1>4, <1>5 DEF Lost
  <1>7. Total' > Total => Gained(h)
    BY <1>1, <1>2, <1>3, <1>4, <1>5 DEF Gained, Doomed
  <1>8. QED
    BY <1>6, <1>7

\* The account of the items: with those eaten, they are as many after a step as
\* before it, unless a heap with a pending split took in another (the items it was
\* to leave behind are gone), or a heap that awaits its destruction, or that counts
\* fewer than none, was handled once more (its items then count twice).
THEOREM HeapTotalIsExplained == Spec => TotalIsExplained
  <1> DEFINE Explained == /\ Total' < Total => Lost
                          /\ Total' > Total => \E h \in Heaps : Gained(h)
  <1>1. ASSUME Sound, Next
        PROVE  Explained
    <2>1. ASSUME NEW h \in Heaps, Restore(h)
          PROVE  Explained
      <3>1. Total' = Total /\ Total \in Int
        <4>1. Total = eaten + Live(State) /\ eaten \in Nat /\ Live(State) \in Int
          BY <1>1, TotalIsLive, LiveInt DEF Sound, IInv
        <4>2. QED
          BY <1>1, <2>1, <4>1, RestoreTotal
      <3>2. QED
        BY <3>1
    <2>2. ASSUME NEW h \in Heaps, Remove(h)
          PROVE  Explained
      BY <1>1, <2>2, RemoveTotal
    <2>3. ASSUME NEW p \in Livings, NEW h \in Heaps, NEW n \in 0 .. MaxTotal, Command(p, h, n)
          PROVE  Explained
      <3>1. CASE Handles(p, h, n)
        BY <1>1, <2>3, <3>1, HandlesTotal
      <3>2. ASSUME NEW e \in 0 .. MaxTotal, Eat(p, h, n, e)
            PROVE  Explained
        BY <1>1, <2>3, <3>2, EatTotal
      <3>3. QED
        BY <2>3, <3>1, <3>2 DEF Command, Handles
    <2>4. QED
      BY <1>1, <2>1, <2>2, <2>3 DEF Next
  <1>2. Sound /\ [Next]_vars => [Explained]_vars
    BY <1>1
  <1>3. Explained => (/\ Total' < Total =>
                           \E t \in Heaps : /\ leave[t] > 0 /\ ~dying[t] /\ env'[t] = env[t]
                                            /\ \E h \in Heaps \ {t} : removals'[h] > removals[h]
                      /\ Total' > Total =>
                           \E h \in Heaps : /\ env[h] \in Places
                                            /\ Doomed(h) \/ Num(State, h) < 0
                                            /\ <<env'[h], count'[h], removals'[h]>>
                                                 # <<env[h], count[h], removals[h]>>)
    BY DEF Lost, Gained
  <1>4. QED
    BY <1>2, <1>3, InitSound, NextSound, PTL DEF Spec, TotalIsExplained
=============================================================================
