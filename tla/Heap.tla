-------------------------------- MODULE Heap --------------------------------
(***************************************************************************)
(* Heaps: one object that stands for many alike (std/heap.c).              *)
(*                                                                         *)
(* A command that names some of the items of a heap calls split_heap,      *)
(* which only notes how many are to be left behind: the weight of the heap *)
(* changes at once, the heap itself when it is moved (a clone is left with *)
(* the rest), and if it is not moved the call-out restore_heap undoes the  *)
(* split.  A heap that arrives beside one of its kind adds its items to it *)
(* and is destructed by another call-out.  The driver executes one command *)
(* or one call-out at a time, so each is an action; the commands of other  *)
(* livings come between a command and the call-outs it issued.             *)
(*                                                                         *)
(* All heaps here are of one kind (HEAP_S_UNIQUE_ID), an item weighs 1,    *)
(* OBJ_I_HIDE stands for itself and OBJ_I_INVIS, and a command names one   *)
(* heap.  The livings stand in one room and each other's inventories are   *)
(* closed to them.                                                         *)
(***************************************************************************)
EXTENDS Integers, FiniteSets, FiniteSetsExt

CONSTANTS
    Heaps,      \* identities of heap objects, used again once destructed
    Livings,    \* the livings who handle them
    Room,       \* the room they stand in
    None,       \* no environment: no such object
    Items,      \* the number of items at first
    Capacity,   \* CONT_I_MAX_WEIGHT of each living, less its own weight
    MaxTotal,   \* bound: items there may come to be
    MaxDrift,   \* bound: by how much held may come to be wrong
    MaxCalls    \* bound: call-outs outstanding after a command

ASSUME HeapAssumption ==
    /\ Heaps # {} /\ IsFiniteSet(Heaps)
    /\ Items \in Nat \ {0}
    /\ Capacity \in Nat
    /\ {MaxTotal, MaxDrift, MaxCalls} \subseteq Nat
    /\ Room \notin Livings \cup Heaps
    /\ None \notin Livings \cup Heaps \cup {Room}
    /\ Livings \cap Heaps = {}

Places == Livings \cup {Room}

VARIABLES
    env,        \* env[h]: environment(h), None while h does not exist
    count,      \* count[h]: item_count
    leave,      \* leave[h]: leave_behind
    hide,       \* hide[h]: OBJ_I_HIDE is set
    dying,      \* dying[h]: TEMP_OBJ_ABOUT_TO_DESTRUCT is set
    restores,   \* restores[h]: call-outs of restore_heap that are due
    removals,   \* removals[h]: call-outs of remove_object that are due
    held,       \* held[p]: the weight of its inventory in the books of p
    eaten       \* the items eaten so far

vars == <<env, count, leave, hide, dying, restores, removals, held, eaten>>

TypeOK ==
    /\ env \in [Heaps -> Places \cup Heaps \cup {None}]
    /\ count \in [Heaps -> Nat]
    /\ leave \in [Heaps -> Nat]
    /\ hide \in [Heaps -> BOOLEAN]
    /\ dying \in [Heaps -> BOOLEAN]
    /\ restores \in [Heaps -> Nat]
    /\ removals \in [Heaps -> Nat]
    /\ held \in [Livings -> Int]
    /\ eaten \in Nat
    /\ \A h \in Heaps : env[h] = None =>
         count[h] = 0 /\ leave[h] = 0 /\ restores[h] = 0 /\ removals[h] = 0

Init ==
    \E h \in Heaps :
        /\ env = [x \in Heaps |-> IF x = h THEN Room ELSE None]
        /\ count = [x \in Heaps |-> IF x = h THEN Items ELSE 0]
        /\ leave = [x \in Heaps |-> 0]
        /\ hide = [x \in Heaps |-> FALSE]
        /\ dying = [x \in Heaps |-> FALSE]
        /\ restores = [x \in Heaps |-> 0]
        /\ removals = [x \in Heaps |-> 0]
        /\ held = [p \in Livings |-> 0]
        /\ eaten = 0

-----------------------------------------------------------------------------
(***************************************************************************)
(* The functions of the heap, from a state S of all heaps to the next.     *)
(***************************************************************************)

State == [env |-> env, count |-> count, leave |-> leave, hide |-> hide,
          dying |-> dying, restores |-> restores, removals |-> removals,
          held |-> held]

\* The end of a command: S is the new state, within the bound on call-outs.
Becomes(S) ==
    /\ env' = S.env
    /\ count' = S.count
    /\ leave' = S.leave
    /\ hide' = S.hide
    /\ dying' = S.dying
    /\ restores' = S.restores
    /\ removals' = S.removals
    /\ held' = S.held

\* num_heap, which is also the weight.
Num(S, h) == S.count[h] - S.leave[h]

\* update_internal of an environment: heaps keep no account of their contents.
Credit(S, p, d) == [S EXCEPT !.held = [q \in Livings |-> IF q = p THEN @[q] + d ELSE @[q]]]

\* mark_state, new values of item_count and leave_behind, update_state.
Resize(S, h, n, l) ==
    Credit([S EXCEPT !.count[h] = n, !.leave[h] = l], S.env[h], (n - l) - Num(S, h))

Doom(S, h) == [S EXCEPT !.dying[h] = TRUE, !.removals[h] = @ + 1]

\* Mutant of RestoreHeap: the state is not updated.
RestoreQuietly(S, h) == [S EXCEPT !.leave[h] = 0]

RestoreHeap(S, h) == Resize(S, h, S.count[h], 0)

SetHeapSize(S, h, n) ==
    IF n <= 0 THEN Doom(Resize(S, h, 0, 0), h) ELSE Resize(S, h, n, S.leave[h])

\* Mutants of SplitHeap: more items can be named than there are; the call-out
\* is forgotten.
SplitHeapAlways(S, h, n) ==
    Resize([S EXCEPT !.restores[h] = @ + 1], h, S.count[h], S.count[h] - n)
SplitHeapForGood(S, h, n) ==
    IF S.count[h] <= n THEN S ELSE Resize(S, h, S.count[h], S.count[h] - n)

\* split_heap: the account is not updated when the whole heap will be moved.
SplitHeap(S, h, n) ==
    IF S.count[h] <= n
    THEN [S EXCEPT !.leave[h] = 0]
    ELSE Resize([S EXCEPT !.restores[h] = @ + 1], h, S.count[h], S.count[h] - n)

\* The heaps in p that h would merge with; NoTwins says that there is at most one.
Twins(S, h, p) ==
    {t \in Heaps \ {h} : S.env[t] = p /\ S.hide[t] = S.hide[h] /\ ~S.dying[t]}

\* Mutant of Enter: no merging.
EnterBeside(S, h, p) == Credit(S, p, Num(S, h))

\* enter_env and enter_inv, once h is in p: into the twin, or beside the others.
Enter(S, h, p) ==
    IF Twins(S, h, p) = {}
    THEN Credit(S, p, Num(S, h))
    ELSE LET t == CHOOSE t \in Twins(S, h, p) : TRUE
             M == SetHeapSize(S, t, S.count[h] + Num(S, t))
         IN Doom([M EXCEPT !.leave[h] = 0, !.env[h] = t], h)

\* The clone that make_leftover_heap makes.
Fresh(S) == CHOOSE h \in Heaps : S.env[h] = None

\* Mutant of Leave: no clone is made.
LeaveNothing(S, h, p) ==
    Credit([S EXCEPT !.count[h] = @ - S.leave[h], !.leave[h] = 0], p, - Num(S, h))

\* leave_env and leave_inv: the clone left in p has the properties of h.
Leave(S, h, p) ==
    LET f == Fresh(S)
        L == [S EXCEPT !.count[h] = @ - S.leave[h], !.leave[h] = 0,
                       !.env[f] = p, !.count[f] = S.leave[h],
                       !.hide[f] = S.hide[h], !.dying[f] = S.dying[h]]
    IN Credit(IF 0 < S.leave[h] /\ S.leave[h] < S.count[h] THEN Enter(L, f, p) ELSE S,
              p, - Num(S, h))

\* move, once it has been allowed.
Relocate(S, h, p) ==
    Enter(Leave([S EXCEPT !.env[h] = p], h, S.env[h]), h, p)

\* What move splits off for a living p that cannot carry all of h.
Spare(S, p) == Capacity - S.held[p]
Fits(S, h, p) == p = Room \/ Num(S, h) <= Spare(S, p) \/ 1 <= Spare(S, p)
Fit(S, h, p) ==
    IF p # Room /\ Num(S, h) > Spare(S, p) THEN SplitHeap(S, h, Spare(S, p)) ELSE S

\* move to p: refused as too heavy, refused by prevent_leave or prevent_enter
\* when a split has been made already, or done.
Moved(S, h, p, allowed) ==
    IF ~Fits(S, h, p) THEN S
    ELSE IF allowed THEN Relocate(Fit(S, h, p), h, p) ELSE Fit(S, h, p)
Moves(S, h, p, allowed) == allowed /\ Fits(S, h, p)

\* force_heap_merge: into the twin, but h stays where it is until destructed.
ForceHeapMerge(S, h) ==
    IF Twins(S, h, S.env[h]) = {} THEN S
    ELSE LET t == CHOOSE t \in Twins(S, h, S.env[h]) : TRUE
         IN Doom(SetHeapSize(S, t, S.count[h] + Num(S, t)), h)

SetHide(S, h, b) == [S EXCEPT !.hide[h] = b]

\* The driver destructs hs: nothing is left of them, nor of their call-outs.
Destruct(S, hs) ==
    [S EXCEPT !.env = [h \in Heaps |-> IF h \in hs THEN None ELSE @[h]],
              !.count = [h \in Heaps |-> IF h \in hs THEN 0 ELSE @[h]],
              !.leave = [h \in Heaps |-> IF h \in hs THEN 0 ELSE @[h]],
              !.hide = [h \in Heaps |-> h \notin hs /\ @[h]],
              !.dying = [h \in Heaps |-> h \notin hs /\ @[h]],
              !.restores = [h \in Heaps |-> IF h \in hs THEN 0 ELSE @[h]],
              !.removals = [h \in Heaps |-> IF h \in hs THEN 0 ELSE @[h]]]

\* h, the heaps in it, the heaps in those: all that is in each set with h that
\* nothing in it sticks out of.
Inside(S, h) ==
    {x \in Heaps : \A T \in SUBSET Heaps :
        (h \in T /\ \A y \in Heaps : S.env[y] \in T => y \in T) => x \in T}

\* remove_object: with its inventory, and leaving its environment as a move does.
RemoveObject(S, h) == Destruct(Leave(S, h, S.env[h]), Inside(S, h))

-----------------------------------------------------------------------------
(***************************************************************************)
(* The commands.  n is the number of items named, 0 when all are.          *)
(***************************************************************************)

Free == {h \in Heaps : env[h] = None}

\* filter_first and order_num, when a command names n items of h.
Named(h, n) == IF n = 0 THEN State ELSE SplitHeap(State, h, n)

\* A command that only looks, or gives up after it has named its objects.
Name(p, h, n) ==
    /\ env[h] \in {p, Room}
    /\ Becomes(Named(h, n))
    /\ UNCHANGED eaten

\* get and take: what has been taken is no longer hidden.
Get(p, h, n, allowed) ==
    /\ env[h] = Room
    /\ LET S == Named(h, n)
           M == Moved(S, h, p, allowed)
       IN Becomes(IF Moves(S, h, p, allowed)
                  THEN ForceHeapMerge(SetHide(M, h, FALSE), h)
                  ELSE M)
    /\ UNCHANGED eaten

\* drop and put, onto the floor.
Drop(p, h, n, allowed) ==
    /\ env[h] = p
    /\ Becomes(Moved(Named(h, n), h, Room, allowed))
    /\ UNCHANGED eaten

\* hide: dropped, and then hidden.
Hide(p, h, n, allowed) ==
    /\ env[h] = p
    /\ LET M == Moved(Named(h, n), h, Room, allowed)
       IN Becomes(IF allowed THEN ForceHeapMerge(SetHide(M, h, TRUE), h) ELSE M)
    /\ UNCHANGED eaten

\* reveal: the heap in view, split or not, is no longer hidden.
Reveal(p, h, n) ==
    /\ env[h] \in {p, Room}
    /\ hide[h]
    /\ Becomes(ForceHeapMerge(SetHide(Named(h, n), h, FALSE), h))
    /\ UNCHANGED eaten

\* eat: e items, fewer than named when there is too much of it.
Eat(p, h, n, e) ==
    /\ env[h] = p
    /\ LET S == Named(h, n)
           T == IF e < Num(S, h) THEN SplitHeap(S, h, e) ELSE S
       IN /\ IF Num(S, h) > 0 THEN 0 < e /\ e <= Num(S, h) ELSE e = 0
          /\ Becomes(IF T.leave[h] > 0 THEN SetHeapSize(T, h, T.leave[h])
                     ELSE RemoveObject(T, h))
    /\ eaten' = eaten + e

(***************************************************************************)
(* The call-outs.                                                          *)
(***************************************************************************)

Restore(h) ==
    /\ restores[h] > 0
    /\ Becomes([RestoreHeap(State, h) EXCEPT !.restores[h] = @ - 1])
    /\ UNCHANGED eaten

Remove(h) ==
    /\ removals[h] > 0
    /\ leave[h] > 0 => Free # {}
    /\ Becomes(RemoveObject(State, h))
    /\ UNCHANGED eaten

\* Bounds on how far things go wrong: the account of the items and the books.
Doomed(h) == removals[h] > 0
Total == eaten + SumFunctionOnSet([h \in Heaps |-> IF Doomed(h) THEN 0 ELSE count[h]], Heaps)
Weight(p) == SumFunctionOnSet([h \in Heaps |-> IF env[h] = p THEN Num(State, h) ELSE 0], Heaps)
Drift(p) == held[p] - Weight(p)
Bounded ==
    /\ Total <= MaxTotal
    /\ \A p \in Livings : Drift(p) \in -MaxDrift .. MaxDrift
    /\ SumFunctionOnSet([h \in Heaps |-> restores[h] + removals[h]], Heaps) <= MaxCalls

Command(p, h, n) ==
    /\ Free # {}
    /\ \/ Name(p, h, n)
       \/ Reveal(p, h, n)
       \/ \E e \in 0 .. MaxTotal : Eat(p, h, n, e)
       \/ \E allowed \in BOOLEAN :
             Get(p, h, n, allowed) \/ Drop(p, h, n, allowed) \/ Hide(p, h, n, allowed)
    /\ Bounded'

Next ==
    \/ \E p \in Livings, h \in Heaps, n \in 0 .. MaxTotal : Command(p, h, n)
    \/ \E h \in Heaps : Restore(h) \/ Remove(h)

Spec == Init /\ [][Next]_vars

-----------------------------------------------------------------------------
(***************************************************************************)
(* Properties.                                                             *)
(***************************************************************************)

\* No two heaps that would merge lie side by side, whatever is hidden, revealed,
\* split and left behind in between: enter_env and force_heap_merge rely on it,
\* the second adds a heap to every twin it finds.
NoTwins ==
    \A h \in Heaps : env[h] \in Places /\ ~dying[h] => Twins(State, h, env[h]) = {}

\* A split that has not been carried out is always about to be undone.
SplitIsPending == \A h \in Heaps : leave[h] > 0 => restores[h] > 0

\* Items are lost in one way only: a heap with a pending split takes in another
\* heap, and the items it was going to leave behind are forgotten.  They appear
\* in two ways only: a heap that awaits its destruction beside its twin is handled
\* once more, or one that counts fewer than none is eaten.
TotalIsExplained ==
    [][/\ Total' < Total =>
            \E t \in Heaps : /\ leave[t] > 0 /\ ~dying[t] /\ env'[t] = env[t]
                             /\ \E h \in Heaps \ {t} : removals'[h] > removals[h]
       /\ Total' > Total =>
            \E h \in Heaps : /\ env[h] \in Places
                             /\ Doomed(h) \/ Num(State, h) < 0
                             /\ <<env'[h], count'[h], removals'[h]>>
                                  # <<env[h], count[h], removals[h]>>]_vars

\* The books of a living go wrong in one way only: a command names all of a heap
\* that was split before.  Undoing a split never harms them.
DriftNeedsSplit ==
    [][\A p \in Livings : Drift(p)' # Drift(p) =>
         \E h \in Heaps : /\ env[h] = p /\ leave[h] > 0
                          /\ env'[h] = None \/ restores'[h] >= restores[h]]_vars
=============================================================================
