---------------------------- MODULE Containment ----------------------------
(***************************************************************************)
(* Objects inside objects (std/container.c, std/object.c).                 *)
(*                                                                         *)
(* A container does not add up what is in it when it is asked: it keeps    *)
(* three running totals, of light, weight and volume, and everything that  *)
(* moves, changes, opens, closes or is removed tells the containers around *)
(* it by how much they have changed.  The totals are right only if every   *)
(* such message is matched by the later one that takes it back.            *)
(*                                                                         *)
(* The driver keeps the environment of every object.  Left out: rooms that *)
(* are the inside of a container (set_room), the refusals of prevent_leave *)
(* and prevent_enter that an area may add, the splitting of a heap that is *)
(* too heavy (module Heap), CONT_I_IN, which every container has, and      *)
(* locks, which only keep a box from being opened.  The livings are        *)
(* mobiles: a player in what is removed is sent home instead.              *)
(* Nothing changes CONT_I_TRANSP, CONT_I_ATTACH, CONT_I_RIGID or a volume  *)
(* while the object is inside another, so they are constants.              *)
(***************************************************************************)
EXTENDS Integers, FiniteSetsExt

CONSTANTS
    Things,         \* all objects
    Containers,     \* those that can hold others
    Rooms,          \* the containers that are in nothing (ROOM_I_IS)
    Livings,        \* the containers that are alive
    Boxes,          \* the containers that can be opened and closed
    Shining,        \* CONT_I_TRANSP or CONT_I_ATTACH is set: livings, glass
    Rigid,          \* CONT_I_RIGID is set
    Lamps,          \* objects whose OBJ_I_LIGHT changes
    Forced,         \* objects the code moves without asking: move(dest, 1)
    NoDrop, NoInsert, NoGet, NoGive,    \* OBJ_M_NO_DROP, _INS, _GET, _GIVE
    NoEntry, NoExit,                    \* CONT_M_NO_INS, CONT_M_NO_REM
    Weight, Volume,     \* Weight[o]: CONT_I_WEIGHT or OBJ_I_WEIGHT; Volume
    MaxWeight, MaxVolume,   \* CONT_I_MAX_WEIGHT, CONT_I_MAX_VOLUME
    Reduce,         \* CONT_I_REDUCE_WEIGHT and CONT_I_REDUCE_VOLUME
    Bright,         \* the light of a lamp that is lit
    Void,           \* the environment of a room, and of what was just cloned
    Gone            \* destructed

ASSUME ContainmentAssumption ==
    /\ IsFiniteSet(Things)
    /\ Rooms \cup Livings \cup Boxes \cup Shining \cup Rigid \cup NoEntry
         \cup NoExit \subseteq Containers
    /\ Containers \cup Lamps \cup Forced \cup NoDrop \cup NoInsert \cup NoGet
         \cup NoGive \subseteq Things
    /\ Livings \subseteq Shining
    /\ Rooms \cap (Livings \cup Boxes) = {}
    /\ Lamps \cap Containers = {}
    /\ Weight \in [Things -> Nat] /\ Volume \in [Things -> Nat]
    /\ MaxWeight \in [Containers -> Nat] /\ MaxVolume \in [Containers -> Nat]
    /\ Reduce \in [Containers -> Nat \ {0}]
    /\ Bright \in Nat
    /\ Void \notin Things /\ Gone \notin Things /\ Void # Gone

VARIABLES
    env,        \* env[o]: environment(o)
    closed,     \* the boxes with CONT_I_CLOSED
    lit,        \* the lamps that give light
    light,      \* light[c]: cont_cur_light
    weight,     \* weight[c]: cont_cur_weight
    volume      \* volume[c]: cont_cur_volume

vars == <<env, closed, lit, light, weight, volume>>
totals == <<light, weight, volume>>

TypeOK ==
    /\ env \in [Things -> Containers \cup {Void, Gone}]
    /\ closed \subseteq Boxes
    /\ lit \subseteq Lamps
    /\ light \in [Containers -> Int]
    /\ weight \in [Containers -> Int]
    /\ volume \in [Containers -> Int]
    /\ \A r \in Rooms : env[r] = Void

Init ==
    /\ env = [o \in Things |-> Void]
    /\ closed = {}
    /\ lit = {}
    /\ light = [c \in Containers |-> 0]
    /\ weight = [c \in Containers |-> 0]
    /\ volume = [c \in Containers |-> 0]

-----------------------------------------------------------------------------
(***************************************************************************)
(* The totals, as a record that a handler passes on from call to call.     *)
(***************************************************************************)
Totals == [light |-> light, weight |-> weight, volume |-> volume]

Set(t) == light' = t.light /\ weight' = t.weight /\ volume' = t.volume

\* Integer division as the driver does it: towards zero.
Quotient(a, b) == IF a >= 0 THEN a \div b ELSE -((-a) \div b)

Reduced(c, n) == Quotient(n * 100, Reduce[c])

\* The light inside c is seen outside it.
Distributes(c) == c \in Shining \/ c \notin closed

\* query_prop of OBJ_I_LIGHT, OBJ_I_WEIGHT and OBJ_I_VOLUME.
Burden(t, o) ==
    IF o \in Containers
    THEN [l |-> IF Distributes(o) THEN t.light[o] ELSE 0,
          w |-> Weight[o] + t.weight[o],
          v |-> IF o \in Rigid THEN MaxVolume[o] ELSE Volume[o] + t.volume[o]]
    ELSE [l |-> IF o \in lit THEN Bright ELSE 0, w |-> Weight[o], v |-> Volume[o]]

Nothing == [l |-> 0, w |-> 0, v |-> 0]

Minus(d) == [l |-> -d.l, w |-> -d.w, v |-> -d.v]

\* What a change by d inside c means to the container c is in.
Passed(c, outer, d) ==
    [l |-> IF Distributes(c) THEN d.l ELSE 0,
     w |-> Reduced(outer, d.w),
     v |-> IF c \in Rigid THEN 0 ELSE Reduced(outer, d.v)]

\* update_internal of c: the change goes up through the containers around it.
UpdateInternal(e, t, c, d) ==
    LET change[x \in Containers] ==
          IF x = c THEN d
          ELSE LET inner == {y \in Containers : e[y] = x /\ change[y] # Nothing}
               IN  IF inner = {} THEN Nothing
                   ELSE LET y == CHOOSE y \in inner : TRUE
                        IN  Passed(y, x, change[y])
    IN  [light  |-> [x \in Containers |-> t.light[x] + change[x].l],
         weight |-> [x \in Containers |-> t.weight[x] + change[x].w],
         volume |-> [x \in Containers |-> t.volume[x] + change[x].v]]

\* What the contents of container o, which is in c, weigh less for being there.
Relief(t, o, c) ==
    [l |-> 0,
     w |-> t.weight[o] - Reduced(c, t.weight[o]),
     v |-> IF o \in Rigid THEN 0 ELSE t.volume[o] - Reduced(c, t.volume[o])]

LeaveEnv(e, t, o, from) ==
    IF o \in Containers THEN UpdateInternal(e, t, from, Relief(t, o, from)) ELSE t

EnterEnv(e, t, o, dest) ==
    IF o \in Containers THEN UpdateInternal(e, t, dest, Minus(Relief(t, o, dest))) ELSE t

LeaveInv(e, t, o, from) == UpdateInternal(e, t, from, Minus(Burden(t, o)))

EnterInv(e, t, o, dest) == UpdateInternal(e, t, dest, Burden(t, o))

\* leave_env masked without calling the original.
LeaveInvOnly(e, t, o) == IF env[o] = Void THEN t ELSE LeaveInv(e, t, o, env[o])

Leave(e, t, o) ==
    IF env[o] = Void THEN t
    ELSE LeaveInv(e, LeaveEnv(e, t, o, env[o]), o, env[o])

Enter(e, t, o, dest) == EnterInv(e, EnterEnv(e, t, o, dest), o, dest)

-----------------------------------------------------------------------------
(***************************************************************************)
(* Moving an object.                                                       *)
(***************************************************************************)
Exists(o) == env[o] # Gone

\* The objects inside o, at any depth.
Inside(o) ==
    LET within[x \in Things] == env[x] = o \/ (env[x] \in Things /\ within[env[x]])
    IN  {x \in Things : within[x]}

WeightLeft(c) == MaxWeight[c] - (Weight[c] + weight[c])
VolumeLeft(c) == MaxVolume[c] - (Volume[c] + volume[c])

\* The weight of what is to be put in forgotten.
FitsAlmost(o, c) ==
    /\ WeightLeft(c) > 0
    /\ VolumeLeft(c) >= Burden(Totals, o).v

Fits(o, c) ==
    /\ WeightLeft(c) >= Burden(Totals, o).w
    /\ VolumeLeft(c) >= Burden(Totals, o).v

\* Everything move(dest) asks before it moves o.
MayMove(o, dest) ==
    LET old == env[o]
        fromLiving == old \in Livings
    IN  /\ dest \notin NoEntry
        /\ old \notin NoExit
        /\ old \notin closed
        /\ fromLiving => o \notin NoDrop
        /\ IF dest \in Livings
           THEN o \notin (IF fromLiving THEN NoGive ELSE NoGet)
           ELSE /\ dest \in Rooms \/ o \notin NoInsert
                /\ o \notin closed      \* asked of o, not of dest
        /\ dest \in Rooms \/ Fits(o, dest)

MoveTo(o, dest) ==
    LET e == [env EXCEPT ![o] = dest]
    IN  /\ Exists(o) /\ Exists(dest)
        /\ dest # env[o] /\ dest # o /\ dest \notin Inside(o)   \* the driver's
        /\ env' = e
        /\ Set(Enter(e, Leave(e, Totals, o), o, dest))
        /\ UNCHANGED <<closed, lit>>

Move(o, dest) == MayMove(o, dest) /\ MoveTo(o, dest)

ForceMove(o, dest) == o \in Forced /\ MoveTo(o, dest)

-----------------------------------------------------------------------------
(***************************************************************************)
(* Changes of what is inside another, which it reports to its environment  *)
(* (notify_change_prop).                                                   *)
(***************************************************************************)
Notify(o, d) ==
    Set(IF env[o] = Void THEN Totals ELSE UpdateInternal(env, Totals, env[o], d))

Shine(o) ==
    /\ Exists(o) /\ o \in Lamps \ lit
    /\ lit' = lit \cup {o}
    /\ Notify(o, [Nothing EXCEPT !.l = Bright])
    /\ UNCHANGED <<env, closed>>

Dim(o) ==
    /\ Exists(o) /\ o \in lit
    /\ lit' = lit \ {o}
    /\ Notify(o, [Nothing EXCEPT !.l = -Bright])
    /\ UNCHANGED <<env, closed>>

\* The light in c begins or ceases to be seen outside it.
Veil(c, sign) ==
    Notify(c, [Nothing EXCEPT !.l = IF c \in Shining THEN 0 ELSE sign * light[c]])

Close(c) ==
    /\ Exists(c) /\ c \in Boxes \ closed
    /\ closed' = closed \cup {c}
    /\ Veil(c, -1)
    /\ UNCHANGED <<env, lit>>

\* As before Khail turned the test round in 1996.
OpenDarkens(c) ==
    /\ Exists(c) /\ c \in closed
    /\ closed' = closed \ {c}
    /\ Veil(c, -1)
    /\ UNCHANGED <<env, lit>>

Open(c) ==
    /\ Exists(c) /\ c \in closed
    /\ closed' = closed \ {c}
    /\ Veil(c, 1)
    /\ UNCHANGED <<env, lit>>

-----------------------------------------------------------------------------
(***************************************************************************)
(* Removing an object removes what is in it first, the innermost first.    *)
(***************************************************************************)
\* remove_object of x: s.env and s.totals are as the removals before left them.
Removed(s, x) ==
    LET from == s.env[x]
        left == LeaveInv(s.env, s.totals, x, from)
    IN  [env |-> [s.env EXCEPT ![x] = Gone],
         totals |-> IF from = Void THEN s.totals ELSE LeaveEnv(s.env, left, x, from)]

\* Those of S that are still there and have nothing in them.
Innermost(s, S) == {x \in S : s.env[x] # Gone /\ \A y \in S : s.env[y] # x}

RemoveAll(S) ==
    LET after[n \in 0 .. Cardinality(S)] ==
          IF n = 0 THEN [env |-> env, totals |-> Totals]
          ELSE LET s == after[n - 1] IN Removed(s, CHOOSE x \in Innermost(s, S) : TRUE)
        end == after[Cardinality(S)]
    IN  env' = end.env /\ Set(end.totals)

\* clean_up of a room that is still in use.
RemoveRoomsToo(o) ==
    /\ Exists(o)
    /\ RemoveAll(Inside(o) \cup {o})
    /\ UNCHANGED <<closed, lit>>

RemoveObject(o) ==
    /\ Exists(o) /\ o \notin Rooms
    /\ RemoveAll(Inside(o) \cup {o})
    /\ UNCHANGED <<closed, lit>>

-----------------------------------------------------------------------------
Next ==
    \/ \E o \in Things \ Rooms, c \in Containers : Move(o, c) \/ ForceMove(o, c)
    \/ \E o \in Lamps : Shine(o) \/ Dim(o)
    \/ \E c \in Boxes : Open(c) \/ Close(c)
    \/ \E o \in Things : RemoveObject(o)

Spec == Init /\ [][Next]_vars

-----------------------------------------------------------------------------
(***************************************************************************)
(* Properties.                                                             *)
(***************************************************************************)
Inventory(c) == {o \in Things : env[o] = c}

Total(c, f) == SumFunctionOnSet(f, Inventory(c))

\* The totals of weight and volume a container keeps are those of the things in
\* it: each its own, and what is in it reduced as the container says; a rigid
\* object takes all of its room at once.  Every message of update_internal has
\* been matched by its opposite.
LoadIsTrue ==
    \A c \in Containers : Exists(c) =>
        /\ weight[c] = Total(c, [o \in Things |->
             Weight[o] + IF o \in Containers THEN Reduced(c, weight[o]) ELSE 0])
        /\ volume[c] = Total(c, [o \in Things |->
             CASE o \in Rigid -> MaxVolume[o]
               [] o \in Containers \ Rigid -> Volume[o] + Reduced(c, volume[o])
               [] OTHER -> Volume[o]])

\* It is as light in a container as the objects that are seen in it make it:
\* a lamp shut away is not seen, wherever its box has been carried since.
LightIsTrue ==
    \A c \in Containers : Exists(c) =>
        light[c] = Total(c, [o \in Things |-> Burden(Totals, o).l])

\* What was only moved into a container by its owner's leave, and does not
\* itself hold anything, never makes it exceed what it can hold.
WithinLimits ==
    \A c \in Containers \ Rooms :
        Exists(c) /\ Inventory(c) \cap (Containers \cup Forced) = {} =>
            /\ Weight[c] + weight[c] <= MaxWeight[c] \/ Inventory(c) = {}
            /\ Volume[c] + volume[c] <= MaxVolume[c] \/ Inventory(c) = {}

\* What x may hold of the containers: it must not be too heavy for x by itself.
MayHold(x, y) ==
    /\ x # y /\ y \notin Rooms
    /\ y \in Forced \/ x \in Rooms \/ Weight[x] + Weight[y] <= MaxWeight[x]

\* Nothing is rounded: whatever is in x weighs and takes a multiple of unit[x],
\* also when it is in a container that x reduces.  The divisions are exact if
\* there is such a unit.
Exact(unit) ==
    \A x \in Containers :
        /\ unit[x] \in Nat \ {0}
        /\ \A o \in Things : Weight[o] % unit[x] = 0 /\ Volume[o] % unit[x] = 0
        /\ \A o \in Rigid : MaxVolume[o] % unit[x] = 0
        /\ \A y \in Containers : MayHold(x, y) =>
              /\ unit[y] % unit[x] = 0
              /\ (100 * unit[y]) % (Reduce[x] * unit[x]) = 0

\* A container with nothing in it has no accumulated weight.
EmptyIsWeightless ==
    \A c \in Containers : Exists(c) /\ Inventory(c) = {} => weight[c] = 0
=============================================================================
