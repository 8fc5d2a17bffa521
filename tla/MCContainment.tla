--------------------------- MODULE MCContainment ---------------------------
(***************************************************************************)
(* A room, two livings (who halve what is in the bags they carry), a bag   *)
(* that closes, a rigid chest that does too, a torch and a stone.          *)
(***************************************************************************)
EXTENDS Containment, TLC

CONSTANTS room, hero, troll, bag, chest, torch, stone,
          Grain     \* the weight of a stone

MCThings == {room, hero, troll, bag, chest, torch, stone}
MCContainers == {room, hero, troll, bag, chest}

Size == [o \in MCThings |->
    CASE o \in {hero, troll} -> 40 [] o \in {bag, chest} -> 4 [] OTHER -> Grain]

\* The bag has room for both small things, but they are too heavy for it.
Largest == [c \in MCContainers |->
    CASE c \in {hero, troll} -> 40 + 16 [] c = bag -> 4 + 8 [] OTHER -> 4 + Grain]

Heaviest == [Largest EXCEPT ![bag] = 4 + 6]

MCReduce == [c \in MCContainers |-> IF c \in {hero, troll} THEN 200 ELSE 100]
\* With an even weight in every bag that is halved nothing is rounded.
MCUnit == [c \in MCContainers |-> IF c \in {bag, chest} THEN Grain ELSE Grain \div 2]

ASSUME MCExact == Grain = 4 => Exact(MCUnit)

\* The two livings are alike.
Symm == Permutations({hero, troll})
=============================================================================
