------------------------------- MODULE Combat -------------------------------
(***************************************************************************)
(* Fighting: the combat object of every living (std/combat/cbase.c) and    *)
(* the functions of the living around it (std/living/combat.c).            *)
(*                                                                         *)
(* A living keeps a list of enemies, at most one of whom it attacks, and   *)
(* its combat object has a heart that beats while there is somebody to     *)
(* fight.  Attacking, hunting down, walking out, dying, sparring and       *)
(* making peace each change the lists of several livings, one after the    *)
(* other; the driver lets no other command or heart beat come in between,  *)
(* so each is one action.                                                  *)
(*                                                                         *)
(* Left out: teams (Team has them), link-dead players, hiding (nobody sets *)
(* OBJ_I_HIDE, so reveal_me does nothing), clinging enemies (nothing in    *)
(* the library sets LIVE_O_ENEMY_CLING), bows and backstabs.  How hard a   *)
(* blow is, and whether one living sees another, is left open.             *)
(***************************************************************************)
EXTENDS Integers, FiniteSets, SequencesExt

CONSTANTS
    Livings,    \* players and monsters
    Players,    \* those of them that are interactive
    Talkers,    \* bound: the players who spar and who offer peace
    Timed,      \* bound: the livings whose combat_time is looked at
    Rooms,      \* where they fight
    Hospital,   \* where the ghosts of players are taken
    None,       \* no such living, no room
    MaxEnemies  \* MAX_ENEMIES

ASSUME CombatAssumption ==
    /\ Talkers \subseteq Players
    /\ Players \subseteq Livings
    /\ Timed \subseteq Livings
    /\ IsFiniteSet(Livings)
    /\ None \notin Livings \cup Rooms
    /\ Hospital \notin Rooms \cup {None}
    /\ MaxEnemies \in Nat \ {0}

VARIABLES
    env,        \* env[l]: environment(l)
    ghost,      \* the dead players
    enemies,    \* enemies[l]: whom l fights or hunts, the preferred one first
    attack,     \* attack[l]: attack_ob
    heart,      \* heart[l]: the heart of l's combat object beats
    recent,     \* recent[l]: combat_time is not 30 seconds ago yet, for a Timed l
    sparring,   \* sparring[l]: LIVE_AO_SPARRING
    offers      \* offers[l]: LIVE_M_STOP_FIGHTING, to whom l has offered peace

vars == <<env, ghost, enemies, attack, heart, recent, sparring, offers>>

TypeOK ==
    /\ env \in [Livings -> Rooms \cup {Hospital, None}]
    /\ ghost \subseteq Players
    /\ attack \in [Livings -> Livings \cup {None}]
    /\ heart \in [Livings -> BOOLEAN]
    /\ recent \in [Livings -> BOOLEAN]
    /\ sparring \in [Livings -> SUBSET Livings]
    /\ offers \in [Livings -> SUBSET Livings]
    /\ \A l \in Livings :
         /\ enemies[l] \in Seq(Livings \ {l})
         /\ Len(enemies[l]) <= MaxEnemies
         /\ IsInjective(enemies[l])

Init ==
    /\ env \in [Livings -> Rooms]
    /\ ghost = {}
    /\ enemies = [l \in Livings |-> <<>>]
    /\ attack = [l \in Livings |-> None]
    /\ heart = [l \in Livings |-> FALSE]
    /\ recent = [l \in Livings |-> FALSE]
    /\ sparring = [l \in Livings |-> {}]
    /\ offers = [l \in Livings |-> {}]

-----------------------------------------------------------------------------
(***************************************************************************)
(* The functions, from a state S of all livings to the next.               *)
(***************************************************************************)

State == [env |-> env, ghost |-> ghost, enemies |-> enemies, attack |-> attack,
          heart |-> heart, recent |-> recent, sparring |-> sparring, offers |-> offers]

Becomes(S) ==
    /\ env' = S.env
    /\ ghost' = S.ghost
    /\ enemies' = S.enemies
    /\ attack' = S.attack
    /\ heart' = S.heart
    /\ recent' = S.recent
    /\ sparring' = S.sparring
    /\ offers' = S.offers

Others(S, l) == {m \in Livings \ {l} : S.env[m] = S.env[l]}

\* The list s but for es.
Without(s, es) ==
    LET rest[i \in 0 .. Len(s)] ==
            IF i = 0 THEN <<>>
            ELSE IF s[i] \in es THEN rest[i - 1] ELSE Append(rest[i - 1], s[i])
    IN  rest[Len(s)]

Hunts(S, l, m) == m \in Range(S.enemies[l])

Clock(S, l) == [S EXCEPT !.recent[l] = l \in Timed]

RestartHeart(S, l) == [Clock(S, l) EXCEPT !.heart[l] = TRUE]

\* Mutant of AddEnemy: an enemy already listed is put first without being taken out.
AddEnemyTwice(S, l, e, force) ==
    LET all == IF force THEN <<e>> \o S.enemies[l]
               ELSE IF Hunts(S, l, e) THEN S.enemies[l] ELSE Append(S.enemies[l], e)
    IN [S EXCEPT !.enemies[l] = SubSeq(all, 1, IF Len(all) > MaxEnemies THEN MaxEnemies ELSE Len(all))]

\* cb_add_enemy: first in the list when forced, else last; who does not fit is dropped.
AddEnemy(S, l, e, force) ==
    LET all == IF force THEN <<e>> \o Without(S.enemies[l], {e})
               ELSE IF Hunts(S, l, e) THEN S.enemies[l] ELSE Append(S.enemies[l], e)
    IN [S EXCEPT !.enemies[l] = SubSeq(all, 1, IF Len(all) > MaxEnemies THEN MaxEnemies ELSE Len(all))]

\* Mutant of AttackedBy: the heart is not restarted.
AttackedByAsleep(S, l, o) ==
    [AddEnemy(S, l, o, FALSE) EXCEPT
        !.attack[l] = IF @ = None \/ (@ \notin Players /\ o \in Players) THEN o ELSE @]

\* cb_attacked_by: one turns to a new attacker if idle, or from a monster to a player.
AttackedBy(S, l, o) ==
    RestartHeart([AddEnemy(S, l, o, FALSE) EXCEPT
        !.attack[l] = IF @ = None \/ (@ \notin Players /\ o \in Players) THEN o ELSE @], l)

\* Mutant of Attack: the victim is not told.
AttackSecretly(S, l, v) ==
    LET R == RestartHeart(S, l)
    IN IF v = S.attack[l] \/ v \in S.ghost THEN R
       ELSE [AddEnemy(R, l, v, TRUE) EXCEPT !.attack[l] = v]

\* cb_attack.
Attack(S, l, v) ==
    LET R == RestartHeart(S, l)
    IN IF v = S.attack[l] \/ v \in S.ghost THEN R
       ELSE AttackedBy([AddEnemy(R, l, v, TRUE) EXCEPT !.attack[l] = v], v, l)

\* Mutant of StopFight: the target is kept.
StopFightLater(S, l, es) ==
    LET rest  == Without(S.enemies[l], es)
        local == Without(rest, Livings \ Others(S, l))
    IN [S EXCEPT !.enemies[l] = rest, !.attack[l] = IF local # <<>> THEN local[1] ELSE @]

\* cb_stop_fight: es are forgotten, and the first enemy at hand becomes the target.
StopFight(S, l, es) ==
    LET rest  == Without(S.enemies[l], es)
        local == Without(rest, Livings \ Others(S, l))
    IN [S EXCEPT !.enemies[l] = rest,
                 !.attack[l] = IF local # <<>> THEN local[1] ELSE IF @ \in es THEN None ELSE @]

\* cb_query_attack.
Opponent(S, l) ==
    IF S.attack[l] # None /\ S.attack[l] \notin S.ghost /\ S.env[S.attack[l]] = S.env[l]
    THEN S.attack[l] ELSE None

\* Mutant of UpdateAttack: the heart stops although there is somebody else to fight.
UpdateAttackTired(S, l, inv) ==
    IF Opponent(S, l) # None THEN S
    ELSE LET targets == Without(inv, Livings \ Range(S.enemies[l]))
         IN [S EXCEPT !.heart[l] = FALSE,
                      !.attack[l] = IF targets # <<>> THEN targets[1] ELSE None]

\* cb_update_attack; inv is the inventory of the room.
UpdateAttack(S, l, inv) ==
    IF Opponent(S, l) # None THEN S
    ELSE LET targets == Without(inv, Livings \ Range(S.enemies[l]))
         IN IF targets # <<>> THEN [S EXCEPT !.attack[l] = targets[1]]
            ELSE [S EXCEPT !.attack[l] = None, !.heart[l] = FALSE]

\* The driver destructs l: references to it become 0 and leave the lists.
Destruct(S, l) ==
    [S EXCEPT !.env[l] = None,
              !.ghost = @ \ {l},
              !.enemies = [m \in Livings |-> IF m = l THEN <<>> ELSE Without(@[m], {l})],
              !.attack = [m \in Livings |-> IF m = l \/ @[m] = l THEN None ELSE @[m]],
              !.heart[l] = FALSE,
              !.recent[l] = FALSE,
              !.sparring = [m \in Livings |-> IF m = l THEN {} ELSE @[m] \ {l}],
              !.offers = [m \in Livings |-> IF m = l THEN {} ELSE @[m] \ {l}]]

\* Mutant of DoDie: after a bout neither stops fighting.
DoDieFighting(S, v, k) ==
    IF k \in S.sparring[v]
    THEN [S EXCEPT !.sparring[k] = @ \ {v}, !.sparring[v] = @ \ {k}]
    ELSE LET D == [S EXCEPT !.enemies[v] = <<>>, !.attack[v] = None,
                            !.heart[v] = FALSE, !.recent[v] = FALSE]
         IN IF v \in Players THEN [D EXCEPT !.ghost = @ \cup {v}, !.env[v] = Hospital]
            ELSE Destruct(D, v)

\* do_die of v, killed by k or, for None, by no living: a lost bout of sparring, or
\* cb_death_occured, and then a player becomes a ghost and is taken away.
DoDie(S, v, k) ==
    IF k \in S.sparring[v]
    THEN [StopFight(StopFight(S, k, {v}), v, {k}) EXCEPT
            !.sparring[k] = @ \ {v}, !.sparring[v] = @ \ {k}]
    ELSE LET D == [S EXCEPT !.enemies[v] = <<>>, !.attack[v] = None,
                            !.heart[v] = FALSE, !.recent[v] = FALSE]
         IN IF v \in Players THEN [D EXCEPT !.ghost = @ \cup {v}, !.env[v] = Hospital]
            ELSE Destruct(D, v)

\* cb_hit_me of a living that is no ghost.
HitMe(S, v, a) ==
    RestartHeart([AddEnemy(S, v, a, FALSE) EXCEPT !.attack[v] = IF @ = None THEN a ELSE @], v)

\* adjust_combat_on_move before leaving: those present are no enemies any more.
LeaveFight(S, l) ==
    LET inv == {m \in Others(S, l) : Hunts(S, l, m)}
    IN IF inv = {} THEN S ELSE StopFight(S, l, inv)

\* A function of the combat object of c.by, called because of c.of.
Called(S, c) ==
    CASE c.fn = "combat_init" -> IF Hunts(S, c.by, c.of) THEN AttackedBy(S, c.by, c.of) ELSE S
      [] c.fn = "cb_attack" -> Attack(S, c.by, c.of)
      [] c.fn = "cb_stop_fight" -> StopFight(S, c.by, {c.of})

\* Such calls one after the other: of each of ls because of m, or of l because of
\* each of ms.
CallAll(S, cs) ==
    LET after[i \in 0 .. Len(cs)] == IF i = 0 THEN S ELSE Called(after[i - 1], cs[i])
    IN  after[Len(cs)]
ByEach(fn, ls, m) == [i \in DOMAIN ls |-> [fn |-> fn, by |-> ls[i], of |-> m]]
OfEach(fn, l, ms) == [i \in DOMAIN ms |-> [fn |-> fn, by |-> l, of |-> ms[i]]]

\* combat_init of each of ls, because m comes into its view.
CombatInit(S, ls, m) == CallAll(S, ByEach("combat_init", SetToSeq(ls), m))

\* l has arrived: the init of the livings in both directions, then its own
\* adjust_combat_on_move.  inv is the inventory of the room, sees whom l sees and
\* seen who sees l, and may attack here.
Arrive(S, l, inv, sees, seen) ==
    LET I == CombatInit(S, seen, l)
        J == CallAll(I, OfEach("combat_init", l, Without(inv, Livings \ sees)))
        K == Without(inv, Livings \ (sees \cap Range(J.enemies[l])))
    IN CallAll(J, OfEach("cb_attack", l, K))

-----------------------------------------------------------------------------
(***************************************************************************)
(* Commands.                                                               *)
(***************************************************************************)

Active(l) == env[l] \in Rooms

\* kill, and aggressive monsters.
Kill(l, v) ==
    /\ Active(l)
    /\ v \in Others(State, l)
    /\ Opponent(State, l) # v
    /\ Becomes(Attack(State, l, v))

\* l walks to r, or is stopped after its enemies have been told that it leaves.
Moved(S, l, r, inv, sees, seen) ==
    Arrive([LeaveFight(S, l) EXCEPT !.env[l] = r], l, inv, sees, seen)

In(S, l, r) == {m \in Livings \ {l} : S.env[m] = r}

Walk(l, r) ==
    /\ Active(l)
    /\ r # env[l]
    /\ \E inv \in SetToSeqs(In(State, l, r)), sees, seen \in SUBSET In(State, l, r) :
          Becomes(Moved(State, l, r, inv, sees, seen))

WalkFails(l) ==
    /\ Active(l)
    /\ Becomes(LeaveFight(State, l))

\* l was invisible, and now those of ls see it.
Appear(l, ls) ==
    /\ Active(l)
    /\ ls \subseteq Others(State, l)
    /\ Becomes(CombatInit(State, ls, l))

\* spar: a challenge, or the acceptance of one.
Spar(l, m) ==
    /\ Active(l)
    /\ m \in Others(State, l)
    /\ Becomes([State EXCEPT !.sparring[l] = @ \cup {m}])

MayOffer(l, m) == ~Hunts(State, l, m)

\* stop fighting: l accepts m's offer, or makes one.
Stop(l, m) ==
    /\ Active(l)
    /\ m \in Others(State, l)
    /\ \/ /\ l \in offers[m]
          /\ Becomes([StopFight(StopFight(State, l, {m}), m, {l}) EXCEPT
                        !.offers[m] = @ \ {l}])
       \/ /\ l \notin offers[m]
          /\ MayOffer(l, m)
          /\ Becomes([State EXCEPT !.offers[l] = @ \cup {m}])

\* peace: a wizard reconciles l with all its enemies.
Peace(l) ==
    /\ Active(l)
    /\ Becomes(CallAll(StopFight(State, l, Range(enemies[l])),
                       ByEach("cb_stop_fight", enemies[l], l)))

-----------------------------------------------------------------------------
(***************************************************************************)
(* The driver: heart beats, time, and what else befalls a living.          *)
(***************************************************************************)

\* What l's round of blows does to its opponent v.
Blows(S, l, v) ==
    {S,                                                     \* no blow, or none that arrives
     HitMe(S, v, l),
     DoDie([HitMe(S, v, l) EXCEPT !.enemies[l] = Without(@, {v})], v, l)}

\* One round of heart_beat: nobody is left to fight; or stunned; or blows, perhaps
\* panic and flight, and then cb_update_attack once more.
Round(l, inv) ==
    LET U == UpdateAttack(State, l, inv)
        v == Opponent(U, l)
    IN IF v = None
       THEN Becomes([U EXCEPT !.heart[l] = @ /\ recent[l]])
       ELSE \/ Becomes(U)
            \/ \E B \in Blows(Clock(U, l), l, v) :
                 \/ Becomes(UpdateAttack(B, l, inv))
                 \/ \E r \in Rooms \ {env[l]} :
                    \E to \in SetToSeqs(In(B, l, r)), sees, seen \in SUBSET In(B, l, r) :
                       Becomes(UpdateAttack(Moved(B, l, r, to, sees, seen), l, to))

Beat(l) ==
    /\ heart[l]
    /\ IF l \in ghost
       THEN Becomes([State EXCEPT !.attack[l] = None, !.heart[l] = FALSE])
       ELSE \E inv \in SetToSeqs(Others(State, l)) : Round(l, inv)

\* 30 seconds have passed since combat_time was updated.
Calm(l) ==
    /\ recent[l]
    /\ Becomes([State EXCEPT !.recent[l] = FALSE])

\* Poison and the like.
Die(l) ==
    /\ Active(l)
    /\ Becomes(DoDie(State, l, None))

\* An offer of peace is not valid any longer.
Expire(l, m) ==
    /\ m \in offers[l]
    /\ Becomes([State EXCEPT !.offers[l] = @ \ {m}])

\* A ghost is reborn: its body is destructed.
Fetch(l) ==
    /\ l \in ghost
    /\ Becomes(Destruct(State, l))

\* A new body, or a new clone of a monster.
Born(l, r) ==
    /\ env[l] = None
    /\ Becomes([State EXCEPT !.env[l] = r])

Next ==
    \/ \E l \in Livings :
         \/ WalkFails(l) \/ Peace(l) \/ Beat(l) \/ Calm(l) \/ Die(l) \/ Fetch(l)
         \/ \E v \in Livings : Kill(l, v)
         \/ \E r \in Rooms : Walk(l, r) \/ Born(l, r)
         \/ \E ls \in SUBSET Livings : Appear(l, ls)
    \/ \E l, m \in Talkers : Spar(l, m) \/ Stop(l, m) \/ Expire(l, m)

Spec == Init /\ [][Next]_vars

-----------------------------------------------------------------------------
(***************************************************************************)
(* Properties.                                                             *)
(***************************************************************************)

\* As long as no list is full, whom one attacks is on one's list: everything that
\* strikes somebody off the list (peace, death, a lost bout, walking out, the
\* destruction of a monster) has to think of attack_ob as well.
TargetIsEnemy == \A l \in Livings : attack[l] # None => Hunts(State, l, attack[l])

\* A living that somebody starts to fight, or that starts to fight, has its heart
\* beating and a target by the end of the same step.
FoesAreAnswered ==
    [][\A l \in Livings : ~(Range(enemies'[l]) \subseteq Range(enemies[l]))
                            => heart'[l] /\ attack'[l] # None]_vars

\* A living has a target and its heart does not beat ("kill" then says "Yes, yes."
\* and does nothing) only because it was made to stop fighting somebody while an
\* enemy it had not noticed was there: no walk, no arrival, no death and no beat of
\* a heart leads to that.
Idle(l) == attack[l] # None /\ ~heart[l]
IdleNeedsStop ==
    [][\A l \in Livings : (Idle(l))' /\ ~Idle(l) => ~heart[l] /\ env' = env]_vars

\* A new enmity is mutual, unless one of the two dies, walks out or has no room
\* for more enemies in the same step.  So is forgiving: one who strikes somebody
\* off its list is struck off the other's list in the same step, unless one of
\* them is gone or it has turned its back on everybody in the room, as those do
\* who walk out or try to.
EnmityIsMutual ==
    [][\A l, e \in Livings :
         env'[l] = env[l] /\ env'[e] = env[e] =>
           /\ e \in Range(enemies'[l]) \ Range(enemies[l]) => l \in Range(enemies'[e])
           /\ e \in Range(enemies[l]) \ Range(enemies'[l]) =>
                \/ l \notin Range(enemies'[e])
                \/ \A m \in Others(State, l) : m \notin Range(enemies'[l])]_vars

\* When a bout of sparring ends without death, the two have stopped fighting.
BoutIsOver ==
    [][\A l, k \in Livings :
         (k \in sparring[l] \ sparring'[l] /\ env'[k] # None /\ env'[l] # None)
         => k \notin Range(enemies'[l]) /\ l \notin Range(enemies'[k])
            /\ attack'[l] # k /\ attack'[k] # l]_vars
=============================================================================
