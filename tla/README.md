# A TLA+ model of the Silver Bucket mudlib

Silver Bucket is a library for an LDMud driver, written in LPC: everything that
happens in a multi-user game — rooms, things, livings, players, fights — is an
object of a program in this repository, cloned, moved and destructed by the
driver. The modules here model the parts of the library in which several objects
each keep a piece of one fact, or one object keeps it from one call-out to the
next, and the pieces have to stay in step.

- [How the system runs](#how-the-system-runs)
- [Inventory](#inventory)
- [The modules](#the-modules): [Heap](#heap), [Team](#team), [Combat](#combat),
  [Containment](#containment), [Trade and Purse](#trade-and-purse),
  [Domains](#domains), [Shutdown](#shutdown),
  [Sequence and Streams](#sequence-and-streams), [Recovery](#recovery)
- [Runs and bounds](#runs-and-bounds)
- [Refinement](#refinement)
- [Proofs](#proofs)
- [Where code and documentation disagree](#where-code-and-documentation-disagree)
- [What is not modelled](#what-is-not-modelled)
- [Plan](#plan)

## How the system runs

The driver is single-threaded. It executes one thing at a time: a command of a
player (with all the calls it leads to), a `call_out` (a function an object asked
to be called later), or the `heart_beat` of an object (every two seconds, while it
is switched on). Nothing else runs until that is finished, so **each of these is
one action** of the models, however many objects it changes. What can interleave
is what comes between them: the command of another player between a command and
the call-outs it issued; an object's destruction between two commands that refer
to it. When an object is destructed, its call-outs and its heart beat are gone and
every variable that referred to it reads as 0. Two things end an action half way,
and the models have both: a runtime error, which leaves what was done before it
(Domains), and a crash of the game, which leaves only the files on disk (Recovery).

Handlers that call half a dozen functions, each reading what the one before it has
written, are modelled as functions from a record of all the variables involved to
the next such record (`State` and `Becomes` in Heap and Combat, `Tables` and
`Commit` in Domains, `npc` in Sequence): writing the action as the composition of
these functions keeps the order of the calls.

Fairness is assumed of the driver alone, never of a player, wizard or mobile:

- `FairShutdown` of Shutdown: call-outs that are due run, and time goes on (`Fire`,
  `Tick`); the driver keeps call-outs in a queue ordered by time and looks at it
  between any two commands.
- `FairSpec` of Sequence: the heart beat of a mobile does not stop (`Tick`).
- `FairSpec` of Recovery: the call-outs of `load_recover_files` and
  `slow_load_recover_files` run.

All of it is weak fairness: none of these steps is disabled by what others do, except
by something that ends the need for it as well. Everything else that is checked is
safety.

## Inventory

| Component | State it keeps | Operations | What is hard about it | What makes it correct | Module |
|---|---|---|---|---|---|
| Heaps (`std/heap.c`, food, coins) | number of items, items to leave behind, a mark that it is to be destructed | split, restore, merge, leave a clone behind, destruct itself | a split is only noted and undone by a call-out; a heap that merged lives until another call-out | no two heaps that should be one; every split is about to end; items and weight are conserved | Heap |
| Commands on things (`std/cmd/live/things.c`) | none | get, put, drop, give, hide, reveal, look | they split heaps before they know what they will do | as heaps | Heap |
| Containers (`std/container.c`, `std/object.c`, `std/receptacle.c`) | running totals of light, weight, volume; open or closed | move with its eleven answers, remove, change of a property, open, close | each change is a message up the chain of containers that a later message must take back exactly | the totals are the sums; limits hold; removal is recursive | Containment |
| Combat (`std/combat/cbase.c`, `std/living/combat.c`, kill/spar/stop of `social.c`) | enemies, target, heart beat, sparring partners, offers of peace | attack, hunt, strike, panic, die, stop fighting, walk out | each fight is a fact in two objects, changed in eight places | target is an enemy; enmity begins and ends on both sides; who is attacked fights back | Combat |
| Teams (`std/living/combat.c`, team of `social.c`, `std/living/move.c`) | my_leader, my_team, team_invited, brief mode | invite, join, leave, disband, assign leader and rear, follow | membership is a fact in two objects, and destructed members are zeros | one level deep, listed by its leader, only the led follow | Team |
| Money (`coins.c`, `lib/language/money.c`) | heaps of four kinds of coin | take, give, find, condense | the right heap must be found among those about to vanish | value is conserved | Trade |
| Bank, shop, pub (`obj/lib/trade.c`, `shop.c`, `bank.c`, `pub.c`) | none of their own: limits and fees | buy, sell, change, minimize, order | coins are chosen in two passes; change may be too heavy; goods move before or after the money | goods for their exact price, nothing lost when half of it fails | Trade, Purse |
| Domains (`secure/master/fob.c`, souls of the wizards) | tables of wizards, domains, applications | promote, demote, draft, expel, leave, found, remove, apply | every fact is kept twice; a runtime error ends a command half way | member lists, ranks, offices and limits agree | Domains |
| Shutdown (`secure/armageddon.c`, `secure/master.c`) | minutes left, a call-out | ask, count down, call off | one chain of call-outs must neither fork nor be forgotten; the intervals change | the time asked for is kept; what is called off is over | Shutdown |
| Mobiles (`std/act/*`, `std/living/notify_meet.c`) | sequences of commands, positions, a delay, a heart beat | fill, take one, clear, sleep, wake | a command changes the sequence it comes from; one delay serves all; sleep and waking are two objects' business | each command once and in order; who has something to do is awake or will be | Sequence, Streams |
| Players, login (`std/player_sec.c`, `std/player/cmd_sec.c`, `secure/login.c`) | what is in the player file, what is to be recovered, call-outs | save, quit, come in, come back, recover | things are in the world, in the file and in a closure, one after the other; the game crashes | nothing doubled, nothing lost, but by a crash | Recovery |
| Death (`d/Standard/death`, `login/ghost_player.c`) | ghost, reincarnation | die, come back | the body is replaced | the fight ends with it | Combat |
| Worn items (`weapon.c`, `armour.c`, `wear.c`, `wield.c`, `hold.c`) | slots of the body, the object in each | wear, wield, remove, leave_env | items move or vanish while worn | one item per slot, both sides agree | planned |
| Doors (`std/door.c`) | open, locked, of two objects | open, close, lock, pick | two halves in two rooms | the halves agree | planned |
| Effects (`paralyze.c`, `poison_effect.c`, `spells.c`, `living/spells.c`) | duration, call-outs | start, stop, dispel | ends early, victim leaves or dies | what was taken is given back once | planned |
| Rooms (`std/room/*`) | exits, what to clone at reset | reset, add_exit | objects wander off between resets | no more clones than asked for | planned |
| Mail, editors, boards, soul, language, maps, telnet | texts | reading and writing texts | formatting and files | — | — |

How they interact: commands call functions of the objects they name; `move` tells
both environments and the object (`leave_inv`, `leave_env`, `enter_env`,
`enter_inv`), through which containers, heaps, worn items and fights react to it;
a living asks its own combat object, which calls the livings it fights, which call
their combat objects in turn; trade is made of heaps that are emptied and filled;
a player that comes into a room wakes the mobiles in it; the souls of the wizards
ask the master, which keeps the tables and passes shutdowns on to Armageddon.

## The modules

Each component has a module with its state, its operations and its properties, an
`MC…` module with what the model checker needs, one `.cfg` per run, and, where
something is proved, a `…Proofs` module that extends the first. Purse and Streams are
abstract specifications, which Trade and Sequence implement. The definitions that
change another one the way a plausible slip in the code would (named *mutants* in
the comments, next to the definition they change) are there to show that every
property can fail.

### Heap

One object stands for many alike items. A heap is identified by its object;
identities are used again once an object is destructed.

| Model | Code |
|---|---|
| `count`, `leave`, `hide`, `dying` | `item_count`, `leave_behind`, `OBJ_I_HIDE`, `TEMP_OBJ_ABOUT_TO_DESTRUCT` |
| `restores`, `removals` | call-outs of `restore_heap` and `remove_object` that are due |
| `held` | `cont_cur_weight` of the holder: what its books say |
| `SplitHeap`, `RestoreHeap`, `SetHeapSize`, `Leave`, `Enter`, `ForceHeapMerge` | the functions of `std/heap.c` of those names (`leave_env`, `enter_env`) |
| `Named`, `Get`, `Drop`, `Hide`, `Reveal`, `Eat` | the commands, from the parser's `filter_first` to the last move |

`Name` is any command that names items and then does nothing with them, which is
how a split can stay pending. `give` is such a command: as the parser stands it
never moves anything. All heaps are of one kind, an item weighs 1.

The interesting part is what lies between a command and its call-outs. `NoTwins`
is what `enter_env` and `force_heap_merge` rely on; `SplitIsPending` says that what
is out of order is about to be put in order. Conservation of items and weight does
*not* hold, and the model says in which cases only it fails: `TotalIsExplained` for
the items, `DriftNeedsSplit` for the weight.

### Team

`leader[p]` and `team[p]` are `my_leader` and `my_team` of `std/living/combat.c`,
in which a member that left the game is `Nobody`; `invited` is `team_invited` of the
player; `brief` and `backup` are the option that joining a team sets and leaving it
resets. Every subcommand of `team` is an action, with its checks of who is present.
Players are called `Heroes` and rooms `Sites`: the module shares its proofs with Combat.
`WalkAhead` moves a leader and, from `follow_leader`, those who follow; `Quit` removes a
player and every reference to it at once, as the driver does; `Login` brings it back.

`LedIsListed` is the important one: whoever has a leader is in that leader's list
and leads nobody. The other direction fails (see below), and `StaleByExpulsion` says in
which way only: a list comes to name somebody who has another leader, or none, when a
player who does not lead him expels him, or because he was on another such list when
that one was used. `NoUninvitedMember` says that an invitation out of date lets nobody in.

### Combat

`enemies`, `attack` and `heart` are the list, `attack_ob` and the heart beat of the
combat object (`std/combat/cbase.c`); `recent` stands for `combat_time` being less
than 30 seconds ago; `sparring`, `offers` and `ghost` belong to the living. `Beat` is
a heart beat of the combat object with everything that follows from it: the choice
of a target, the blows, the death of one of the two, panic and flight into another
room and the fights that wait there. `Kill`, `Spar`, `Stop`, `Peace` and `Walk` are
commands; `WalkFails` is a `move_living` that is refused after the fight has already
been broken off; `Die`, `Fetch`, `Destruct` and `Born` are death by poison, the
ghost's return, and monsters that come and go.

How hard a blow is, whether it kills, who panics and who sees whom is left open.
Left out: the rest of the team in a fight, link-dead players (who are struck off
five seconds later), hiding (`reveal_me` has nothing to reveal, since nothing here
hides), enemies that cling (nothing in the library sets `LIVE_O_ENEMY_CLING`), bows,
backstabs and the immunity of wizards. The ghost of a player is moved to the death
room by the same step that kills it (`d/Standard/death/death_mark.c`).

`TargetIsEnemy`, `EnmityIsMutual` and `BoutIsOver` relate the pieces that two combat
objects keep of one fight. `FoesAreAnswered` and `IdleNeedsStop` relate the list to
the heart: the second states the only way for a living to have a target and stand
still.

### Containment

`light`, `weight` and `volume` are `cont_cur_light`, `cont_cur_weight`,
`cont_cur_volume` of each container. `UpdateInternal` is `update_internal`: a change
inside a container goes up through those around it, reduced (livings halve the
weight of what is *in* what they carry, `CONT_I_REDUCE_WEIGHT`) and without the light
if the container is shut. `Move` is `move` of `std/object.c` with all its refusals
(`MayMove`) and, after the driver's `move_object`, its four notifications in their
order; `ForceMove` is `move(dest, 1)`. `RemoveObject` removes the contents first, each of
them telling the containers around; `Shine`, `Dim`, `Open`, `Close` go through
`notify_change_prop`.

Left out: containers whose inside is a room, sublocations, locks (a lock only
keeps a box from being opened), `prevent_leave` and `prevent_enter`, which only
refuse, and the automatic split of a heap that is too heavy, which is in Heap.
Nothing in the library changes transparency, rigidity or volume of a container that
is somewhere, so these are constants. (For transparency that is fortunate:
`notify_change_prop` has the sign right for `CONT_I_CLOSED` only.)

`LoadIsTrue` and `LightIsTrue` say that the running totals are the sums they stand
for, whatever was carried, shut, lit and destroyed since. They hold when no reduction
is ever rounded; see below for when it is.

### Trade and Purse

| Model | Code |
|---|---|
| `purse[p][k]` | the heaps of kind k on p, the newest first: the order in which `present` looks, so that `what_coins`, `money_move` and `take_money` see the first |
| `dying` of a heap | it was set to 0 coins and its `remove_object` is due |
| `floor[p][k]` | coins p could not carry, dropped (`money_move` with the environment) |
| `CalcCoins`, `CalcChange`, `Split`, `Merge` | the arithmetic of `trade.c` and `money.c` |
| `Remainder`, `Keep` | `take_money`: which coins remain, and the heaps set to their new size |
| `Buy`, `Sell`, `Order`, `Eat`, `Change`, `Minimize` | `buy_it`, `sell_it` of the shop, `order` of the pub, `change` and `minimize` of the bank |
| `Sweep` | the call-outs that destruct emptied heaps |

The other party of a trade is always the argument 0: coins come from nowhere and go
there. `heavy` is the set of kinds of coin the player is too laden to take, one
answer per kind and command. The shop's greed is inside the
prices; the coins and the change a player asks for (`want_to_pay`, `want_to_get`) are
the parameters `ks` and `top` of the actions, and `Change` names one kind wanted. The
words for the change reach `calc_change_str` as they were typed (`shop.c:827`): where they
name no coin (`top = 0` of `Words`), every limit is 0 and nothing is given, to those who
buy as to those who sell.
Left out: pending splits of coins, which are in Heap; false money, an error path that
`change_money` never takes; `move_coins` and `move_cointypes`, whose rollback has no
caller; lists, appraisals and the store room's limit (`store_support.c` still calls
the alarms of the old driver). `Learn` of `lib/skill_raise.c` pays the way the pub does.

`LastingIsFound` is the fact that makes `present` enough: the only heap of a kind that
lasts is the one found. `FairTrade` is the refinement of Purse, below, with `ExactPrice`:
who asks for change in coins that there are pays the price and nothing more. `ChangeLasts`
fails (`trade_lasts`).

### Domains

`m_wizards`, `m_domains` and `m_applications` are the mappings of
`secure/master/fob.c`, starting from what `load_fob_defaults` installs. A command works
on the three tables through a record with an `error` flag: where the code indexes a
domain that does not exist, `Fail` leaves what was done and the rest is not done.
`Vacate`, `Seat` and `ChangeRank` are the three parts of `do_change_rank` (the holder of
an office is demoted before the new one is seated), `AddToDomain` is
`add_wizard_to_domain`, `Settled` the end of `wizard_change_rank`, `Discharge` what
`remove_domain` does to each member. Who gives a command matters only in that he may:
`Allowed` asks whether there is anybody.

`accept`, `deny`, `regret` and a second application to the same domain call `member`
with the arguments exchanged and always end in an error before any change
(`fob.c:1022`, `1094`, `1151`, `1198`, `1257`): they have no action. `add_student`
suffers from the same, so there are no mentors. Not modelled: `rename_wizard`, global
read, teams, restrictions, levels, `create_wizard`.

`MembersAgree` relates the wizard's own entry to the lists of members;
`OfficesDriftByDraft` says in which one way only offices and ranks come apart;
`ApplicantsAreFree` and `NoCrowding` follow a fact through every way into a domain.
All have the installed defaults among their states, with the one wizard (danne) who is
put into a domain without being listed in it.

### Shutdown

Time is in minutes. `shutdown_shutter`, `shutdown_delay` and `mem_fail_flag` are the
variables of `secure/armageddon.c`, `alarms` the call-outs of `shutdown_dodelay` by the
minutes until each is due: a *sequence* of them, because that there is one at most is
what has to be shown. `left` counts what was asked for, by a clock of its own.
`DoDelay` is `shutdown_dodelay`, `Period` its intervals, `Cancel` is `cancel_shutdown`
with `remove_call_out`; `Request`, `RegularReboot` and `MemoryFailure` are the ways the
master asks for a shutdown, the last two by what a wizard gives as his reason. `Fire`
runs a call-out; `Tick` lets a minute pass when none is due.

As wired at this commit: `shutdown_alarm` is never set, so `shutdown_active` is always 0 and
the login's test of it is commented out; `external_signal`, `slow_shut_down`,
`check_memory` and the hooks of the old driver are never called; after a memory
failure nobody can cancel; and `do_debug("shutdown")` is no command of the driver
(`master.c:529`), so the end of the count-down (`asked`) does not end the game. The first thing
`start_shutdown` does is a call to `/secure/queue` (`armageddon.c:216`), and there is no
`secure/queue.c` among the files, only the one of the old driver (`secure/secure/queue.c`).
Shutdown supposes that the game has it, as it would by a symbolic link; where it has not, the
call fails before `shutdown_shutter` is set, and no shutdown ever begins.

### Sequence and Streams

`npc` holds the variables of `std/act/seqaction.c` under their names, and of
`notify_meet.c` how often `seq_restart` is among those to be called. `Tick` is two
seconds of the game with the heart beat in them: every sequence that has something left
takes one turn (`Serve`), a delay is shortened by the steps that have passed,
`monster_do_chat`, `monster_do_act` and `monster_do_pick` clear and refill the very
sequence they come from, and if no player was near for a while the mobile goes to
`Sleep`. A command in a sequence may be an exit: then the beat also changes the
`company`. `Arrive`, `Leave`, `Revive` are players; `Program` is a creator's code
(`add_act`, `add_chat`, `set_pick_up`, `seq_new`, `seq_addfirst`, `seq_addlast`,
`seq_delete`, `clear_act`).

One delay (`seq_delay`) is shared by all sequences, `next_step` is how many steps it
stood for, and what is left of a longer one is written back into its sequence: `Served`
says that no sequence starves for it. `NeverForgotten` and `SleepsAlone` say that
waking works; the two cases in which a mobile sleeps in a player's presence are spelled
out by the history variable `missed`. `InOrder` is the refinement of Streams.
Left out: what the commands do, triggers and answers (`trigaction.c`), `add_things`, the
limit of ten sequences (`SEQ_MAX`: beside the mobile's three there is one here),
and `domove.c`, which still calls the alarms of the old driver.

### Recovery

| Model | Code |
|---|---|
| `disk[p]` | `recover_list` in the player file |
| `list[p]`, `starting[p]` | `recover_list` in the object, and the call-out of `load_recover_files`: "soon", "late" (logged in past `F_RECOVERY_LIMIT`), or "saved" when the list has been made anew since |
| `queue[p]` | what the closure of `slow_load_recover_files` has left |
| `autosave[p]` | a call-out of `save_me` |
| `things[i, place, frail]` | how many things of a kind lie where; a frail one is a weapon with `will_not_recover` |

`Login` is `enter_game`, with a new password or not; `Quit` is `quit`, in its order:
mortals drop what they cannot recover, the list is saved, everything goes.
`SaveCharacter`, `Autosave`, `Die` save with all; `LoseLink` and `Revive` are the link;
`Handle` and `Walk` change what there is to save and where. `Crash` is possible in every
state: the world is fresh again, and only `disk` is left. `SlowLoadRecoverFiles` takes one
item off the closure and asks for itself again *before* it clones the item, so that one which
cannot be cloned, or whose `init_recover` refuses, is lost for good, and alone: the step in
which `things` stays as it is.

Left out: `query_manual_reboot` (`cmd_sec.c:215` and `:388`: while a shutdown that a wizard
asked for is counting down, frail things are saved and not dropped; each is then in the
player file in place of on the floor, so that both accounts hold either way), things that
cannot be dropped, auto-loading items, containers (a list is of the whole inventory), and the
refusal to quit in a fight. `LoseLink` leaves the body in
the game for good: the master's `disconnect` does nothing, `linkdie` has no caller.

`GainIsExplained` and `LossIsExplained` account for every thing: the sum of what lies
in the world, on disk, in lists and in closures changes only in the named ways. An item that
fails to come back is one of them (`FailsToRecover`), if nothing else is lost with it.
`RecoveryEnds` is the liveness of the closure. `StoredIsRecovered` fails.

## Runs and bounds

| Run | Bounds | What it shows |
|---|---|---|
| `heap` | 4 heap objects, 2 livings who can carry 2, 2 items at first, at most 3 in all, books wrong by at most 1, 2 call-outs outstanding | `TypeOK`, `NoTwins`, `SplitIsPending`, `TotalIsExplained`, `DriftNeedsSplit` |
| `team` | 4 players, 2 rooms, 1 of whom invites, quits and returns | `TeamTyped`, `LedIsListed`, `StaleByExpulsion`, `NoUninvitedMember` |
| `combat` | 2 players and a monster, 2 rooms, lists of 2 | `TypeOK`, `TargetIsEnemy`, `FoesAreAnswered`, `IdleNeedsStop`, `EnmityIsMutual`, `BoutIsOver` |
| `containment` | a room, 2 livings, a bag, a chest, a torch, a stone; weights are multiples of 4 | `TypeOK`, `LoadIsTrue`, `LightIsTrue`, `WithinLimits` |
| `containment_drift` | the same, but a stone weighs 5 | a finding |
| `trade` | 1 customer, 2 goods, 3 kinds of coin worth 1, 2 and 6, every purse worth up to 7, 2 meals, 2 dying heaps | `TypeOK`, `LastingIsFound`, `FairTrade` |
| `trade_lasts` | the same | a finding |
| `domains` | the installed defaults and a player; danne and the player are handled, limits and `DOMAIN_MAX` 2 | `TypeOK`, `MembersAgree`, `NoCrowding`, `ApplicantsAreFree`, `OfficesDriftByDraft` |
| `shutdown` | an arch, another wizard, delays on both sides of every threshold | `ShutdownTyped`, `CancelledIsOver`, `TimeIsKept`, `CountsDown` (fair) |
| `sequence` | the mobile's three sequences and one of the creator's, delays 2 to 4 beats, 2 changes by the creator | `TypeOK`, `NeverForgotten`, `SleepsAlone`, `InOrder`, `Served` (fair) |
| `recovery` | a mortal, a wizard, a kind of weapon, at most 2 of it | `TypeOK`, `GainIsExplained`, `LossIsExplained`, `RecoveryEnds` (fair) |
| `recovery_stored` | the mortal alone | a finding |

Why these are enough.

*Heaps*: a heap splits in two and merges in pairs; four objects allow two heaps each
with a leftover, or a merged heap inside a merged one; with a third item the larger
side of a split can be split again. `MaxTotal` and `MaxDrift` stop a run in which items
multiply or the books go wrong more than once, `MaxCalls` limits the call-outs
outstanding after a command; all are guards on commands, never on call-outs.
*Teams*: four players make a leader with two members and an outsider, or two teams. The
one who invites can hand over the leadership, so the one who quits may be a leader, a
member or an outsider. *Combat*: a third party is needed for every hazard (a fight one
flees from and a fight one runs into), and a list of two holds every other living, so
that no list is full. With `MaxEnemies = 1` `TargetIsEnemy` and `EnmityIsMutual` fail: the
eleventh attacker of the code is a target that is not listed, and lists one who does not
list him. The other three action properties hold of full lists too. *Containment*: a living that carries a chest
that holds a bag (or the other way round) is the deepest nesting in which a reduced
container holds a shut one.

*Trade*: the choice of coins works kind by kind with its neighbours, so a lowest, a
middle and a highest kind have all cases; purses of every composition up to one highest
coin and one lowest are initial states, and every change of coins leads to another. The
values 1, 2, 6 stand for 1, 12, 144, 1728: each divides the next, as assumed. A third dying
heap of a kind is like the second. Customers share nothing but the store, so one is
enough. *Domains*: an office has one holder and one successor, so two handled wizards
make every conflict over it beside the keeper and liege who are there by default, and a
limit of two can be met and exceeded. *Shutdown*: each delay is one from which every later
interval is passed; the two wizards differ in what they may. *Sequence*: the sequences
interact through the delay alone, of which there are a short and a long one, and two
changes put a program before, behind or in place of another one. *Recovery*: with two
of a thing one can be saved and another owed to somebody; `MAX_COPIES` is a guard of
every step (`Bounded'`), a duplicated thing can be saved but not duplicated twice.

Symmetry is used for heaps, rooms, players and livings that are alike, and never with
liveness. Deadlock is not checked where the system may really stop: in `heap` (all may
have been eaten), `containment` (all may have been removed), `trade` (no money, no goods
and no meals left), `domains` (nobody is left who may do anything), `shutdown` (after a
memory failure the count-down ends and nothing follows), and `recovery`, where with
`MAX_COPIES` things about every further step may be beyond the bound.

## Refinement

**Trade implements Purse.** Purse knows two numbers per player: what the lasting coins are
worth, with those dropped beside him (`sound`), and what lies in heaps about to be
destructed (`doomed`). Its steps are what a customer may count on: goods for their price
and less than the dearest coin more (that is what one leaves who asks for change in no coin
that there is; `ExactPrice` of Trade says that nobody else leaves anything), meals for exactly theirs, at most the price
for what is sold, a bank that never gives more than it takes, but to somebody who
minimizes while something of his is doomed (at most as much again, see [below](#where-code-and-documentation-disagree)), and no
loss but by `Sweep`, the call-outs, of what was doomed before. The mapping (`P` in Trade)
adds up the heaps of `purse` and `floor`. What makes it hard is in between: coins are
chosen kind by kind, change is worked out from the kinds that are left, is refused by a
laden customer and dropped, and is written into a heap that may be one that is to go.
`FairTrade`, which is both, is model-checked in `trade` and proved (below).

**Sequence implements Streams.** Streams knows a queue per name. A beat takes at most the
first command of each; a delay at the head may also only become shorter; a function at
the head may put a program of its own in its place that leads back to it; and a creator
puts programs first, last or in place of all. The mapping takes off what `seq_cpos` has
passed. `InOrder` is model-checked in `sequence` and proved (below). It needs no
invariant on the abstract side, but the concrete one must know that a position never
exceeds its commands and that a name that is not there has none.

## Proofs

`tlapm` checks, for every value of the constants that satisfies the module's assumption:

| Module | Theorem | States |
|---|---|---|
| LivingProofs | `TeamTypes` | `TeamSpec => []TeamTyped` |
| | `TeamLedIsListed` | `TeamSpec => []LedIsListed`: teams are one level deep |
| | `TeamStaleByExpulsion` | `TeamSpec => StaleByExpulsion`: lists of members go wrong in one way only |
| | `TeamNoUninvitedMember` | `TeamSpec => NoUninvitedMember`: nobody is led who was not invited, or of the team already |
| | `CombatTypes` | `Spec => []TypeOK` |
| | `CombatTargetIsEnemy` | `Spec => []TargetIsEnemy`, if every list has room for all |
| | `CombatFoesAreAnswered` | `Spec => FoesAreAnswered`: who has a new enemy fights |
| | `CombatIdleNeedsStop` | `Spec => IdleNeedsStop`: the one way to idle with a target |
| | `CombatBoutIsOver` | `Spec => BoutIsOver`: a bout ends for both |
| | `CombatEnmityIsMutual` | `Spec => EnmityIsMutual`, if every list has room for all |
| HeapProofs | `HeapTypes` | `Spec => []TypeOK` |
| | `HeapSplitIsPending` | `Spec => []SplitIsPending`: a split is always about to be undone |
| | `HeapNoTwins` | `Spec => []NoTwins`: no two heaps that should be one |
| | `HeapDriftNeedsSplit` | `Spec => DriftNeedsSplit`: the books of a living go wrong in one way only |
| | `HeapTotalIsExplained` | `Spec => TotalIsExplained`: items are lost and made in the named ways only |
| DomainsProofs | `DomainsTypes` | `Spec => []TypeOK` |
| | `MembersAgreeAlways` | `Spec => []MembersAgree`: entries and lists of members agree |
| | `NoCrowdingAlways` | `Spec => []NoCrowding`: no domain is over its limit |
| | `ApplicantsAreFreeAlways` | `Spec => []ApplicantsAreFree`: who has joined applies nowhere |
| | `OfficesDriftByDraftAlways` | `Spec => OfficesDriftByDraft`: offices and ranks come apart in one way only |
| ContainmentProofs | `ContainmentTyped` | `Spec => []TypeOK` |
| | `LightAlwaysTrue` | `Spec => []LightIsTrue`: the light of a container is that of what is seen in it |
| | `NothingIsLost` | `Spec => []~Orphaned`: nothing is inside what has been removed |
| | `LoadAlwaysTrue` | `Spec => []LoadIsTrue`, if nothing is rounded (`Exact`) |
| | `AlwaysWithinLimits` | `Spec => []WithinLimits`, if nothing is rounded |
| | `EmptyAlwaysWeightless` | `Spec => []EmptyIsWeightless`, if nothing is rounded |
| TradeProofs | `TradeTypes` | `Spec => []TypeOK`: nobody pays with more coins than there are |
| | `TradeLastingIsFound` | `Spec => []LastingIsFound`: what lasts is what `present` finds |
| | `TradeFair` | `Spec => FairTrade`: Trade implements Purse, with exact prices for those who name a coin |
| SequenceProofs | `SequenceTypes` | `Spec => []TypeOK` |
| | `SequenceNeverForgotten` | `Spec => []NeverForgotten`: who has something to do is awake or will be |
| | `SequenceSleepsAlone` | `Spec => []SleepsAlone`: no sleep beside a player but in two cases |
| | `SequenceInOrder` | `Spec => InOrder`: Sequence implements Streams |
| RestartProofs | `TypeCorrect` | `ShutdownSpec => []ShutdownTyped` |
| | `CancelEndsIt` | `ShutdownSpec => []CancelledIsOver`: a cancelled shutdown leaves no call-out |
| | `CountDownKeepsTime` | `ShutdownSpec => []TimeIsKept`: the minutes said are the minutes left |
| | `RecoveryTypes` | `Spec => []TypeOK` |
| | `RecoveryGainIsExplained` | `Spec => GainIsExplained`: things are doubled in the named ways only |
| | `RecoveryLossIsExplained` | `Spec => LossIsExplained`: things are lost in the named ways only |

LivingProofs is about the two things that `std/living/combat.c` keeps of a living, its team and
its fights; RestartProofs about both parts of a restart, Shutdown and Recovery. Sums has the
lemmas on sums that HeapProofs, ContainmentProofs, RestartProofs and TradeProofs need, and the
one on smallest sets and numbers that most of the modules need.

What the assumptions ask for is little: that the sets of players, livings and heaps are
finite, that names that mean nobody, nothing or a hospital are not those of somebody, that
limits are natural numbers, and for money that the values grow, each dividing the next (`TradeAssumption`, with the limits on
change that `trade.c` and `bank.c` configure, the bank's fee and the prices left open). One more is
made in two theorems only: `Roomy`, that there is room for all other livings on a list of
enemies (`Cardinality(Livings) <= MaxEnemies + 1`, as in the run; the code has 10). It is
needed: with full lists both properties fail (see [Runs and bounds](#runs-and-bounds)). And
the three theorems on load and limits suppose `Exact(unit)`: each container has a unit that
divides whatever may be in it, so that no division of `update_internal` is rounded. TLC
evaluates it for the weights of `containment` (`MCExact`; with the stone of
`containment_drift` it is false, and there the theorems' conclusion fails too).

*Teams.* `TeamTyped /\ LedIsListed` is inductive as it stands. The commands differ in
who is taken out of which team and who joins; what they share is stated about two
functions `ld` and `tm` in place of the variables (`WellFormed`): taking members out
(`SocialTeamLeaveInv`) and letting players without a leader join (`JoinInv`) keep teams
in order, and `RejoinInv` composes the two for the commands that reorder a team. The
argument for `LedIsListed` is that `set_leader`, which overwrites without looking, is
only ever called on somebody who has no leader, or is given the leader 0.

`NoUninvitedMember` needs no more than the types: clearing leads nobody anew
(`ClearLeads`), joining leads only those who were asked to (`JoinLeads`), and each command
that lets members join again takes them, and the one who leads them, from one team
(`RejoinBelongs`).

*Heaps.* `SplitIsPending` is not inductive by itself: it needs that a heap that does
not exist has no items, no split and no call-outs, or a new clone would come with a
split of its own. The invariant `IInv` says this of the record of all heaps (`Sane`),
and one lemma per function of the heap says that it keeps `Sane` (and does not
disturb the existence of other heaps, `Keeps`), so that each command is a chain of
them. The driver's recycling of identities is the reason for `HasFree`: a leftover
needs an object that does not exist.

`NoTwins` does not hold within a command: the heap that is on its way may lie beside its
twin until `enter_env` looks. `Apart(S, X)` says that there are no twins but for
heaps of `X`, and each function takes the heap in hand into `X` or out of it. For the
weight, `Book(S, p, X)` is what the holder's total says beyond what the heaps in p
weigh, without those of `X`; every function moves heap and weight together or keeps
both, but for `split_heap` of a heap already split. For the items the sum is over all
heaps that are not about to be destructed (`Live`); `Accounts` says how a function
changes it, and that a merger with a heap whose split is pending (`Overrun`) and the
handling of one that awaits its destruction (`Waiting`) are the only ways not to keep
it. That sum needs one more invariant (`Buried`): what is inside another heap has been
merged into it and its destruction is due, so that it does not count.

*Combat.* A command runs the combat objects of several livings one after the other, each
with the lists that the last one has written, so nothing is proved of actions before
it is proved of functions of the state of all livings: what each of them changes is a
predicate (`Engaged` of `cb_attack`, `Ceased` of `cb_stop_fight`, `Looked` of
`cb_update_attack`, `Left`, `Gone`, `Buried`), with a lemma for each. The inductive
invariant is `Fit`: the types (`Sane`), ghosts and nobody else are in the hospital
(`Places`; without it an attack on a ghost could start in a room), and, if lists are
`Roomy`, whom one attacks is on one's list. `Good(S, T)` says all that is claimed of a
step from S to T, and every action is shown to be `Good`.

Three families of steps make up the proof. A fight that gets fiercer (`Rising`): who
attacks or is attacked, whoever sees an enemy come or runs into several. Such steps
compose, only add enemies, and leave everybody they touch with a beating heart and a
target. A fight that ends for two (`Truce`), for one with all who are there (`Left`),
for one with everybody (`Calmer`), or with a death. And the round of blows, in which both
come together and `Fit` does *not* hold throughout: when the opponent is a player and
dies, whoever killed him aims at a ghost that he no longer lists, perhaps while he flees
into another room full of enemies, until `cb_update_attack` corrects it. `Flying` allows
that one exception, and `Struck` and `Fought` carry through the round what has been done
to whom since it began. That two who end their bout do not fight at the end of the
step, although the winner may flee and be set upon in the same step, needs that
an arrival sets nobody on one who is not on either's list (`Apart`).

*Containment.* Nothing is inside itself, or a message would never end; the invariant says
so by ranks that grow on the way out (`Nested`). Then the containers around one form a
chain, and `update_internal` at c by d changes those of the chain and no other. The step
from the chain to the books is a *gap*: what a container's total says beyond what the
things in it report (`Gap`). A message from c opens the books of c by d and of nobody else,
since every container further out takes for itself what its own content now reports
more. So the four messages of a move can be added up: those of the old environment open its
books by what `move_object` has just taken out of it, those of the new one likewise, and the
books are balanced again (`LightBalanced`, `LoadBalanced`); when both lie on one chain it
matters that what o itself reports does not change in between (`Spared`). What is true of
light is true of load only if reducing is additive, and that is what rounding destroys:
`Exactly` says that totals are multiples of the unit of their container. Removal is
recursive; `Gathered` says, by induction on the number of those removed, that the books are
balanced after each. `WithinLimits` is the limit checked in `move`, kept because nothing
in a container without containers becomes heavier by itself.

*Trade.* The invariant `Kept` is `TypeOK /\ LastingIsFound`; the work is in the coins, of which any
number of kinds may have any values that divide each other. What the functions of
`trade.c` and `money.c` compute is stated as an equation between values: the coins chosen
are there and worth at least the price (`CalcCoinsFacts`; the second pass, which takes dearer
coins from the top, finds one because what is still unpaid is less than what is left), change
is never worth more than what is due, and for the shop, whose limits allow it, exactly that
if the customer names a coin (`CalcChangeFacts`; else he leaves less than a dearest coin, as
no coin was chosen beyond need), and what `take_money` leaves is worth the difference
(`RemainderFacts`: going up the kinds, the rests of one are whole coins of the next). The
recursions of these functions are functions of the kind of coin; that they exist and what they
give is shown by going through the kinds one by one (`Upward`, `Downward`).
The second half says what becomes of the heaps. For the heaps of a kind in order (`Good`): at most
the first lasts. `LeaveFacts`, `ArriveFacts`, `KeepFacts` and `ReceiveFacts` say how
much of their worth is safe afterwards and how much is at risk (`Firm`, `Fading`), and
`Account` that the two numbers of Purse are those sums. So each command is an equation: worth
of what left, plus worth of the change, plus worth of what fell to the floor. `SellFair` needs that
the takings of several items may be added up in any order, `ChangeFair` that `pay` can never
fail for the sum `change` has worked out (`ChangeSumFacts`), and `MinimizeFair` the one exception of Purse:
if nothing is doomed the new coins hide nothing, so the old sum can be taken
(`NothingHidden`); else at most the old sum is given for nothing.

*Domains.* The three tables pass through a command as one record, with the `error` that ends
it half way; `Sound` is said of that record, so that it holds at every place where a
command may be cut short. Beside the four invariants it says that the holder of an
office is in some domain (`Titled`) and that nobody below a full wizard is in one, but for
danne (`Homeless`). `do_change_rank` and `add_wizard_to_domain` are taken apart into what
they do to ranks (`Reranked`) and to houses (`Rehoused`), for every rank and domain.
Removing a domain discharges its members in an order nobody knows; by induction on
those who are left, each discharge leaves `Sound` tables. `OfficesDriftByDraft`
looks at one domain at a time (`Agree(b, d)`): whichever way somebody comes into an office or
leaves it, entry and office are written together, but for the draft of somebody who already
had a title.

*Recovery.* `TypeOK` needs `OneRecovery`: a list that is still to be read and a closure
that has something left are never both there, or reading the list would drop
what the closure owes. (Only a login brings a list that is to be read, and a body that has
just come into the game has no closure.) The two accounts are sums over things and over
players; each command moves a thing from one summand to another, so the lemmas show the
two changes and that all else stays the same (`WorldPasses`, `WorldLeft`, `DebtChange`).

*Sums.* The models add up with `SumFunctionOnSet`, a fold that chooses the order by
`CHOOSE`. Sums shows that the order does not matter, what a sum is when one term or two
change, and that it is at least each of its terms when none is negative. None of the provers has an induction over
sets or sequences; where one is needed (there, in `RemoveDomain`, and for the lists
and chains of calls in Combat), the proof looks at a smallest set, or a first place, at
which the claim fails (`SmallestSet`, `SmallestNumber`, `FirstFailure`).

*Shutdown.* The invariant `ShutdownInv` is `ShutdownTyped`, the two properties, and `Asking`: once the
driver has been asked to end the game no call-out is left. The arithmetic is in `PeriodFits`: whatever the delay, the next
interval takes time and is never longer than what is left, so that the announced minutes
reach 0 exactly when the asked ones do. That there is one call-out at most rests on
`start_shutdown` being refused while somebody is shutting down, and on `cancel_shutdown`
taking the only one away before it forgets who was.

*Sequences.* `Good` says of the record `npc` what seqaction.c keeps in order: positions
within commands, nothing under a name that was deleted, the heart beating just while the
sequences are active, and at most one request to be woken, made only by a sleeper. Each
function of seqaction.c, chat.c, action.c and ranpick.c has a lemma: it keeps `Good`, and
it does such and such to the rest of the sequence it works on and nothing to the others
(`Apart`). The lemma of a turn (`ServeGood`) concludes that the queue before and after are
related by `Taken` of Streams; `ProcessGood` puts the turns together, `HeartBeatGood` adds
sleep, `QueuedGood` and `DeleteGood` are the creator's code. The invariant `IInv` adds the two
waking properties; that of a player's arrival (`ArriveInv`) needs `NeverForgotten` to
show `SleepsAlone`: who is not awake and has something to do is on the list of those to
be told. The first part of the module is about sequences and their rests, and about the
least of a set of numbers, which the library does not know.

Only model-checked:

- liveness (`CountsDown`, `Served`, `RecoveryEnds`), which this prover does not do;
- the three properties that fail, of which a counterexample is all there is to show.

## Where code and documentation disagree

Three have a run that shows it (`findings` in PROJECT.json):

- **containment_drift** Changes are halved and rounded one by one, and taken back as
  a sum: whoever has carried a filled bag may be left with a weight of −1, though
  `cont_cur_weight` is to be the accumulated weight.
- **trade_lasts** Change is written into the heap that `present` finds, also when that heap
  was emptied within the last second and its `remove_object` is due: "also handles giving
  back money", and a moment later the money is gone.
- **recovery_stored** A save within the second before `load_recover_files` runs makes the
  list anew from an empty inventory. Setting a new password at the login is enough.

Met on the way, without a run of their own. Where a model includes the code, it follows the
code.

- Heaps: `split_heap` returns without updating the state when all items are named ("It
  is ok …", `std/heap.c:207`), also while an earlier split is pending; the leftover
  clone takes over all properties, with the mark of a heap about to be destructed but
  no call-out (`:555`); `num_heap` may become negative after a heap smaller than its
  pending split is eaten.
- Teams: `team leave <people>` works on the members of other teams
  (`std/cmd/live/social.c:1501`): they leave, their leader keeps listing them; `team
  disband` releases only the members who are present (`:1349`); when a new leader cannot take
  over, the members of the error path are put back without a rear guard (`:1424`).
- Combat: `stop` refuses to offer peace to somebody one *is* fighting and offers it
  to anybody else (`std/cmd/live/social.c:1141`); the heart stops at once when no enemy is
  at hand, not "for another 30 seconds" (`std/combat/cbase.c:1594`).
- Containers: `move` asks the moved object, not the destination, whether it is closed
  (`std/object.c:764`).
- Bank: `minimize`, which "changes all coins into the most expensive type, minus a fee"
  (`obj/lib/bank.c:335`), gives the new coins before it takes the old ones and does not look
  whether it could (`:381`). This came out of the proof of `TradeFair`: where an emptied heap
  was filled again, with change or with what the shop pays, and waits for its call-out, the
  new coins go ahead of it and hide it from `what_coins`; `take_money` finds too little, takes
  nothing and returns 0, and the customer has both. With a fee of 0 and `MaxDying` 3 TLC reaches
  it in four commands: minimize 3 coins worth 2, eat, sell, minimize again. Purse allows it
  (`Minimize`), and `TradeFair` shows that it needs doomed coins and gives at most as much again.
- Money: "Max money given out in cc is 1000" (`obj/lib/trade.c:117`), where
  `MONEY_GIVE_MAX` is the value of a platinum coin, 1728 (`:193`).
- Domains: a new liege demotes whoever is listed as liege (`secure/master/fob.c:1930`), and
  the default tables list the keeper as the liege of Standard, so the keeper is demoted;
  `member` is called with its arguments exchanged in five places.
- Shutdown: `do_debug("shutdown")` does nothing (`secure/master.c:529`), although "If it is
  removed the game wont go down" (`:3727`); `shutdown_active` tests a variable nothing sets.
- Mobiles: an act that is to go on while nobody is near (`SEQ_F_NONSTOP`, comment at
  `std/act/action.c:36`) stops with the heart beat (`std/act/seqaction.c:92`).
- Players: the help promises two hours (`doc/help/general/recover:19`), the limit is two
  weeks (`inc/formulas.h:235`); it promises a save every five minutes
  (`doc/help/general/save:11`), which nothing starts (`std/player/cmd_sec.c:84`).
- Doors: `std/door.c` calls `member` with its arguments exchanged. Rooms: `reset_auto_objects`
  returns early without storing the clones it made (`std/room/objects.c`).

## What is not modelled

`components` in PROJECT.json lists every part with the reason. In short: text
(language, soul, boards, mail, maps, descriptions), formulas (hits, skills, stats,
healing), tools of wizards, which may change anything, and the answers of the
master to the driver, most of which have no state. These are the larger part of the
library, which is why the models stand for a small part of its lines. `secure/secure`
is the copy of the security directory for the old driver; nothing loads it. Some files
(`std/torch.c`, `std/armour.c`, `std/act/domove.c`, `obj/lib/store_support.c` among them)
still call the alarms of that driver, which this one does not have, and cannot be run;
they are modelled, where they are, by the function the alarm was to call.

## Plan

Done, in this order: Team, Heap, Combat, Containment, Trade with Purse, Domains,
Shutdown, Sequence with Streams, Recovery; proofs for all of them: Team, Heap, Shutdown,
Sequence, Domains, Recovery, Combat, Containment, and Trade with its refinement.

Next, most important first:

1. An abstract `Fight`, a symmetric relation on livings, and the part of Combat that
   implements it; the lemmas of LivingProofs say what each function does to that relation.
2. `Wield`: what is held in which hand, by weapons and by the combat object. Known so far:
   `cb_query_weapons` is always empty (`std/combat/cbase.c:1411`), `wielded_in_hand`
   survives `leave_env`, `std/armour.c` is not ported, and nobody inherits
   `holdable_item`; the properties have to be about what is left of it.
3. `Effects`: paralysis, poison and spells, composed with Combat's deaths and moves.
4. `Rooms`: exits, resets and the clones they look after. `Door`: the two halves, as the
   code would run if `member` were called properly.
5. `Combat`: teams and link-dead players in a fight.
6. `Mentors`, sanctions and guilds beside Domains.
