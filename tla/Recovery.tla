------------------------------ MODULE Recovery ------------------------------
(***************************************************************************)
(* What a player owns when he leaves the game, and when he comes back:     *)
(* saving (std/player/cmd_sec.c), logging in (secure/login.c) and the      *)
(* recovery of his things afterwards (std/player_sec.c).                   *)
(*                                                                         *)
(* Things are counted by kind, place and whether they can be recovered:    *)
(* a weapon decides that by chance when it is cloned (will_not_recover).   *)
(* The player file on disk survives a crash; nothing else does.            *)
(***************************************************************************)
EXTENDS Integers, FiniteSetsExt

CONSTANTS Players, Wizards,   \* the characters; those whose wizard level is not 0
          Items, Weapons,     \* kinds of things query_recover() knows; those that may fail to glow
          MAX_COPIES          \* the bound on the number of things of one kind

Rooms == {"start", "wild"}

ASSUME RecoveryAssumption == /\ IsFiniteSet(Players) /\ Players \cap Rooms = {}
                             /\ Wizards \subseteq Players
                             /\ Weapons \subseteq Items
                             /\ MAX_COPIES \in Nat \ {0}

VARIABLES status,    \* "off", "on", or "lost": in the game, but the link is gone
          room,      \* where the character stands
          things,    \* how many things of a kind lie at a place, frail ones apart
          disk,      \* the recover_list in the player file
          list,      \* the recover_list in the player object
          starting,  \* load_recover_files() is due: "soon", "late" past F_RECOVERY_LIMIT,
                     \* or "saved" if list and logout time are already new ones
          queue,     \* what the closure of slow_load_recover_files() has left
          autosave   \* a call-out to save_me() is pending

vars == <<status, room, things, disk, list, starting, queue, autosave>>

Places == Rooms \cup Players
Counts == [Items -> 0 .. MAX_COPIES]
Nothing == [i \in Items |-> 0]

(* Whether a new thing of kind i will recover is settled at its cloning.   *)
Frailty(i) == IF i \in Weapons THEN BOOLEAN ELSE {FALSE}

(* A room of the world holds one thing of every kind after a boot.         *)
Fresh == {[t \in Items \X Places \X BOOLEAN |->
             IF t[2] = "wild" /\ t[3] = f[t[1]] THEN 1 ELSE 0] :
          f \in {g \in [Items -> BOOLEAN] : \A i \in Items : g[i] \in Frailty(i)}}

Init == /\ status = [p \in Players |-> "off"]
        /\ room = [p \in Players |-> "start"]
        /\ things \in Fresh
        /\ disk = [p \in Players |-> Nothing]
        /\ list = [p \in Players |-> Nothing]
        /\ starting = [p \in Players |-> "no"]
        /\ queue = [p \in Players |-> Nothing]
        /\ autosave = [p \in Players |-> FALSE]

-----------------------------------------------------------------------------

(* The recoverable things a character carries, deep_inventory() of it.     *)
Lasting(p) == [i \in Items |-> things[<<i, p, FALSE>>]]

(* check_recover_loc(); the armageddon never says that it is active.       *)
RecoverLoc(p) == p \in Wizards \/ room[p] = "start"

(* What compute_recover_str(verb) stores of the things `held`.             *)
Recoverable(p, held, verb) == IF RecoverLoc(p) \/ verb THEN held ELSE Nothing

(* save_me(): the list is made anew, written to disk, and the autosave of  *)
(* a mortal begins to wait from now on.                                    *)
SaveMe(p, stored) ==
  /\ list' = [list EXCEPT ![p] = stored]
  /\ disk' = [disk EXCEPT ![p] = stored]
  /\ starting' = [starting EXCEPT ![p] = IF @ = "no" THEN @ ELSE "saved"]
  /\ autosave' = [autosave EXCEPT ![p] = status[p] = "on" /\ p \notin Wizards]

(* The things after those at place p have left: `dropped` says of a thing  *)
(* whether it went to place r, the others are no more.                     *)
Leaving(p, r, dropped(_, _)) ==
  [t \in Items \X Places \X BOOLEAN |->
     IF t[2] = p THEN 0
     ELSE things[t] + (IF t[2] = r /\ dropped(t[1], t[3]) THEN things[<<t[1], p, t[3]>>] ELSE 0)]

-----------------------------------------------------------------------------

(* enter_game(): the player file is restored and the recovery put off for  *)
(* a second.  One who had to set a new password is saved at once.          *)
Login(p) ==
  /\ status[p] = "off"
  /\ \E when \in {"soon", "late"}, new_password \in BOOLEAN :
       LET stored == IF new_password THEN Nothing ELSE disk[p]
       IN /\ status' = [status EXCEPT ![p] = "on"]
          /\ room' = [room EXCEPT ![p] = "start"]
          /\ disk' = [disk EXCEPT ![p] = stored]
          /\ list' = [list EXCEPT ![p] = stored]
          /\ starting' = [starting EXCEPT ![p] = IF new_password THEN "saved" ELSE when]
          /\ autosave' = [autosave EXCEPT ![p] = new_password /\ p \notin Wizards]
          /\ UNCHANGED <<things, queue>>

(* load_recover_files(), one second after the login.                       *)
LoadRecoverFiles(p) ==
  /\ starting[p] # "no"
  /\ starting' = [starting EXCEPT ![p] = "no"]
  /\ list' = [list EXCEPT ![p] = Nothing]
  /\ queue' = [queue EXCEPT ![p] = IF starting[p] = "late" THEN Nothing ELSE list[p]]
  /\ UNCHANGED <<status, room, things, disk, autosave>>

\* mutant of SlowLoadRecoverFiles: the closure is given the whole list again
SlowLoadForever(p) ==
  \E i \in Items : \E f \in Frailty(i) :
    /\ queue[p][i] > 0
    /\ IF queue[p][i] > 1 THEN UNCHANGED <<queue, things>>
       ELSE /\ queue' = [queue EXCEPT ![p][i] = 0]
            /\ things' = [things EXCEPT ![<<i, p, f>>] = @ + 1]
    /\ UNCHANGED <<status, room, disk, list, starting, autosave>>

\* mutant of SlowLoadRecoverFiles: the next call-out is asked for at the end, which
\* is not reached when the thing fails
SlowLoadEndsChain(p) ==
  \E i \in Items :
    /\ queue[p][i] > 0
    /\ \/ /\ queue' = [queue EXCEPT ![p][i] = @ - 1]
          /\ \E f \in Frailty(i) : things' = [things EXCEPT ![<<i, p, f>>] = @ + 1]
       \/ /\ queue' = [queue EXCEPT ![p] = Nothing]
          /\ UNCHANGED things
    /\ UNCHANGED <<status, room, disk, list, starting, autosave>>

(* slow_load_recover_files(), a thing every second.  One that can't be     *)
(* cloned, or whose init_recover() refuses, does not arrive; the call-out  *)
(* for the others has been made before.                                    *)
SlowLoadRecoverFiles(p) ==
  \E i \in Items :
    /\ queue[p][i] > 0
    /\ queue' = [queue EXCEPT ![p][i] = @ - 1]
    /\ \/ \E f \in Frailty(i) : things' = [things EXCEPT ![<<i, p, f>>] = @ + 1]
       \/ UNCHANGED things
    /\ UNCHANGED <<status, room, disk, list, starting, autosave>>

(* save_character(), and others that save with value_items set.            *)
SaveCharacter(p) ==
  /\ status[p] = "on"
  /\ SaveMe(p, Recoverable(p, Lasting(p), TRUE))
  /\ UNCHANGED <<status, room, things, queue>>

(* The call-out of start_autosave(), 300 seconds after the last save.      *)
Autosave(p) ==
  /\ autosave[p] /\ starting[p] = "no"
  /\ SaveMe(p, Recoverable(p, Lasting(p), TRUE))
  /\ UNCHANGED <<status, room, things, queue>>

(* do_die() of a mortal: everything goes into the corpse, then             *)
(* second_life() saves him.                                                *)
Die(p) ==
  /\ status[p] # "off" /\ p \notin Wizards
  /\ things' = Leaving(p, room[p], LAMBDA i, f : TRUE)
  /\ SaveMe(p, Nothing)
  /\ UNCHANGED <<status, room, queue>>

\* mutant of Quit: what can be recovered is saved, and dropped with the rest
QuitDropping(p) ==
  /\ status[p] = "on"
  /\ status' = [status EXCEPT ![p] = "off"]
  /\ things' = Leaving(p, room[p], LAMBDA i, f : p \notin Wizards)
  /\ disk' = [disk EXCEPT ![p] = Recoverable(p, Lasting(p), FALSE)]
  /\ list' = [list EXCEPT ![p] = Nothing]
  /\ starting' = [starting EXCEPT ![p] = "no"]
  /\ queue' = [queue EXCEPT ![p] = Nothing]
  /\ autosave' = [autosave EXCEPT ![p] = FALSE]
  /\ room' = [room EXCEPT ![p] = "start"]

(* quit(): a mortal drops what he can't recover, the rest is saved with    *)
(* him and removed.  His call-outs go with the object.                     *)
Quit(p) ==
  LET dropped(i, f) == p \notin Wizards /\ (f \/ ~RecoverLoc(p))
  IN /\ status[p] = "on"
     /\ status' = [status EXCEPT ![p] = "off"]
     /\ things' = Leaving(p, room[p], dropped)
     /\ disk' = [disk EXCEPT ![p] = Recoverable(p, Lasting(p), FALSE)]
     /\ list' = [list EXCEPT ![p] = Nothing]
     /\ starting' = [starting EXCEPT ![p] = "no"]
     /\ queue' = [queue EXCEPT ![p] = Nothing]
     /\ autosave' = [autosave EXCEPT ![p] = FALSE]
     /\ room' = [room EXCEPT ![p] = "start"]

\* mutant of LoseLink: the body goes, but not what is on it and under way to it
LoseLinkAndBody(p) ==
  /\ status[p] = "on"
  /\ status' = [status EXCEPT ![p] = "off"]
  /\ UNCHANGED <<room, things, disk, list, starting, queue, autosave>>

(* The link breaks.  The driver calls the master's disconnect(), which     *)
(* does nothing; only interactive() has become false.                      *)
LoseLink(p) ==
  /\ status[p] = "on"
  /\ status' = [status EXCEPT ![p] = "lost"]
  /\ UNCHANGED <<room, things, disk, list, starting, queue, autosave>>

(* start_player() finds the body still in the game, and revive()s it.      *)
Revive(p) ==
  /\ status[p] = "lost"
  /\ status' = [status EXCEPT ![p] = "on"]
  /\ autosave' = [autosave EXCEPT ![p] = p \notin Wizards]
  /\ UNCHANGED <<room, things, disk, list, starting, queue>>

(* A character walks from one room to the other.                           *)
Walk(p) ==
  /\ status[p] = "on"
  /\ \E r \in Rooms \ {room[p]} : room' = [room EXCEPT ![p] = r]
  /\ UNCHANGED <<status, things, disk, list, starting, queue, autosave>>

(* He picks up a thing, or puts it down.                                   *)
Handle(p) ==
  /\ status[p] = "on"
  /\ \E i \in Items, f \in BOOLEAN,
        way \in {<<room[p], p>>, <<p, room[p]>>} :
       /\ things[<<i, way[1], f>>] > 0
       /\ things' = [things EXCEPT ![<<i, way[1], f>>] = @ - 1,
                                   ![<<i, way[2], f>>] = @ + 1]
  /\ UNCHANGED <<status, room, disk, list, starting, queue, autosave>>

(* The game crashes and boots again: only the player files are left.       *)
Crash ==
  /\ things' \in Fresh
  /\ status' = [p \in Players |-> "off"]
  /\ room' = [p \in Players |-> "start"]
  /\ list' = [p \in Players |-> Nothing]
  /\ starting' = [p \in Players |-> "no"]
  /\ queue' = [p \in Players |-> Nothing]
  /\ autosave' = [p \in Players |-> FALSE]
  /\ UNCHANGED disk

-----------------------------------------------------------------------------

(* How many things of a kind there are: those in the world, and for every  *)
(* player those that are to come back to him.                              *)
Owed(p) == IF status[p] = "off" THEN disk[p]
           ELSE IF starting[p] \in {"soon", "saved"} THEN list[p]
           ELSE queue[p]

Copies(i) == SumFunctionOnSet(things, {i} \X Places \X BOOLEAN)
               + SumFunctionOnSet([p \in Players |-> Owed(p)[i]], Players)

(* No behaviour beyond MAX_COPIES things of a kind is looked at.           *)
Bounded == \A i \in Items : Copies(i) <= MAX_COPIES

Next == /\ \/ \E p \in Players :
                \/ Login(p) \/ LoadRecoverFiles(p) \/ SlowLoadRecoverFiles(p)
                \/ SaveCharacter(p) \/ Autosave(p) \/ Die(p) \/ Quit(p)
                \/ LoseLink(p) \/ Revive(p) \/ Walk(p) \/ Handle(p)
           \/ Crash
        /\ Bounded'

Spec == Init /\ [][Next]_vars

(* The driver makes every call-out in time.                                *)
FairSpec == /\ Spec
            /\ \A p \in Players : /\ WF_vars(LoadRecoverFiles(p) /\ Bounded')
                                  /\ WF_vars(SlowLoadRecoverFiles(p) /\ Bounded')

-----------------------------------------------------------------------------
(* The state has its type, and a character that has left the game has left *)
(* no call-out behind him and carries nothing.                             *)
TypeOK ==
  /\ status \in [Players -> {"off", "on", "lost"}]
  /\ room \in [Players -> Rooms]
  /\ things \in [Items \X Places \X BOOLEAN -> 0 .. MAX_COPIES]
  /\ disk \in [Players -> Counts] /\ list \in [Players -> Counts]
  /\ starting \in [Players -> {"no", "soon", "late", "saved"}]
  /\ queue \in [Players -> Counts]
  /\ autosave \in [Players -> BOOLEAN]
  /\ \A p \in Players : status[p] = "off" =>
       /\ starting[p] = "no" /\ ~autosave[p] /\ queue[p] = Nothing
       /\ \A i \in Items, f \in BOOLEAN : things[<<i, p, f>>] = 0

(* Someone saves before his recovery has read the list.                    *)
SavedTooSoon(p) == /\ starting'[p] = "saved"
                   /\ <<starting[p], list[p]>>' # <<starting[p], list[p]>>

(* Someone quits before his recovery is complete.                          *)
QuitTooSoon(p) == status'[p] = "off" /\ (starting[p] # "no" \/ queue[p] # Nothing)

(* Someone logs in past the limit.                                         *)
CameTooLate(p) == status[p] = "off" /\ starting'[p] = "late"

(* A wizard quits with a weapon that does not recover, and drops nothing.  *)
WizardQuits(p) == p \in Wizards /\ status[p] = "on" /\ status'[p] = "off"

(* One thing of kind i, and nothing else, fails on its way back to p.      *)
FailsToRecover(p, i) == /\ queue' = [queue EXCEPT ![p][i] = @ - 1]
                        /\ UNCHANGED <<status, things, disk, list, starting>>

(* There is never one thing more than before, in the game or on its way    *)
(* back to its owner, unless the game crashed after the thing was saved,   *)
(* or its owner saved in the second in which load_recover_files() had      *)
(* yet to read the list (cmd_sec.c quit() and save_me(), player_sec.c      *)
(* slow_load_recover_files()).                                             *)
GainIsExplained ==
  [][\A i \in Items : Copies(i)' > Copies(i) =>
       Crash \/ \E p \in Players : SavedTooSoon(p)]_vars

(* No thing is lost by quitting, being lost, dying, saving and coming back *)
(* but by a crash, by coming too late, by saving or leaving before the     *)
(* recovery is complete, by a wizard who leaves, or because the thing      *)
(* itself can't be made again, which costs no other thing (the same        *)
(* functions; the order of slow_load_recover_files() sees to the last).    *)
LossIsExplained ==
  [][\A i \in Items : Copies(i)' < Copies(i) =>
       \/ Crash
       \/ \E p \in Players : \/ SavedTooSoon(p) \/ QuitTooSoon(p)
                             \/ CameTooLate(p) \/ WizardQuits(p)
                             \/ FailsToRecover(p, i)]_vars

(* Every recovery that has begun comes to its end: slow_load_recover_files *)
(* asks for itself again as long as the closure has something left.        *)
RecoveryEnds ==
  \A p \in Players : starting[p] # "no" \/ queue[p] # Nothing
                       ~> starting[p] = "no" /\ queue[p] = Nothing

(* doc/cd_doc/man/general/recover:25 has it that the stored objects are    *)
(* recovered by one who comes back in time: what his file held may not     *)
(* shrink between his login and the reading of the list, if he stays.      *)
StoredIsRecovered ==
  [][\A p \in Players :
       /\ status'[p] # "off"
       /\ starting[p] = "soon" \/ (status[p] = "off" /\ starting'[p] # "late")
       => \A i \in Items : Owed(p)'[i] >= Owed(p)[i]]_vars
=============================================================================
