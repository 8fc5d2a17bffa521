-------------------------------- MODULE Team --------------------------------
(***************************************************************************)
(* Teams of players.                                                       *)
(*                                                                         *)
(* A living keeps two private variables (std/living/combat.c): my_leader,  *)
(* the living that leads it, and my_team, the livings it leads.  The two   *)
(* sides of one membership therefore live in two objects, and the "team"   *)
(* commands of the social soul (std/cmd/live/social.c) keep them in step   *)
(* by calling set_leader, team_join and team_leave on the objects          *)
(* involved.  A driver executes one command at a time, so each command is  *)
(* one action; what interleaves is the commands of different players,      *)
(* their walking about, and their leaving the game, which turns every      *)
(* reference to them into 0.                                               *)
(*                                                                         *)
(* my_team is an array in the code.  Its order only decides who is the     *)
(* rear guard, so it is a set here and Rear may find its subject already   *)
(* in the rear.                                                            *)
(***************************************************************************)
EXTENDS Naturals, FiniteSets

CONSTANTS
    Heroes,     \* the interactive livings
    Sites,      \* the places they can stand in
    Inviters,   \* bound: the players who try to invite others
    Quitters,   \* bound: the players who leave the game and come back
    Terse,      \* the players whose own choice is brief mode
    Nobody      \* the value 0, also left behind by a destructed object

ASSUME TeamAssumption ==
    /\ Nobody \notin Heroes \cup Sites
    /\ Sites # {}
    /\ Inviters \subseteq Heroes
    /\ Quitters \subseteq Heroes
    /\ Terse \subseteq Heroes

VARIABLES
    leader,     \* leader[p]: my_leader of p
    team,       \* team[p]: my_team of p, with Nobody for members that are gone
    invited,    \* invited[p]: team_invited of p
    room,       \* room[p]: environment(p), Nobody while p is not in the game
    brief,      \* brief[p]: p looks at rooms in brief mode (OPT_BRIEF)
    backup      \* backup[p]: TEMP_BACKUP_BRIEF_OPTION, brief mode came with the team

teamVars == <<leader, team, invited, room, brief, backup>>

TeamTyped ==
    /\ leader \in [Heroes -> Heroes \cup {Nobody}]
    /\ team \in [Heroes -> SUBSET (Heroes \cup {Nobody})]
    /\ invited \in [Heroes -> SUBSET Heroes]
    /\ \A p \in Heroes : p \notin team[p] /\ p \notin invited[p]
    /\ room \in [Heroes -> Sites \cup {Nobody}]
    /\ brief \in [Heroes -> BOOLEAN]
    /\ backup \in [Heroes -> BOOLEAN]

TeamInit ==
    /\ leader = [p \in Heroes |-> Nobody]
    /\ team = [p \in Heroes |-> {}]
    /\ invited = [p \in Heroes |-> {}]
    /\ room \in [Heroes -> Sites]
    /\ brief = [p \in Heroes |-> p \in Terse]
    /\ backup = [p \in Heroes |-> FALSE]

-----------------------------------------------------------------------------
(***************************************************************************)
(* The functions of the livings.  They are applied to the values of leader *)
(* and team (ld and tm), because a command calls several of them.          *)
(***************************************************************************)

Online(p) == room[p] # Nobody
Present(p) == {q \in Heroes : Online(q) /\ room[q] = room[p]}

\* Mutant of Targets: one may name oneself.
TargetsOrSelf(p) == Present(p)

\* parse_this: the livings a command of p can name, which are never p itself.
Targets(p) == Present(p) \ {p}

\* query_team: the members that still exist; my_team is cleaned on the way.
QueryTeam(p) == team[p] \ {Nobody}
CleanTeam(p) == [team EXCEPT ![p] = QueryTeam(p)]

\* Mutant of AcceptsLeader: the check on my_team is missing.
AcceptsAnyLeader(tm, m) == TRUE

\* set_leader(l) on every member of ms: refused by whoever has a team.
AcceptsLeader(tm, m) == tm[m] = {}
SetLeader(ld, tm, ms, l) ==
    [p \in Heroes |-> IF p \in ms /\ AcceptsLeader(tm, p) THEN l ELSE ld[p]]

\* Mutant of TeamLeaveTeam: the members stay on the list.
TeamLeaveForgets(tm, l, ms) == tm

\* team_leave, called on l for every member of ms.
TeamLeaveTeam(tm, l, ms) == [tm EXCEPT ![l] = @ \ ms]

\* team_join, called on l for every member of ms: l must not be led itself.
Joins(ld, tm, l, ms) == IF ld[l] = Nobody THEN {m \in ms : AcceptsLeader(tm, m)} ELSE {}
TeamJoinTeam(ld, tm, l, ms) == [tm EXCEPT ![l] = (@ \ {Nobody}) \cup Joins(ld, tm, l, ms)]
TeamJoinLeader(ld, tm, l, ms) == SetLeader(ld, tm, Joins(ld, tm, l, ms), l)

\* The brief option given back to the members of ms (social.c team_leave).
RestoreBrief(ms) ==
    /\ brief' = [p \in Heroes |-> IF p \in ms /\ backup[p] THEN FALSE ELSE brief[p]]
    /\ backup' = [p \in Heroes |-> IF p \in ms THEN FALSE ELSE backup[p]]

\* team_leave of the social soul: l drops ms; force also withdraws invitations.
SocialTeamLeave(tm, l, ms, force) ==
    /\ leader' = SetLeader(leader, tm, ms, Nobody)
    /\ team' = TeamLeaveTeam(tm, l, ms)
    /\ invited' = IF force THEN [invited EXCEPT ![l] = @ \ ms] ELSE invited
    /\ RestoreBrief(ms)

-----------------------------------------------------------------------------
(***************************************************************************)
(* The commands.  Each starts by reading query_leader and query_team of    *)
(* the one who gives it, and the second cleans my_team.                    *)
(***************************************************************************)

\* team invite: a player in sight who is not led by p already.
Invite(p, m) ==
    /\ p \in Inviters
    /\ leader[p] = Nobody
    /\ m \in Targets(p)
    /\ leader[m] # p
    /\ invited' = [invited EXCEPT ![p] = @ \cup {m}]
    /\ team' = CleanTeam(p)
    /\ UNCHANGED <<leader, room, brief, backup>>

\* Mutant of MayJoin: the invitation is not asked for.
MayJoinUninvited(p, l) == leader[p] = Nobody /\ QueryTeam(p) = {} /\ leader[l] = Nobody

\* team join: p is alone, and the leader has invited p and is not led.
MayJoin(p, l) ==
    /\ leader[p] = Nobody
    /\ QueryTeam(p) = {}
    /\ p \in invited[l]
    /\ leader[l] = Nobody

Join(p, l) ==
    /\ l \in Targets(p)
    /\ MayJoin(p, l)
    /\ LET tm == CleanTeam(p) IN
         /\ team' = TeamJoinTeam(leader, tm, l, {p})
         /\ leader' = TeamJoinLeader(leader, tm, l, {p})
    /\ backup' = [backup EXCEPT ![p] = @ \/ ~brief[p]]
    /\ brief' = [brief EXCEPT ![p] = TRUE]
    /\ UNCHANGED <<invited, room>>

\* team disband: the members in the leader's room are made to leave.
Disband(p) ==
    /\ Online(p)
    /\ QueryTeam(p) # {}
    /\ SocialTeamLeave(CleanTeam(p), p, QueryTeam(p) \cap Present(p), TRUE)
    /\ UNCHANGED room

\* team leave, said by a member.
Leave(p) ==
    /\ leader[p] # Nobody
    /\ SocialTeamLeave(CleanTeam(p), leader[p], {p}, FALSE)
    /\ UNCHANGED room

\* team leave <people>, said by a leader, of anyone in sight or one known player.
Expel(p, ms) ==
    /\ Online(p)
    /\ leader[p] = Nobody
    /\ QueryTeam(p) # {}
    /\ ms # {}
    /\ ms \subseteq Targets(p) \/ (Cardinality(ms) = 1 /\ \A m \in ms : Online(m))
    /\ SocialTeamLeave(CleanTeam(p), p, ms, TRUE)
    /\ UNCHANGED room

\* team leader: every member leaves p, then joins the member l, and so does p.
AssignLeader(p, l) ==
    /\ l \in QueryTeam(p) \cap Targets(p)
    /\ LET ms  == QueryTeam(p)
           tm1 == TeamLeaveTeam(CleanTeam(p), p, ms)
           ld1 == SetLeader(leader, team, ms, Nobody)
           ms2 == (ms \cup {p}) \ {l}
       IN /\ team' = TeamJoinTeam(ld1, tm1, l, ms2)
          /\ leader' = TeamJoinLeader(ld1, tm1, l, ms2)
    /\ backup' = [backup EXCEPT ![p] = @ \/ ~brief[p], ![l] = FALSE]
    /\ brief' = [brief EXCEPT ![p] = TRUE, ![l] = @ /\ ~backup[l]]
    /\ UNCHANGED <<invited, room>>

\* team rear: m leaves p and joins again, unless m is in the rear already.
Rear(p, m) ==
    /\ m \in QueryTeam(p) \cap Targets(p)
    /\ LET tm1 == TeamLeaveTeam(CleanTeam(p), p, {m})
           ld1 == SetLeader(leader, team, {m}, Nobody)
       IN /\ team' = TeamJoinTeam(ld1, tm1, p, {m})
          /\ leader' = TeamJoinLeader(ld1, tm1, p, {m})
    /\ UNCHANGED <<invited, room, brief, backup>>

-----------------------------------------------------------------------------
(***************************************************************************)
(* The world around the commands.                                          *)
(***************************************************************************)

\* follow_leader accepts the call from its own leader only.
Follows(p, m) == leader[m] = p

\* move_living: the members who stand here and see p leave are told to follow.
\* What they then do is a command of their own and may fail.
WalkAhead(p, r, ms) ==
    /\ Online(p)
    /\ r # room[p]
    /\ ms \subseteq {m \in QueryTeam(p) \cap Present(p) : Follows(p, m)}
    /\ room' = [q \in Heroes |-> IF q = p \/ q \in ms THEN r ELSE room[q]]
    /\ team' = CleanTeam(p)
    /\ UNCHANGED <<leader, invited, brief, backup>>

\* The player object is destructed: references to it become 0.
Quit(p) ==
    /\ p \in Quitters
    /\ Online(p)
    /\ room' = [room EXCEPT ![p] = Nobody]
    /\ leader' = [q \in Heroes |-> IF q = p \/ leader[q] = p THEN Nobody ELSE leader[q]]
    /\ team' = [q \in Heroes |-> IF q = p THEN {}
                                  ELSE IF p \in team[q] THEN (team[q] \ {p}) \cup {Nobody}
                                  ELSE team[q]]
    /\ invited' = [q \in Heroes |-> IF q = p THEN {} ELSE invited[q] \ {p}]
    /\ backup' = [backup EXCEPT ![p] = FALSE]
    /\ UNCHANGED brief

\* A new player object; options are restored from the save file.
Login(p, r) ==
    /\ ~Online(p)
    /\ room' = [room EXCEPT ![p] = r]
    /\ UNCHANGED <<leader, team, invited, brief, backup>>

TeamNext ==
    \E p \in Heroes :
        \/ \E ms \in SUBSET Heroes : Expel(p, ms)
        \/ \E q \in Heroes : Invite(p, q)
        \/ \E q \in Heroes : Join(p, q) \/ AssignLeader(p, q) \/ Rear(p, q)
        \/ Disband(p) \/ Leave(p) \/ Quit(p)
        \/ \E r \in Sites : Login(p, r)
        \/ \E r \in Sites, ms \in SUBSET Heroes : WalkAhead(p, r, ms)

TeamSpec == TeamInit /\ [][TeamNext]_teamVars

-----------------------------------------------------------------------------
(***************************************************************************)
(* Properties.                                                             *)
(***************************************************************************)

\* Whoever has a leader is in that leader's my_team and leads nobody: teams are
\* one level deep, although leader and team are assigned in different objects
\* and set_leader itself never looks at the old leader.
LedIsListed ==
    \A p \in Heroes : leader[p] # Nobody =>
        /\ p \in team[leader[p]]
        /\ team[p] = {}
        /\ leader[leader[p]] = Nobody

\* l has m on its list, but m has another leader or none.
Stale(l, m) == m \in team[l] /\ leader[m] # l

\* The two sides of a membership come apart in one way only: the "team leave" of a
\* leader takes the leader from whomever it names, also from the member of another
\* team, whose leader is not told (social.c team_leave, set_leader of combat.c).
\* One who is on a wrong list by that may get onto another when the list is used.
StaleByExpulsion ==
    [][\A l, m \in Heroes : Stale(l, m)' /\ ~Stale(l, m) =>
         \E p \in Heroes \ {l} :
             \/ Stale(p, m)
             \/ \E ms \in SUBSET Heroes : m \in ms \ team[p] /\ Expel(p, ms)]_teamVars

\* One gets a leader by accepting an invitation, or because the team one leads
\* or is listed in is reordered by its leader.
NoUninvitedMember ==
    [][\A p \in Heroes :
         (leader'[p] # Nobody /\ leader'[p] # leader[p]) =>
             \/ p \in invited[leader'[p]]
             \/ \E l \in Heroes : {p, leader'[p]} \subseteq team[l] \cup {l}]_teamVars
=============================================================================
