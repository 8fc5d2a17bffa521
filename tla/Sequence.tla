------------------------------ MODULE Sequence ------------------------------
(***************************************************************************)
(* What a mobile does of itself: named sequences of commands, of which the *)
(* heart beat takes one at a time (std/act/seqaction.c), the modules that  *)
(* fill them (chat.c, action.c, ranpick.c), and how meeting a player wakes *)
(* it up (std/living/notify_meet.c).                                       *)
(*                                                                         *)
(* The heart beats every two seconds while it is switched on; Tick is two  *)
(* seconds, with the heart beat that falls into them.  Each function       *)
(* changes only the sequence it is in, so the order of the sequences in a  *)
(* beat makes no difference.                                               *)
(***************************************************************************)
EXTENDS Integers, Sequences, FiniteSets, FiniteSetsExt

CONSTANTS
    Talk,           \* sequences that a creator feeds himself
    Texts,          \* the commands in them, by number; 0 is anybody's
    Waits,          \* the delays in them
    ActTime,        \* monster_act_time, monster_cact_time
    ChatTime,       \* monster_chat_time, monster_cchat_time
    SEQ_STAY_AWAKE, \* here in heart beats
    MaxPrograms     \* bound: how often somebody changes a sequence

Names == {"act", "chat", "pick"} \cup Talk

ASSUME SequenceAssumption ==
    /\ Talk \cap {"act", "chat", "pick"} = {}
    /\ Texts \subseteq Nat /\ Waits \subseteq Nat
    /\ ActTime \in Nat /\ ChatTime \in Nat
    /\ SEQ_STAY_AWAKE \in Nat /\ MaxPrograms \in Nat

VARIABLES
    npc,        \* what seqaction.c keeps, see Init
    has,        \* which of acts, cacts, chats, cchats there are
    fighting,   \* query_attack
    company,    \* who is in the room: "nobody", "linkdead" or "player"
    since,      \* heart beats since a player was met, as far as it matters
    taken,      \* the sequences that did something in the last beat
    missed,     \* a player came that woke nobody
    programs    \* how often somebody has changed a sequence

vars == <<npc, has, fighting, company, since, taken, missed, programs>>

\* The commands: a text, a delay, and the functions, of which monster_do_act
\* carries how long it has waited, which matters up to ActTime.
Text(t) == [op |-> "text", n |-> t]
Wait(d) == [op |-> "wait", n |-> d]
DoAct(waited) == [op |-> "act", n |-> IF waited > ActTime THEN ActTime ELSE waited]
DoChat == [op |-> "chat", n |-> 0]
DoPick == [op |-> "pick", n |-> 0]

Init ==
    /\ npc = [names |-> {},                          \* seq_names
              flags |-> [n \in Names |-> 0],         \* seq_flags
              commands |-> [n \in Names |-> <<>>],   \* seq_commands
              cpos |-> [n \in Names |-> 0],          \* seq_cpos
              active |-> FALSE,                      \* seq_active
              delay |-> 0,                           \* seq_delay
              next_step |-> 0,                       \* seq_next_step
              heart |-> FALSE,                       \* OC_HEART_BEAT
              notify |-> 0]     \* "seq_restart" in notify_meet_interactive
    /\ has = [acts |-> FALSE, cacts |-> FALSE, chats |-> FALSE, cchats |-> FALSE]
    /\ fighting = FALSE
    /\ company = "nobody"
    /\ since = 0
    /\ taken = {}
    /\ missed = FALSE
    /\ programs = 0

-----------------------------------------------------------------------------
(***************************************************************************)
(* The functions of seqaction.c, from what it keeps to what it keeps.      *)
(***************************************************************************)
\* mutant of SeqRestart: the heart is not switched on
SeqRestartCold(s) == [s EXCEPT !.active = TRUE, !.delay = 0, !.next_step = 1,
                               !.notify = 0]

SeqRestart(s) == [s EXCEPT !.active = TRUE, !.delay = 0, !.next_step = 1,
                           !.heart = TRUE, !.notify = 0]

Awake(s) == IF s.active THEN s ELSE SeqRestart(s)

\* what seq_query returns
Rest(s, n) == SubSeq(s.commands[n], s.cpos[n] + 1, Len(s.commands[n]))

SeqNew(s, n, flag) ==
    IF n \in s.names THEN s
    ELSE [s EXCEPT !.names = @ \cup {n}, !.flags[n] = flag]

SeqClear(s, n) == [s EXCEPT !.commands[n] = <<>>, !.cpos[n] = 0]

SeqDelete(s, n) ==
    [SeqClear(s, n) EXCEPT !.names = @ \ {n}, !.flags[n] = 0]

\* mutant of SeqAddFirst: what has been done is not left out
SeqAddFirstAll(s, n, cmds) ==
    IF n \notin s.names THEN s
    ELSE [Awake(s) EXCEPT !.commands[n] = cmds \o @, !.cpos[n] = 0]

SeqAddFirst(s, n, cmds) ==
    IF n \notin s.names THEN s
    ELSE [Awake(s) EXCEPT !.commands[n] = cmds \o Rest(s, n), !.cpos[n] = 0]

SeqAddLast(s, n, cmds) ==
    IF n \notin s.names THEN s
    ELSE [Awake(s) EXCEPT !.commands[n] = @ \o cmds]

Requeue(s, n, cmds) == SeqAddFirst(SeqClear(s, n), n, cmds)

(***************************************************************************)
(* The functions in the sequences, called when their turn has come: what   *)
(* they make of it, and whether they return a text to be executed.         *)
(***************************************************************************)
MonsterDoChat(s) ==
    IF ~has[IF fighting THEN "cchats" ELSE "chats"] THEN s
    ELSE Requeue(s, "chat", <<Text(0), Wait(ChatTime), DoChat>>)

ActsNow(waited) == waited >= ActTime /\ has[IF fighting THEN "cacts" ELSE "acts"]

MonsterDoAct(s, waited) ==
    Requeue(s, "act", <<IF ActsNow(waited) THEN DoAct(0) ELSE DoAct(waited + 1)>>)

MonsterDoPick(s, finds) ==
    LET again == Requeue(s, "pick", <<Wait(4), DoPick>>)
    IN  IF finds THEN SeqAddFirst(again, "pick", <<Text(0)>>) ELSE again

-----------------------------------------------------------------------------
(***************************************************************************)
(* The heart beat.                                                         *)
(***************************************************************************)
Due(s) == {n \in s.names : s.cpos[n] < Len(s.commands[n])}
Head1(s, n) == s.commands[n][s.cpos[n] + 1]

\* mutant of Serve: what is left of a delay is not stored
ServeForgetful(s, n, steps, finds) ==
    LET cmd == Head1(s, n)
        popped == [s EXCEPT !.cpos[n] = @ + 1]
    IN  CASE cmd.op = "wait" -> IF cmd.n > steps THEN s ELSE popped
          [] cmd.op = "text" -> popped
          [] cmd.op = "chat" -> MonsterDoChat(popped)
          [] cmd.op = "act" -> MonsterDoAct(popped, cmd.n)
          [] cmd.op = "pick" -> MonsterDoPick(popped, finds)

\* One turn of sequence n, after the given number of steps.
Serve(s, n, steps, finds) ==
    LET cmd == Head1(s, n)
        popped == [s EXCEPT !.cpos[n] = @ + 1]
    IN  CASE cmd.op = "wait" ->
               IF cmd.n > steps
               THEN [s EXCEPT !.commands[n][s.cpos[n] + 1] = Wait(cmd.n - steps)]
               ELSE popped
          [] cmd.op = "text" -> popped
          [] cmd.op = "chat" -> MonsterDoChat(popped)
          [] cmd.op = "act" -> MonsterDoAct(popped, cmd.n)
          [] cmd.op = "pick" -> MonsterDoPick(popped, finds)

\* Whether that turn executes a command.
Commands(s, n) ==
    LET cmd == Head1(s, n)
    IN  cmd.op = "text" \/ (cmd.op = "act" /\ ActsNow(cmd.n))

\* The delay after which n wants to go on: newstep, for one sequence.
StepOf(s, n, steps) ==
    LET cmd == Head1(s, n)
    IN  IF cmd.op = "wait" /\ cmd.n > steps THEN cmd.n - steps ELSE 1

NewStep(s, steps) ==
    IF Due(s) = {} THEN 0 ELSE Min({StepOf(s, n, steps) : n \in Due(s)})

\* Sequences that have come to their end are emptied.
SeqProcessCommands(s, steps, finds) ==
    LET turn(n) == IF n \in Due(s) THEN Serve(s, n, steps, finds) ELSE SeqClear(s, n)
    IN  [s EXCEPT !.commands = [n \in Names |-> turn(n).commands[n]],
                  !.cpos = [n \in Names |-> turn(n).cpos[n]]]

\* to_int(stepped * (SEQ_SLOW / 4.0))
SlowBeats(stepped) == (stepped * 15) \div 4

\* query_last_met_interactive is more than SEQ_STAY_AWAKE ago
StopSeq == company # "player" /\ since > SEQ_STAY_AWAKE

\* mutant of Sleep: nobody is asked to wake it up
SleepSound(s) == [s EXCEPT !.active = FALSE, !.heart = FALSE]

Sleep(s) == [s EXCEPT !.active = FALSE, !.heart = FALSE, !.notify = @ + 1]

Steps(s) == IF s.next_step = 0 THEN 1 ELSE s.next_step

\* A beat in which the sequences have their turn.
Turn(s, finds) ==
    LET stepped == NewStep(s, Steps(s))
        done == SeqProcessCommands(s, Steps(s), finds)
        rest == IF StopSeq THEN Sleep(done) ELSE done
    IN  IF stepped > 1
        THEN [rest EXCEPT !.delay = SlowBeats(stepped), !.next_step = stepped]
        ELSE [rest EXCEPT !.next_step = 0]

HasTurn(s) == s.heart /\ ~(StopSeq /\ ~s.active) /\ s.delay = 0

HeartBeat(finds) ==
    npc' = CASE HasTurn(npc) -> Turn(npc, finds)
             [] npc.heart /\ ~(StopSeq /\ ~npc.active) /\ npc.delay > 0 ->
                  [npc EXCEPT !.delay = @ - 1]
             [] OTHER -> npc

\* A command may be an exit, and lead the mobile to others or away from them.
Tick ==
    LET walks == HasTurn(npc) /\ \E n \in Due(npc) : Commands(npc, n)
    IN  /\ \E finds \in BOOLEAN : HeartBeat(finds)
        /\ taken' = IF HasTurn(npc)
                    THEN {n \in Due(npc) : StepOf(npc, n, Steps(npc)) = 1
                                           \/ Head1(npc, n).op # "wait"}
                    ELSE {}
        /\ \/ UNCHANGED company
              /\ since' = Min({since + 1, SEQ_STAY_AWAKE + 1})
              /\ UNCHANGED missed
           \/ /\ walks
              /\ company' \in {"nobody", "linkdead"}
              /\ since' = Min({since + 1, SEQ_STAY_AWAKE + 1})
              /\ missed' = FALSE
           \/ /\ walks
              /\ company' = "player"
              /\ since' = 0
              /\ missed' = ~npc'.active
        /\ UNCHANGED <<has, fighting, programs>>

-----------------------------------------------------------------------------
(***************************************************************************)
(* Who comes and goes.  notify_meet_init is called when a player and the   *)
(* mobile come to be in one room.                                          *)
(***************************************************************************)
\* mutant of NotifyMeet: the list of those to be told is not looked at
NotifyMeetNot == UNCHANGED npc

NotifyMeet == npc' = IF npc.notify > 0 THEN SeqRestart(npc) ELSE npc

Arrive ==
    /\ company' = "player"
    /\ since' = 0
    /\ NotifyMeet
    /\ missed' = FALSE
    /\ UNCHANGED <<has, fighting, taken, programs>>

Leave ==
    /\ company = "player"
    /\ company' \in {"nobody", "linkdead"}
    /\ missed' = FALSE
    /\ UNCHANGED <<npc, has, fighting, since, taken, programs>>

\* revive of player_sec.c: the player has been there all the time
Revive ==
    /\ company = "linkdead"
    /\ company' = "player"
    /\ missed' = ~npc.active
    /\ UNCHANGED <<npc, has, fighting, since, taken, programs>>

Fight ==
    /\ fighting' = ~fighting
    /\ UNCHANGED <<npc, has, company, since, taken, missed, programs>>

(***************************************************************************)
(* What a creator's code tells the mobile to do.                           *)
(***************************************************************************)
Programmed ==
    /\ programs < MaxPrograms
    /\ programs' = programs + 1
    /\ missed' = (missed /\ ~npc'.active)
    /\ UNCHANGED <<fighting, company, since, taken>>

\* A text, with or without a delay.
Talks == {<<Text(t)>> : t \in Texts}
           \cup {<<Wait(d), Text(t)>> : d \in Waits, t \in Texts}

\* add_act, add_cact, add_chat, add_cchat; the flag is add_act's
Add(n, what, cmd, flag) ==
    /\ npc' = Requeue(SeqNew(npc, n, flag), n, <<cmd>>)
    /\ has' = [has EXCEPT ![what] = TRUE]
    /\ Programmed

Clear(what) ==
    /\ has' = [has EXCEPT ![what] = FALSE]
    /\ UNCHANGED npc
    /\ Programmed

SetPickUp ==
    /\ npc' = Requeue(SeqNew(npc, "pick", 0), "pick", <<DoPick>>)
    /\ UNCHANGED has
    /\ Programmed

Feed(n) ==
    /\ \E cmds \in Talks :
          \/ npc' = SeqAddFirst(SeqNew(npc, n, 0), n, cmds)
          \/ npc' = SeqAddLast(SeqNew(npc, n, 0), n, cmds)
    /\ UNCHANGED has
    /\ Programmed

Drop(n) ==
    /\ npc' = SeqDelete(npc, n)
    /\ UNCHANGED has
    /\ Programmed

Program ==
    \/ \E flag \in {0, 1} : \/ Add("act", "acts", DoAct(0), flag)
    \/ Add("act", "cacts", DoAct(0), 0)
    \/ Add("chat", "chats", DoChat, 0)
    \/ Add("chat", "cchats", DoChat, 0)
    \/ \E what \in DOMAIN has : Clear(what)
    \/ SetPickUp
    \/ \E n \in Talk : Feed(n) \/ Drop(n)

Next == Tick \/ Arrive \/ Leave \/ Revive \/ Fight \/ Program

Spec == Init /\ [][Next]_vars

\* the driver's heart beat does not stop
FairSpec == Spec /\ WF_vars(Tick)

-----------------------------------------------------------------------------
(***************************************************************************)
(* The variables hold what their comments say; the heart beats while the   *)
(* sequences are active, and only then.                                    *)
(***************************************************************************)
TypeOK ==
    /\ npc.names \subseteq Names
    /\ npc.flags \in [Names -> {0, 1}]
    /\ \A n \in Names :
          /\ npc.cpos[n] \in 0 .. Len(npc.commands[n])
          /\ n \notin npc.names => npc.commands[n] = <<>>
    /\ npc.delay \in Nat /\ npc.next_step \in Nat
    /\ npc.heart = npc.active
    /\ npc.notify \in {0, 1}
    /\ since \in 0 .. SEQ_STAY_AWAKE + 1
    /\ taken \subseteq Names

(***************************************************************************)
(* Whoever has something left to do is awake, or will be woken by the next *)
(* player that comes (seq_restart, seq_addfirst, heart_beat).              *)
(***************************************************************************)
NeverForgotten == Due(npc) # {} => npc.active \/ npc.notify = 1

(***************************************************************************)
(* A mobile with something left to do does not sleep while a player is     *)
(* there, but in two cases: the player was there before the link came back,*)
(* or the mobile walked up to the player in the very beat after which it   *)
(* went to sleep, having looked before.                                    *)
(***************************************************************************)
SleepsAlone ==
    company = "player" /\ Due(npc) # {} => npc.active \/ missed

(***************************************************************************)
(* Each sequence is a queue: the commands come in their order, each once,  *)
(* whatever is added in between and before (seq_cpos is taken off).        *)
(***************************************************************************)
Q == INSTANCE Streams
     WITH queue <- [n \in Names |-> Rest(npc, n)],
          Programs <- Talks \cup {<<DoAct(0)>>, <<DoChat>>, <<DoPick>>}
InOrder == Q!Spec

(***************************************************************************)
(* What is at the head of a sequence has its turn, unless the mobile goes  *)
(* to sleep or the sequence is deleted: no delay of another sequence holds *)
(* it up for ever.                                                         *)
(***************************************************************************)
Served ==
    \A n \in Names : n \in Due(npc) ~> n \in taken \/ ~npc.active \/ n \notin Due(npc)
=============================================================================
