--------------------------- MODULE RestartProofs ---------------------------
(***************************************************************************)
(* Proofs about the end of a game and the beginning of the next: the       *)
(* count-down of Shutdown, for any number of wizards and every delay, and  *)
(* Recovery, for any players, wizards and kinds of things.                 *)
(***************************************************************************)
EXTENDS Recovery, Shutdown, Sums, SequenceTheorems

-----------------------------------------------------------------------------
(***************************************************************************)
(* The count-down keeps its time.  There is at most one call-out because   *)
(* start_shutdown is asked for only when nobody is shutting down, and      *)
(* cancel_shutdown, which makes that so, takes the one call-out away.      *)
(***************************************************************************)

\* the invariant, with one conjunct more: who was refused his shutdown by
\* the master goes on holding it
Counting == ShutdownTyped /\ CancelledIsOver /\ TimeIsKept
Asking == asked => shutdown_shutter # Nobody /\ alarms = <<>>
ShutdownInv == Counting /\ Asking

\* The interval is never longer than what is left, and takes time.
LEMMA PeriodFits ==
  ASSUME NEW delay \in Nat, delay > 0
  PROVE  Period(delay) \in Nat /\ 0 < Period(delay) /\ Period(delay) <= delay
<1>1. CASE delay >= 1080
  BY <1>1 DEF Period
<1>2. CASE delay >= 90 /\ delay < 1080
  BY <1>2 DEF Period
<1>3. CASE delay >= 25 /\ delay < 90
  BY <1>3 DEF Period
<1>4. CASE delay >= 10 /\ delay < 25
  BY <1>4 DEF Period
<1>5. CASE delay < 10
  <2>1. Period(delay) = 1
    BY <1>5 DEF Period
  <2> QED BY <2>1
<1> QED BY <1>1, <1>2, <1>3, <1>4, <1>5

\* With at most one call-out, taking one away leaves none.
LEMMA OnlyAlarm ==
  ASSUME NEW s \in Seq(Nat), Len(s) <= 1, NEW i \in DOMAIN s
  PROVE  RemoveAt(s, i) = <<>> /\ i = 1 /\ s = <<s[1]>>
<1>1. i = 1 /\ Len(s) = 1
  <2>1. Len(s) \in Nat /\ DOMAIN s = 1 .. Len(s)
    BY LenProperties
  <2> QED BY <2>1
<1>2. SubSeq(s, 1, 0) = <<>> /\ SubSeq(s, 2, 1) = <<>>
  BY SubSeqEmpty
<1>3. RemoveAt(s, i) = SubSeq(s, 1, 0) \o SubSeq(s, 2, 1)
  BY <1>1 DEF RemoveAt
<1>4. RemoveAt(s, i) = <<>>
  BY <1>2, <1>3, ConcatEmptySeq, EmptySeq
<1>5. s = <<s[1]>>
  BY <1>1
<1> QED BY <1>1, <1>4, <1>5

\* shutdown_dodelay, run with all other call-outs gone.
LEMMA DoDelayCounts ==
  ASSUME ShutdownInv, NEW delay \in Nat, DoDelay(delay, <<>>), left' = delay,
         shutdown_shutter' \in Requesters \cup {ROOT_UID},
         mem_fail_flag' \in BOOLEAN, asked = FALSE
  PROVE  ShutdownInv'
<1> USE ShutdownAssumption DEF ShutdownInv, Counting, Asking
<1>1. CASE delay = 0
  <2>1. alarms' = <<>> /\ shutdown_delay' = 0 /\ asked' = TRUE /\ up' = up
    BY <1>1 DEF DoDelay, ShutdownNow
  <2> QED BY <1>1, <2>1 DEF ShutdownTyped, CancelledIsOver, TimeIsKept
<1>2. CASE delay > 0
  <2>1. /\ alarms' = <<Period(delay)>>
        /\ shutdown_delay' = delay - Period(delay)
        /\ asked' = FALSE /\ up' = up
    BY <1>2 DEF DoDelay
  <2>2. Period(delay) \in Nat /\ Period(delay) <= delay
    BY <1>2, PeriodFits
  <2>3. alarms' \in Seq(Nat) /\ Len(alarms') = 1 /\ alarms'[1] = Period(delay)
    BY <2>1, <2>2
  <2>4. shutdown_delay' \in Nat /\ Period(delay) + shutdown_delay' = left'
    BY <2>1, <2>2
  <2>5. ShutdownTyped'
    <3>1. /\ shutdown_shutter' \in Requesters \cup {ROOT_UID, Nobody}
          /\ shutdown_delay' \in Nat /\ alarms' \in Seq(Nat) /\ left' \in Int
      BY <2>3, <2>4
    <3>2. mem_fail_flag' \in BOOLEAN /\ asked' \in BOOLEAN /\ up' \in BOOLEAN
      BY <2>1, Zenon DEF ShutdownTyped
    <3> QED BY <3>1, <3>2 DEF ShutdownTyped
  <2>6. CancelledIsOver'
    BY <2>3 DEF CancelledIsOver
  <2>7. TimeIsKept'
    <3>1. DOMAIN alarms' = {1}
      BY <2>3
    <3> QED BY <2>1, <2>3, <2>4, <3>1 DEF TimeIsKept
  <2>8. Asking'
    BY <2>1
  <2> QED BY <2>5, <2>6, <2>7, <2>8
<1> QED BY <1>1, <1>2

\* No call-outs.
LEMMA NoAlarms == /\ <<>> \in Seq(Nat)
                  /\ Len(<<>>) = 0
                  /\ DOMAIN <<>> = {}
BY EmptySeq

LEMMA InitCounts == ShutdownInit => ShutdownInv
<1> SUFFICES ASSUME ShutdownInit PROVE ShutdownInv
  OBVIOUS
<1> USE ShutdownAssumption, NoAlarms DEF ShutdownInit
<1>1. ShutdownTyped
  <2>1. mem_fail_flag \in BOOLEAN /\ asked \in BOOLEAN /\ up \in BOOLEAN
    BY Zenon
  <2> QED BY <2>1 DEF ShutdownTyped
<1>2. CancelledIsOver
  BY DEF CancelledIsOver
<1>3. TimeIsKept
  BY DEF TimeIsKept
<1> QED BY <1>1, <1>2, <1>3 DEF ShutdownInv, Counting, Asking

LEMMA NextCounts == ShutdownInv /\ [ShutdownNext]_shutdownVars => ShutdownInv'
<1> SUFFICES ASSUME ShutdownInv, [ShutdownNext]_shutdownVars PROVE ShutdownInv'
  OBVIOUS
<1> USE ShutdownAssumption
<1>1. ASSUME NEW s \in Requesters \cup {ROOT_UID}, NEW delay \in Nat,
             StartShutdown(s, delay), shutdown_shutter = Nobody,
             mem_fail_flag' \in BOOLEAN
      PROVE  ShutdownInv'
  <2>1. alarms = <<>> /\ asked = FALSE
    BY <1>1 DEF ShutdownInv, Counting, Asking, CancelledIsOver, ShutdownTyped
  <2>2. /\ DoDelay(delay, <<>>) /\ left' = delay
        /\ shutdown_shutter' \in Requesters \cup {ROOT_UID}
    BY <1>1, <2>1 DEF StartShutdown
  <2> QED BY <1>1, <2>1, <2>2, DoDelayCounts
<1>2. ASSUME NEW w \in Requesters, NEW delay \in Delays, Request(w, delay)
      PROVE  ShutdownInv'
  <2>1. mem_fail_flag' \in BOOLEAN
    BY <1>2 DEF Request, ShutdownInv, Counting, ShutdownTyped
  <2> QED BY <1>1, <1>2, <2>1 DEF Request
<1>3. ASSUME NEW w \in Requesters, RegularReboot(w) PROVE ShutdownInv'
  <2>1. mem_fail_flag' \in BOOLEAN
    BY <1>3 DEF RegularReboot, ShutdownInv, Counting, ShutdownTyped
  <2> QED BY <1>1, <1>3, <2>1 DEF RegularReboot
<1>4. ASSUME NEW w \in Requesters, MemoryFailure(w) PROVE ShutdownInv'
  BY <1>1, <1>4 DEF MemoryFailure
<1>5. ASSUME NEW w \in Requesters, Cancel(w) PROVE ShutdownInv'
  <2>1. alarms' = <<>>
    BY <1>5, OnlyAlarm DEF Cancel, ShutdownInv, Counting, CancelledIsOver, ShutdownTyped
  <2>2. /\ shutdown_shutter' = Nobody /\ shutdown_delay' = 0 /\ left' = 0
        /\ asked' = FALSE /\ mem_fail_flag' = mem_fail_flag /\ up' = up
    BY <1>5 DEF Cancel
  <2>3. ShutdownTyped'
    <3>1. mem_fail_flag' \in BOOLEAN /\ asked' \in BOOLEAN /\ up' \in BOOLEAN
      BY <2>2, Zenon DEF ShutdownInv, Counting, ShutdownTyped
    <3> QED BY <2>1, <2>2, <3>1, NoAlarms DEF ShutdownTyped
  <2>4. CancelledIsOver' /\ TimeIsKept' /\ Asking'
    BY <2>1, <2>2, NoAlarms DEF CancelledIsOver, TimeIsKept, Asking
  <2> QED BY <2>3, <2>4 DEF ShutdownInv, Counting
<1>6. CASE Fire
  <2> PICK i \in DOMAIN alarms :
        /\ alarms[i] = 0
        /\ DoDelay(shutdown_delay, RemoveAt(alarms, i))
        /\ UNCHANGED <<shutdown_shutter, mem_fail_flag, left>>
    BY <1>6 DEF Fire
  <2>1. RemoveAt(alarms, i) = <<>> /\ alarms # <<>>
    BY OnlyAlarm DEF ShutdownInv, Counting, CancelledIsOver, ShutdownTyped
  <2>2. asked = FALSE /\ shutdown_shutter # Nobody
    BY <2>1 DEF ShutdownInv, Counting, Asking, CancelledIsOver, ShutdownTyped
  <2>3. left = shutdown_delay /\ shutdown_delay \in Nat
    BY DEF ShutdownInv, Counting, TimeIsKept, ShutdownTyped
  <2>4. DoDelay(shutdown_delay, <<>>) /\ left' = shutdown_delay
    BY <2>1, <2>3
  <2>5. /\ shutdown_shutter' \in Requesters \cup {ROOT_UID}
        /\ mem_fail_flag' \in BOOLEAN
    BY <2>2 DEF ShutdownInv, Counting, ShutdownTyped
  <2> QED BY <2>2, <2>3, <2>4, <2>5, DoDelayCounts
<1>7. CASE Tick
  <2>0. alarms \in Seq(Nat) /\ Len(alarms) <= 1 /\ alarms # <<>>
    BY <1>7 DEF Tick, ShutdownInv, Counting, CancelledIsOver, ShutdownTyped
  <2>1. /\ Len(alarms) = 1 /\ 1 \in DOMAIN alarms
        /\ alarms[1] \in Nat /\ alarms[1] > 0
    <3>1. Len(alarms) # 0
      BY <2>0, EmptySeq
    <3>2. Len(alarms) \in Nat /\ DOMAIN alarms = 1 .. Len(alarms)
      BY <2>0, LenProperties
    <3>3. Len(alarms) = 1 /\ 1 \in DOMAIN alarms
      BY <2>0, <3>1, <3>2
    <3>4. alarms[1] \in Nat
      BY <2>0, <3>3, ElementOfSeq
    <3> QED BY <1>7, <3>3, <3>4 DEF Tick
  <2>2. alarms' \in Seq(Nat) /\ Len(alarms') = 1 /\ alarms'[1] = alarms[1] - 1
    BY <1>7, <2>1 DEF Tick, ShutdownInv, Counting, ShutdownTyped
  <2>3. asked' = FALSE /\ alarms # <<>>
    BY <1>7 DEF Tick, ShutdownInv, Counting, Asking, ShutdownTyped
  <2>4. alarms[1] + shutdown_delay = left
    BY <2>1 DEF ShutdownInv, Counting, TimeIsKept
  <2> QED BY <1>7, <2>1, <2>2, <2>3, <2>4
     DEF Tick, ShutdownInv, Counting, Asking, ShutdownTyped, CancelledIsOver, TimeIsKept
<1>8. CASE UNCHANGED shutdownVars
  BY <1>8 DEF shutdownVars, ShutdownInv, Counting, Asking, ShutdownTyped, CancelledIsOver, TimeIsKept
<1> QED BY <1>2, <1>3, <1>4, <1>5, <1>6, <1>7, <1>8 DEF ShutdownNext

\* The variables of Armageddon keep their types, whatever is asked of it.
THEOREM TypeCorrect == ShutdownSpec => []ShutdownTyped
<1>1. ShutdownInv => ShutdownTyped
  BY DEF ShutdownInv, Counting
<1> QED BY <1>1, InitCounts, NextCounts, PTL DEF ShutdownSpec

\* No call-out of a shutdown that was called off is left (cancel_shutdown).
THEOREM CancelEndsIt == ShutdownSpec => []CancelledIsOver
<1>1. ShutdownInv => CancelledIsOver
  BY DEF ShutdownInv, Counting
<1> QED BY <1>1, InitCounts, NextCounts, PTL DEF ShutdownSpec

\* The announced time is the time that is left, and the master is told to
\* shut down exactly when it is over (shutdown_dodelay), for every delay.
THEOREM CountDownKeepsTime == ShutdownSpec => []TimeIsKept
<1>1. ShutdownInv => TimeIsKept
  BY DEF ShutdownInv, Counting
<1> QED BY <1>1, InitCounts, NextCounts, PTL DEF ShutdownSpec

-----------------------------------------------------------------------------
(***************************************************************************)
(* What players get back.  A thing is in the game, or the game owes it to  *)
(* a player: to the one who is away, from his file; to the one who came    *)
(* back, from the list that has not been read; and to both, from the       *)
(* closure that clones the list.  Copies sums up all of these.  Every      *)
(* command moves things from one account to another, so each proof shows   *)
(* that two summands change by opposite amounts and the rest of the sum,   *)
(* by the lemmas of Sums, stays.  What makes that true is OneRecovery:     *)
(* load_recover_files() of std/player_sec.c reads the list only when the   *)
(* closure of the last recovery has nothing left, or it would overwrite    *)
(* what is still owed.                                                     *)
(***************************************************************************)

Spots == Items \X Places \X BOOLEAN

\* Everything of TypeOK but the bound on the number of things at one place.
Shape ==
  /\ status \in [Players -> {"off", "on", "lost"}]
  /\ room \in [Players -> Rooms]
  /\ things \in [Spots -> Nat]
  /\ disk \in [Players -> Counts] /\ list \in [Players -> Counts]
  /\ starting \in [Players -> {"no", "soon", "late", "saved"}]
  /\ queue \in [Players -> Counts]
  /\ autosave \in [Players -> BOOLEAN]
  /\ \A p \in Players : status[p] = "off" =>
       /\ starting[p] = "no" /\ ~autosave[p] /\ queue[p] = Nothing
       /\ \A i \in Items, f \in BOOLEAN : things[<<i, p, f>>] = 0

\* One recovery at a time: what is left of the last one when the list is about
\* to be read would be overwritten.
OneRecovery == \A p \in Players : starting[p] # "no" => queue[p] = Nothing

IInv == TypeOK /\ OneRecovery

LEMMA TypeShape == TypeOK => Shape
<1> SUFFICES ASSUME TypeOK PROVE Shape
  OBVIOUS
<1>1. 0 .. MAX_COPIES \subseteq Nat
  BY RecoveryAssumption
<1>2. things \in [Spots -> Nat]
  BY <1>1 DEF TypeOK, Spots
<1> QED BY <1>2 DEF TypeOK, Shape

LEMMA NothingCounts == Nothing \in Counts
BY RecoveryAssumption DEF Nothing, Counts

LEMMA LastingCounts ==
  ASSUME TypeOK, NEW p \in Players
  PROVE  Lasting(p) \in Counts
BY DEF Lasting, Counts, TypeOK, Places

LEMMA RecoverableCounts ==
  ASSUME TypeOK, NEW p \in Players, NEW verb
  PROVE  Recoverable(p, Lasting(p), verb) \in Counts
BY LastingCounts, NothingCounts DEF Recoverable

-----------------------------------------------------------------------------
(***************************************************************************)
(* The actions keep the shape of the state.                                *)
(***************************************************************************)

LEMMA FreshFacts ==
  ASSUME NEW th \in Fresh
  PROVE  /\ th \in [Spots -> 0 .. MAX_COPIES]
         /\ \A p \in Players, i \in Items, f \in BOOLEAN : th[<<i, p, f>>] = 0
<1>1. PICK g \in [Items -> BOOLEAN] :
        th = [t \in Items \X Places \X BOOLEAN |->
                IF t[2] = "wild" /\ t[3] = g[t[1]] THEN 1 ELSE 0]
  BY DEF Fresh
<1>2. 0 \in 0 .. MAX_COPIES /\ 1 \in 0 .. MAX_COPIES
  BY RecoveryAssumption
<1>3. th \in [Spots -> 0 .. MAX_COPIES]
  BY <1>1, <1>2 DEF Spots
<1>4. ASSUME NEW p \in Players, NEW i \in Items, NEW f \in BOOLEAN
      PROVE  th[<<i, p, f>>] = 0
  <2>1. p # "wild" /\ <<i, p, f>> \in Items \X Places \X BOOLEAN
    BY RecoveryAssumption DEF Rooms, Places
  <2> QED BY <1>1, <2>1
<1> QED BY <1>3, <1>4

LEMMA InitInv == Init => IInv
<1> SUFFICES ASSUME Init PROVE IInv
  OBVIOUS
<1>1. /\ things \in [Spots -> 0 .. MAX_COPIES]
      /\ \A p \in Players, i \in Items, f \in BOOLEAN : things[<<i, p, f>>] = 0
  BY FreshFacts DEF Init
<1> QED BY <1>1, NothingCounts DEF Init, IInv, TypeOK, OneRecovery, Rooms, Spots

LEMMA SaveMeShape ==
  ASSUME IInv, NEW p \in Players, NEW stored \in Counts, SaveMe(p, stored),
         status[p] # "off", UNCHANGED <<status, room, queue>>,
         things' \in [Spots -> Nat],
         \A q \in Players \ {p}, i \in Items, f \in BOOLEAN : things'[<<i, q, f>>] = things[<<i, q, f>>]
  PROVE  Shape' /\ OneRecovery'
<1>1. Shape
  BY TypeShape DEF IInv
<1>2. /\ disk' \in [Players -> Counts] /\ list' \in [Players -> Counts]
      /\ starting' \in [Players -> {"no", "soon", "late", "saved"}]
      /\ autosave' \in [Players -> BOOLEAN]
  BY <1>1 DEF SaveMe, Shape
<1>3. \A q \in Players : starting'[q] # "no" => starting[q] # "no"
  BY <1>1 DEF SaveMe, Shape
<1>4. ASSUME NEW q \in Players, status'[q] = "off"
      PROVE  /\ starting'[q] = "no" /\ ~autosave'[q] /\ queue'[q] = Nothing
             /\ \A i \in Items, f \in BOOLEAN : things'[<<i, q, f>>] = 0
  BY <1>1, <1>4 DEF SaveMe, Shape
<1>5. OneRecovery'
  BY <1>3 DEF IInv, OneRecovery
<1>6. Shape'
  BY <1>1, <1>2, <1>4 DEF Shape
<1> QED BY <1>5, <1>6

LEMMA LoginShape ==
  ASSUME IInv, NEW p \in Players, Login(p)
  PROVE  Shape' /\ OneRecovery'
<1>1. Shape
  BY TypeShape DEF IInv
<1>2. PICK when \in {"soon", "late"}, new_password \in BOOLEAN :
        LET stored == IF new_password THEN Nothing ELSE disk[p]
        IN /\ status' = [status EXCEPT ![p] = "on"]
           /\ room' = [room EXCEPT ![p] = "start"]
           /\ disk' = [disk EXCEPT ![p] = stored]
           /\ list' = [list EXCEPT ![p] = stored]
           /\ starting' = [starting EXCEPT ![p] = IF new_password THEN "saved" ELSE when]
           /\ autosave' = [autosave EXCEPT ![p] = new_password /\ p \notin Wizards]
           /\ UNCHANGED <<things, queue>>
  BY DEF Login
<1>3. /\ status' \in [Players -> {"off", "on", "lost"}]
      /\ room' \in [Players -> Rooms]
      /\ disk' \in [Players -> Counts] /\ list' \in [Players -> Counts]
      /\ starting' \in [Players -> {"no", "soon", "late", "saved"}]
      /\ autosave' \in [Players -> BOOLEAN]
  BY <1>1, <1>2, NothingCounts DEF Shape, Rooms
<1>4. /\ queue[p] = Nothing
      /\ \A q \in Players \ {p} : starting'[q] = starting[q]
  BY <1>1, <1>2 DEF Login, Shape
<1>5. OneRecovery'
  BY <1>2, <1>4 DEF IInv, OneRecovery
<1>6. Shape'
  BY <1>1, <1>2, <1>3 DEF Shape
<1> QED BY <1>5, <1>6

LEMMA LoadRecoverFilesShape ==
  ASSUME IInv, NEW p \in Players, LoadRecoverFiles(p)
  PROVE  Shape' /\ OneRecovery'
<1>1. Shape
  BY TypeShape DEF IInv
<1>2. /\ starting' \in [Players -> {"no", "soon", "late", "saved"}]
      /\ list' \in [Players -> Counts] /\ queue' \in [Players -> Counts]
  BY <1>1, NothingCounts DEF LoadRecoverFiles, Shape
<1>3. OneRecovery'
  BY <1>1 DEF LoadRecoverFiles, Shape, IInv, OneRecovery
<1>4. Shape'
  BY <1>1, <1>2 DEF LoadRecoverFiles, Shape
<1> QED BY <1>3, <1>4

\* What slow_load_recover_files() has done to the things: one of kind i has come to
\* p, or none has.
Arrives(p, i, f) == things' = [things EXCEPT ![<<i, p, f>>] = @ + 1]

LEMMA SlowLoadIs ==
  ASSUME NEW p \in Players, SlowLoadRecoverFiles(p)
  PROVE  \E i \in Items, f \in BOOLEAN :
           /\ queue[p][i] > 0
           /\ queue' = [queue EXCEPT ![p][i] = @ - 1]
           /\ Arrives(p, i, f) \/ things' = things
           /\ UNCHANGED <<status, room, disk, list, starting, autosave>>
<1>1. PICK i \in Items :
        /\ queue[p][i] > 0
        /\ queue' = [queue EXCEPT ![p][i] = @ - 1]
        /\ (\E f \in Frailty(i) : Arrives(p, i, f)) \/ things' = things
        /\ UNCHANGED <<status, room, disk, list, starting, autosave>>
  BY DEF SlowLoadRecoverFiles, Arrives
<1>2. \A f \in Frailty(i) : f \in BOOLEAN
  BY DEF Frailty
<1>3. TRUE \in BOOLEAN
  OBVIOUS
<1> QED BY <1>1, <1>2, <1>3, Zenon

LEMMA SlowLoadShape ==
  ASSUME IInv, NEW p \in Players, SlowLoadRecoverFiles(p)
  PROVE  Shape' /\ OneRecovery'
<1>1. Shape
  BY TypeShape DEF IInv
<1>2. PICK i \in Items, f \in BOOLEAN :
        /\ queue[p][i] > 0
        /\ queue' = [queue EXCEPT ![p][i] = @ - 1]
        /\ Arrives(p, i, f) \/ things' = things
        /\ UNCHANGED <<status, room, disk, list, starting, autosave>>
  BY SlowLoadIs, Zenon
<1>3. <<i, p, f>> \in Spots
  BY DEF Spots, Places
<1>4. things' \in [Spots -> Nat]
  BY <1>1, <1>2, <1>3 DEF Shape, Arrives
<1>5. queue' \in [Players -> Counts]
  <2>1. queue[p] \in [Items -> 0 .. MAX_COPIES]
    BY <1>1 DEF Shape, Counts
  <2>2. [queue[p] EXCEPT ![i] = @ - 1] \in Counts
    BY <1>2, <2>1, RecoveryAssumption DEF Counts
  <2> QED BY <1>1, <1>2, <2>2 DEF Shape
<1>6. queue[p] # Nothing
  BY <1>2 DEF Nothing
<1>7. status[p] # "off" /\ starting[p] = "no"
  BY <1>1, <1>6 DEF Shape, IInv, OneRecovery
<1>8. OneRecovery'
  BY <1>1, <1>2, <1>7 DEF Shape, IInv, OneRecovery
<1>9. ASSUME NEW q \in Players, status'[q] = "off"
      PROVE  /\ starting'[q] = "no" /\ ~autosave'[q] /\ queue'[q] = Nothing
             /\ \A j \in Items, g \in BOOLEAN : things'[<<j, q, g>>] = 0
  <2>1. q # p /\ status[q] = "off"
    BY <1>2, <1>7, <1>9
  <2>2. queue'[q] = queue[q]
    BY <1>1, <1>2, <2>1 DEF Shape
  <2>3. \A j \in Items, g \in BOOLEAN : things'[<<j, q, g>>] = things[<<j, q, g>>]
    BY <1>1, <1>2, <2>1 DEF Shape, Spots, Places, Arrives
  <2> QED BY <1>1, <1>2, <2>1, <2>2, <2>3 DEF Shape
<1>10. Shape'
  BY <1>1, <1>2, <1>4, <1>5, <1>9 DEF Shape
<1> QED BY <1>8, <1>10

\* What becomes of the things when all at p leave, those in D for room r.
Left(p, r, D) ==
  [t \in Spots |->
     IF t[2] = p THEN 0
     ELSE things[t] + (IF t[2] = r /\ <<t[1], t[3]>> \in D THEN things[<<t[1], p, t[3]>>] ELSE 0)]

LEMMA LeftShape ==
  ASSUME Shape, NEW p \in Players, NEW r \in Rooms, NEW D, things' = Left(p, r, D)
  PROVE  /\ things' \in [Spots -> Nat]
         /\ \A q \in Players \ {p}, i \in Items, f \in BOOLEAN :
              things'[<<i, q, f>>] = things[<<i, q, f>>]
         /\ \A i \in Items, f \in BOOLEAN : things'[<<i, p, f>>] = 0
<1>1. \A i \in Items, w \in Places, f \in BOOLEAN : things[<<i, w, f>>] \in Nat
  BY DEF Shape, Spots
<1>2. ASSUME NEW i \in Items, NEW w \in Places, NEW f \in BOOLEAN
      PROVE  /\ <<i, w, f>> \in Spots
             /\ w = p => things'[<<i, w, f>>] = 0
             /\ w \notin {p, r} => things'[<<i, w, f>>] = things[<<i, w, f>>]
             /\ things'[<<i, w, f>>] \in Nat
  <2>1. <<i, w, f>> \in Spots
    BY DEF Spots
  <2>2. things'[<<i, w, f>>]
          = IF w = p THEN 0
            ELSE things[<<i, w, f>>]
                   + (IF w = r /\ <<i, f>> \in D THEN things[<<i, p, f>>] ELSE 0)
    BY <2>1 DEF Left
  <2>3. things[<<i, w, f>>] \in Nat /\ things[<<i, p, f>>] \in Nat
    BY <1>1 DEF Places
  <2> QED BY <2>1, <2>2, <2>3
<1>3. things' \in [Spots -> Nat]
  <2>1. things' = [t \in Spots |-> things'[t]]
    BY DEF Left
  <2>2. \A t \in Spots : things'[t] \in Nat
    BY <1>2 DEF Spots
  <2> QED BY <2>1, <2>2
<1>4. \A q \in Players : q \in Places /\ q # r
  BY RecoveryAssumption DEF Places, Rooms
<1> QED BY <1>2, <1>3, <1>4

LEMMA SaveCharacterShape ==
  ASSUME IInv, NEW p \in Players, SaveCharacter(p)
  PROVE  Shape' /\ OneRecovery'
<1>1. TypeOK /\ Shape
  BY TypeShape DEF IInv
<1> DEFINE stored == Recoverable(p, Lasting(p), TRUE)
<1>2. stored \in Counts
  BY <1>1, RecoverableCounts
<1>3. SaveMe(p, stored) /\ status[p] # "off" /\ UNCHANGED <<status, room, queue>> /\ things' = things
  BY DEF SaveCharacter
<1> HIDE DEF stored
<1>4. things' \in [Spots -> Nat]
  BY <1>1, <1>3 DEF Shape
<1> QED BY <1>2, <1>3, <1>4, SaveMeShape

LEMMA AutosaveShape ==
  ASSUME IInv, NEW p \in Players, Autosave(p)
  PROVE  Shape' /\ OneRecovery'
<1>1. TypeOK /\ Shape
  BY TypeShape DEF IInv
<1> DEFINE stored == Recoverable(p, Lasting(p), TRUE)
<1>2. stored \in Counts
  BY <1>1, RecoverableCounts
<1>3. SaveMe(p, stored) /\ status[p] # "off" /\ UNCHANGED <<status, room, queue>> /\ things' = things
  BY <1>1 DEF Autosave, Shape
<1> HIDE DEF stored
<1>4. things' \in [Spots -> Nat]
  BY <1>1, <1>3 DEF Shape
<1> QED BY <1>2, <1>3, <1>4, SaveMeShape

LEMMA DieLeft ==
  ASSUME NEW p \in Players, Die(p)
  PROVE  things' = Left(p, room[p], Items \X BOOLEAN)
<1>1. things' = [t \in Items \X Places \X BOOLEAN |->
         IF t[2] = p THEN 0
         ELSE things[t] + (IF t[2] = room[p] /\ TRUE THEN things[<<t[1], p, t[3]>>] ELSE 0)]
  BY DEF Die, Leaving
<1>2. \A t \in Spots : <<t[1], t[3]>> \in Items \X BOOLEAN
  BY DEF Spots
<1> QED BY <1>1, <1>2 DEF Left, Spots

LEMMA DieShape ==
  ASSUME IInv, NEW p \in Players, Die(p)
  PROVE  Shape' /\ OneRecovery'
<1>1. Shape /\ room[p] \in Rooms
  BY TypeShape DEF IInv, Shape
<1>2. SaveMe(p, Nothing) /\ status[p] # "off" /\ UNCHANGED <<status, room, queue>>
  BY DEF Die
<1>3. things' = Left(p, room[p], Items \X BOOLEAN)
  BY DieLeft
<1> QED BY <1>1, <1>2, <1>3, NothingCounts, LeftShape, SaveMeShape

\* What p drops when he quits.
Dropped(p) == {x \in Items \X BOOLEAN : p \notin Wizards /\ (x[2] \/ ~RecoverLoc(p))}

LEMMA QuitLeft ==
  ASSUME NEW p \in Players, Quit(p)
  PROVE  things' = Left(p, room[p], Dropped(p))
<1>1. things' = [t \in Items \X Places \X BOOLEAN |->
         IF t[2] = p THEN 0
         ELSE things[t] + (IF t[2] = room[p] /\ (p \notin Wizards /\ (t[3] \/ ~RecoverLoc(p)))
                           THEN things[<<t[1], p, t[3]>>] ELSE 0)]
  BY DEF Quit, Leaving
<1>2. ASSUME NEW t \in Spots
      PROVE  <<t[1], t[3]>> \in Dropped(p) <=> (p \notin Wizards /\ (t[3] \/ ~RecoverLoc(p)))
  <2>1. <<t[1], t[3]>> \in Items \X BOOLEAN /\ <<t[1], t[3]>>[2] = t[3]
    BY DEF Spots
  <2> QED BY <2>1 DEF Dropped
<1> QED BY <1>1, <1>2 DEF Left, Spots

LEMMA QuitShape ==
  ASSUME IInv, NEW p \in Players, Quit(p)
  PROVE  Shape' /\ OneRecovery'
<1>1. TypeOK /\ Shape /\ room[p] \in Rooms
  BY TypeShape DEF IInv, Shape
<1>2. /\ things' \in [Spots -> Nat]
      /\ \A q \in Players \ {p}, i \in Items, f \in BOOLEAN :
           things'[<<i, q, f>>] = things[<<i, q, f>>]
      /\ \A i \in Items, f \in BOOLEAN : things'[<<i, p, f>>] = 0
  BY <1>1, QuitLeft, LeftShape
<1>3. Recoverable(p, Lasting(p), FALSE) \in Counts
  BY <1>1, RecoverableCounts
<1>4. /\ status' \in [Players -> {"off", "on", "lost"}]
      /\ room' \in [Players -> Rooms]
      /\ disk' \in [Players -> Counts] /\ list' \in [Players -> Counts]
      /\ starting' \in [Players -> {"no", "soon", "late", "saved"}]
      /\ queue' \in [Players -> Counts]
      /\ autosave' \in [Players -> BOOLEAN]
  BY <1>1, <1>3, NothingCounts DEF Quit, Shape, Rooms
<1>5. ASSUME NEW q \in Players, status'[q] = "off"
      PROVE  /\ starting'[q] = "no" /\ ~autosave'[q] /\ queue'[q] = Nothing
             /\ \A i \in Items, f \in BOOLEAN : things'[<<i, q, f>>] = 0
  <2>1. CASE q = p
    BY <1>1, <1>2, <2>1 DEF Quit, Shape
  <2>2. CASE q # p
    <3>1. /\ status[q] = "off" /\ starting'[q] = starting[q] /\ autosave'[q] = autosave[q]
          /\ queue'[q] = queue[q]
      BY <1>1, <1>5, <2>2 DEF Quit, Shape
    <3> QED BY <1>1, <1>2, <2>2, <3>1 DEF Shape
  <2> QED BY <2>1, <2>2
<1>6. OneRecovery'
  BY <1>1 DEF Quit, Shape, IInv, OneRecovery
<1>7. Shape'
  BY <1>2, <1>4, <1>5 DEF Shape
<1> QED BY <1>6, <1>7

\* The commands that move nothing into or out of the game.
LEMMA LinkShape ==
  ASSUME IInv, NEW p \in Players, LoseLink(p) \/ Revive(p) \/ Walk(p)
  PROVE  Shape' /\ OneRecovery'
<1>1. Shape
  BY TypeShape DEF IInv
<1>2. /\ status' \in [Players -> {"off", "on", "lost"}]
      /\ room' \in [Players -> Rooms]
      /\ autosave' \in [Players -> BOOLEAN]
      /\ UNCHANGED <<things, disk, list, starting, queue>>
  BY <1>1 DEF LoseLink, Revive, Walk, Shape
<1>3. ASSUME NEW q \in Players, status'[q] = "off"
      PROVE  status[q] = "off" /\ autosave'[q] = autosave[q]
  BY <1>1, <1>3 DEF LoseLink, Revive, Walk, Shape
<1> QED BY <1>1, <1>2, <1>3 DEF Shape, IInv, OneRecovery

\* A thing of kind i passes from a to b.
Passes(i, f, a, b) ==
  /\ a \in Places /\ b \in Places /\ a # b
  /\ things[<<i, a, f>>] > 0
  /\ things' = [things EXCEPT ![<<i, a, f>>] = @ - 1, ![<<i, b, f>>] = @ + 1]

LEMMA HandleFacts ==
  ASSUME Shape, NEW p \in Players, Handle(p)
  PROVE  \E i \in Items, f \in BOOLEAN, a, b \in {p, room[p]} : Passes(i, f, a, b)
<1>1. room[p] \in Rooms /\ room[p] # p /\ room[p] \in Places /\ p \in Places
  BY RecoveryAssumption DEF Shape, Places
<1>2. PICK i \in Items, f \in BOOLEAN, way \in {<<room[p], p>>, <<p, room[p]>>} :
        /\ things[<<i, way[1], f>>] > 0
        /\ things' = [things EXCEPT ![<<i, way[1], f>>] = @ - 1, ![<<i, way[2], f>>] = @ + 1]
  BY DEF Handle
<1>3. /\ way[1] \in {p, room[p]} /\ way[2] \in {p, room[p]} \ {way[1]}
      /\ way[1] \in Places /\ way[2] \in Places
  BY <1>1
<1>4. Passes(i, f, way[1], way[2])
  BY <1>2, <1>3 DEF Passes
<1> QED BY <1>3, <1>4

LEMMA HandleShape ==
  ASSUME IInv, NEW p \in Players, Handle(p)
  PROVE  Shape' /\ OneRecovery'
<1>1. Shape
  BY TypeShape DEF IInv
<1>2. PICK i \in Items, f \in BOOLEAN, a, b \in {p, room[p]} : Passes(i, f, a, b)
  BY <1>1, HandleFacts
<1>5. /\ a \in Places /\ b \in Places
      /\ things[<<i, a, f>>] > 0
      /\ things' = [things EXCEPT ![<<i, a, f>>] = @ - 1, ![<<i, b, f>>] = @ + 1]
  BY <1>2 DEF Passes
<1>6. <<i, a, f>> \in Spots /\ <<i, b, f>> \in Spots
  BY <1>5 DEF Spots
<1>7. things' \in [Spots -> Nat]
  BY <1>1, <1>5, <1>6 DEF Shape
<1>8. UNCHANGED <<status, room, disk, list, starting, queue, autosave>> /\ status[p] = "on"
  BY DEF Handle
<1>9. ASSUME NEW q \in Players, status'[q] = "off", NEW j \in Items, NEW g \in BOOLEAN
      PROVE  things'[<<j, q, g>>] = 0
  <2>1. q # p /\ q # room[p] /\ status[q] = "off"
    BY <1>1, <1>8, <1>9, RecoveryAssumption DEF Shape
  <2>2. <<j, q, g>> # <<i, a, f>> /\ <<j, q, g>> # <<i, b, f>>
    BY <2>1
  <2>3. <<j, q, g>> \in Spots
    BY DEF Spots, Places
  <2>4. things'[<<j, q, g>>] = things[<<j, q, g>>]
    BY <1>1, <1>5, <2>2, <2>3 DEF Shape
  <2> QED BY <1>1, <2>1, <2>4 DEF Shape
<1>10. Shape'
  BY <1>1, <1>7, <1>8, <1>9 DEF Shape
<1>11. OneRecovery'
  BY <1>8 DEF IInv, OneRecovery
<1> QED BY <1>10, <1>11

LEMMA CrashShape ==
  ASSUME IInv, Crash
  PROVE  Shape' /\ OneRecovery'
<1>1. Shape
  BY TypeShape DEF IInv
<1>2. /\ things' \in [Spots -> 0 .. MAX_COPIES]
      /\ \A p \in Players, i \in Items, f \in BOOLEAN : things'[<<i, p, f>>] = 0
  BY FreshFacts DEF Crash
<1>3. things' \in [Spots -> Nat]
  <2>1. 0 .. MAX_COPIES \subseteq Nat
    BY RecoveryAssumption
  <2> QED BY <1>2, <2>1
<1>4. OneRecovery'
  BY DEF Crash, OneRecovery
<1>5. Shape'
  BY <1>1, <1>2, <1>3, NothingCounts DEF Crash, Shape, Rooms
<1> QED BY <1>4, <1>5

LEMMA NextShape ==
  ASSUME IInv, [Next]_vars
  PROVE  Shape' /\ OneRecovery'
<1>1. CASE UNCHANGED vars
  BY <1>1, TypeShape DEF vars, IInv, Shape, OneRecovery
<1>2. ASSUME NEW p \in Players,
             \/ Login(p) \/ LoadRecoverFiles(p) \/ SlowLoadRecoverFiles(p)
             \/ SaveCharacter(p) \/ Autosave(p) \/ Die(p) \/ Quit(p)
             \/ LoseLink(p) \/ Revive(p) \/ Walk(p) \/ Handle(p)
      PROVE  Shape' /\ OneRecovery'
  BY <1>2, LoginShape, LoadRecoverFilesShape, SlowLoadShape, SaveCharacterShape,
     AutosaveShape, DieShape, QuitShape, LinkShape, HandleShape
<1>3. CASE Crash
  BY <1>3, CrashShape
<1> QED BY <1>1, <1>2, <1>3 DEF Next

-----------------------------------------------------------------------------
(***************************************************************************)
(* The account of one kind: the things at the places, and what is owed to  *)
(* the players.                                                            *)
(***************************************************************************)
Cells(i) == {i} \X Places \X BOOLEAN
Debts(i) == [p \in Players |-> Owed(p)[i]]

LEMMA CopiesSum ==
  ASSUME NEW i
  PROVE  Copies(i) = Sum(things, Cells(i)) + Sum(Debts(i), Players)
BY DEF Copies, Sum, Cells, Debts

LEMMA CellsFinite ==
  ASSUME NEW i
  PROVE  IsFiniteSet(Cells(i))
<1>1. IsFiniteSet(Rooms)
  <2>1. IsFiniteSet({"start"}) /\ IsFiniteSet({"wild"})
    BY FS_Singleton, Zenon
  <2>2. IsFiniteSet({"start"} \cup {"wild"})
    BY <2>1, FS_Union
  <2>3. {"start"} \cup {"wild"} = Rooms
    BY DEF Rooms
  <2> QED BY <2>2, <2>3
<1>2. IsFiniteSet(Places)
  BY <1>1, RecoveryAssumption, FS_Union DEF Places
<1>3. IsFiniteSet(BOOLEAN)
  <2>1. IsFiniteSet({TRUE}) /\ IsFiniteSet({FALSE})
    BY FS_Singleton, Zenon
  <2>2. IsFiniteSet({TRUE} \cup {FALSE})
    BY <2>1, FS_Union
  <2>3. {TRUE} \cup {FALSE} = BOOLEAN
    OBVIOUS
  <2> QED BY <2>2, <2>3
<1>4. IsFiniteSet(Places \X BOOLEAN)
  BY <1>2, <1>3, FS_Product
<1> DEFINE h == [x \in Places \X BOOLEAN |-> <<i, x[1], x[2]>>]
<1>5. h \in Surjection(Places \X BOOLEAN, Cells(i))
  <2>1. h \in [Places \X BOOLEAN -> Cells(i)]
    BY DEF Cells
  <2>2. ASSUME NEW t \in Cells(i)
        PROVE  \E x \in Places \X BOOLEAN : h[x] = t
    <3>1. <<t[2], t[3]>> \in Places \X BOOLEAN /\ t = <<i, t[2], t[3]>>
      BY DEF Cells
    <3> QED BY <3>1
  <2> QED BY <2>1, <2>2 DEF Surjection
<1> QED BY <1>4, <1>5, FS_Surjection

LEMMA OwedCounts ==
  ASSUME Shape, NEW p \in Players
  PROVE  Owed(p) \in Counts
BY DEF Shape, Owed

LEMMA AccountNatural ==
  ASSUME Shape, NEW i \in Items
  PROVE  /\ Natural(things, Cells(i)) /\ Integral(things, Cells(i))
         /\ Natural(Debts(i), Players) /\ Integral(Debts(i), Players)
<1>1. Cells(i) \subseteq Spots
  BY DEF Cells, Spots
<1>2. \A p \in Players : Debts(i)[p] \in Nat
  BY OwedCounts, RecoveryAssumption DEF Debts, Counts
<1> QED BY <1>1, <1>2 DEF Natural, Integral, Shape

\* What keeps the account of a kind bounded bounds its things at every place.
LEMMA ThingsBounded ==
  ASSUME Shape, Bounded
  PROVE  things \in [Spots -> 0 .. MAX_COPIES]
<1> SUFFICES ASSUME NEW t \in Spots PROVE things[t] \in 0 .. MAX_COPIES
  BY DEF Shape
<1> DEFINE i == t[1]
<1>1. i \in Items /\ t \in Cells(i)
  BY DEF Spots, Cells
<1> HIDE DEF i
<1>2. IsFiniteSet(Cells(i)) /\ IsFiniteSet(Players)
  BY CellsFinite, RecoveryAssumption
<1>3. Natural(things, Cells(i)) /\ Natural(Debts(i), Players)
  BY <1>1, AccountNatural
<1>4. things[t] <= Sum(things, Cells(i))
  BY <1>1, <1>2, <1>3, SumBounds
<1>5. Sum(things, Cells(i)) \in Nat /\ Sum(Debts(i), Players) \in Nat
  BY <1>2, <1>3, SumNat
<1>6. Sum(things, Cells(i)) + Sum(Debts(i), Players) <= MAX_COPIES
  BY <1>1, CopiesSum DEF Bounded
<1>7. things[t] \in Nat
  BY DEF Shape
<1> QED BY <1>4, <1>5, <1>6, <1>7, RecoveryAssumption

LEMMA NextInv == IInv /\ [Next]_vars => IInv'
<1> SUFFICES ASSUME IInv, [Next]_vars PROVE IInv'
  OBVIOUS
<1>1. Shape' /\ OneRecovery'
  BY NextShape
<1>2. CASE UNCHANGED vars
  BY <1>2 DEF vars, IInv, TypeOK, OneRecovery
<1>3. CASE Next
  <2>1. Bounded'
    BY <1>3 DEF Next
  <2>2. (Shape /\ Bounded => things \in [Spots -> 0 .. MAX_COPIES])'
    BY ThingsBounded, PTL
  <2>3. things' \in [Spots -> 0 .. MAX_COPIES]
    BY <1>1, <2>1, <2>2
  <2> QED BY <1>1, <2>3 DEF Shape, IInv, TypeOK, Spots
<1> QED BY <1>2, <1>3

\* The state has its type, for any number of players and kinds of things: who
\* has left the game carries nothing and left no call-out behind (cmd_sec.c
\* quit()), and the bound of the account bounds every heap of things.
THEOREM RecoveryTypes == Spec => []TypeOK
<1>1. IInv => TypeOK
  BY DEF IInv
<1> QED BY <1>1, InitInv, NextInv, PTL DEF Spec

-----------------------------------------------------------------------------
(***************************************************************************)
(* How the account changes.                                                *)
(***************************************************************************)
World(i) == Sum(things, Cells(i))
Debt(i) == Sum(Debts(i), Players)

LEMMA AccountPrimed ==
  ASSUME NEW i \in Items
  PROVE  /\ Copies(i) = World(i) + Debt(i)
         /\ Copies(i)' = World(i)' + Debt(i)'
         /\ World(i)' = Sum(things', Cells(i))
         /\ Debt(i)' = Sum(Debts(i)', Players)
BY DEF Copies, Sum, Cells, Debts, World, Debt

LEMMA AccountInts ==
  ASSUME Shape, NEW i \in Items
  PROVE  World(i) \in Nat /\ Debt(i) \in Nat
BY AccountNatural, CellsFinite, RecoveryAssumption, SumNat DEF World, Debt

LEMMA AccountIntsPrimed ==
  ASSUME Shape', NEW i \in Items
  PROVE  World(i)' \in Nat /\ Debt(i)' \in Nat
<1>1. (Shape => World(i) \in Nat /\ Debt(i) \in Nat)'
  BY AccountInts, PTL
<1> QED BY <1>1

LEMMA AccountNaturalPrimed ==
  ASSUME Shape', NEW i \in Items
  PROVE  Integral(things', Cells(i)) /\ Integral(Debts(i)', Players)
<1>1. (Shape => Integral(things, Cells(i)) /\ Integral(Debts(i), Players))'
  BY AccountNatural, PTL
<1> QED BY <1>1 DEF Integral

\* Only what is owed to p has changed.
LEMMA DebtChange ==
  ASSUME Shape, Shape', NEW i \in Items, NEW p \in Players,
         \A q \in Players \ {p} : Owed(q)' = Owed(q)
  PROVE  Debt(i)' = Debt(i) + (Owed(p)'[i] - Owed(p)[i])
<1> DEFINE f == Debts(i)
           g == Debts(i)'
<1>1. Integral(f, Players) /\ Integral(g, Players)
  BY AccountNatural, AccountNaturalPrimed
<1>2. /\ f[p] = Owed(p)[i] /\ g[p] = Owed(p)'[i]
      /\ \A q \in Players \ {p} : f[q] = g[q]
  BY DEF Debts
<1>3. IsFiniteSet(Players)
  BY RecoveryAssumption
<1>4. Debt(i) = Sum(f, Players) /\ Debt(i)' = Sum(g, Players)
  BY AccountPrimed DEF Debt
<1> HIDE DEF f, g
<1>5. Coincide(f, g, Players \ {p})
  BY <1>2 DEF Coincide
<1>6. Sum(g, Players) = Sum(f, Players) + (g[p] - f[p])
  BY <1>1, <1>3, <1>5, SumChange
<1> QED BY <1>2, <1>4, <1>6

LEMMA DebtSame ==
  ASSUME NEW i \in Items, \A q \in Players : Owed(q)' = Owed(q)
  PROVE  Debt(i)' = Debt(i)
BY AccountPrimed DEF Debts, Debt

\* Of the things of a player who dies or quits, those are gone that he does not drop.
Kept(i, f, p, D) == IF <<i, f>> \in D THEN 0 ELSE things[<<i, p, f>>]

LEMMA WorldLeft ==
  ASSUME Shape, Shape', NEW p \in Players, NEW r \in Rooms, NEW D,
         things' = Left(p, r, D), NEW i \in Items
  PROVE  World(i)' = World(i) - Kept(i, TRUE, p, D) - Kept(i, FALSE, p, D)
<1> DEFINE pt == <<i, p, TRUE>>
           pf == <<i, p, FALSE>>
           rt == <<i, r, TRUE>>
           rf == <<i, r, FALSE>>
           g == things'
           mid == [t \in Spots |-> IF t \in {pt, rt} THEN g[t] ELSE things[t]]
           C == Cells(i)
           kt == Kept(i, TRUE, p, D)
           kf == Kept(i, FALSE, p, D)
<1>1. p # r /\ p \in Places /\ r \in Places
  BY RecoveryAssumption DEF Places
<1>2. {pt, pf, rt, rf} \subseteq C /\ C \subseteq Spots /\ IsFiniteSet(C)
  <2>1. pt \in C /\ pf \in C /\ rt \in C /\ rf \in C
    BY <1>1 DEF Cells
  <2>2. C \subseteq Spots
    BY DEF Cells, Spots
  <2>3. IsFiniteSet(C)
    BY CellsFinite
  <2> QED BY <2>1, <2>2, <2>3
<1>3. rt # pt /\ rf # pf /\ pf \notin {pt, rt} /\ rf \notin {pt, rt}
  BY <1>1
<1>4. Integral(things, C) /\ Integral(g, C)
  BY AccountNatural, AccountNaturalPrimed
<1>5. Integral(mid, C)
  BY <1>2, <1>4 DEF Integral
<1>6. ASSUME NEW t \in C \ {pt, rt, pf, rf} PROVE g[t] = things[t]
  <2>1. t = <<i, t[2], t[3]>> /\ t[3] \in BOOLEAN /\ t \in Spots
    BY <1>2, <1>6 DEF Cells
  <2>2. t[2] # p /\ t[2] # r
    BY <1>6, <2>1
  <2>3. things[t] \in Nat
    BY <2>1 DEF Shape
  <2> QED BY <2>1, <2>2, <2>3 DEF Left
<1>7. /\ g[pt] = 0 /\ g[pf] = 0
      /\ g[rt] = things[rt] + (IF <<i, TRUE>> \in D THEN things[pt] ELSE 0)
      /\ g[rf] = things[rf] + (IF <<i, FALSE>> \in D THEN things[pf] ELSE 0)
  BY <1>1, <1>2 DEF Left
<1>8. /\ mid[pt] = g[pt] /\ mid[rt] = g[rt]
      /\ mid[pf] = things[pf] /\ mid[rf] = things[rf]
  BY <1>2, <1>3
<1>9. Coincide(things, mid, C \ {pt, rt})
  BY <1>2 DEF Coincide
<1>10. Coincide(mid, g, C \ {pf, rf})
  BY <1>2, <1>6 DEF Coincide
<1>11. /\ things[pt] \in Int /\ things[pf] \in Int /\ things[rt] \in Int /\ things[rf] \in Int
  BY <1>2, <1>4 DEF Integral
<1>12. World(i) = Sum(things, C) /\ World(i)' = Sum(g, C)
  BY AccountPrimed DEF World
<1>13. /\ kt = IF <<i, TRUE>> \in D THEN 0 ELSE things[pt]
       /\ kf = IF <<i, FALSE>> \in D THEN 0 ELSE things[pf]
  BY DEF Kept
<1>14. pt \in C /\ rt \in C \ {pt} /\ pf \in C /\ rf \in C \ {pf}
  BY <1>2, <1>3
<1>15. Sum(things, C) \in Int
  BY <1>2, <1>4, SumInt
<1> HIDE DEF pt, pf, rt, rf, g, mid, C, kt, kf
<1>16. Sum(mid, C) = Sum(things, C) + (mid[pt] - things[pt]) + (mid[rt] - things[rt])
  BY <1>2, <1>4, <1>5, <1>9, <1>14, SumChangeTwo
<1>17. Sum(g, C) = Sum(mid, C) + (g[pf] - mid[pf]) + (g[rf] - mid[rf])
  BY <1>2, <1>4, <1>5, <1>10, <1>14, SumChangeTwo
<1>18. /\ kt \in Int
       /\ g[rt] \in Int
       /\ g[pt] + g[rt] + kt = things[pt] + things[rt]
  <2>1. CASE <<i, TRUE>> \in D
    <3>1. g[pt] = 0 /\ g[rt] = things[rt] + things[pt] /\ kt = 0
      BY <1>7, <1>13, <2>1
    <3> QED BY <1>11, <3>1
  <2>2. CASE <<i, TRUE>> \notin D
    <3>1. g[pt] = 0 /\ g[rt] = things[rt] + 0 /\ kt = things[pt]
      BY <1>7, <1>13, <2>2
    <3> QED BY <1>11, <3>1
  <2> QED BY <2>1, <2>2
<1>19. /\ kf \in Int
       /\ g[rf] \in Int
       /\ g[pf] + g[rf] + kf = things[pf] + things[rf]
  <2>1. CASE <<i, FALSE>> \in D
    <3>1. g[pf] = 0 /\ g[rf] = things[rf] + things[pf] /\ kf = 0
      BY <1>7, <1>13, <2>1
    <3> QED BY <1>11, <3>1
  <2>2. CASE <<i, FALSE>> \notin D
    <3>1. g[pf] = 0 /\ g[rf] = things[rf] + 0 /\ kf = things[pf]
      BY <1>7, <1>13, <2>2
    <3> QED BY <1>11, <3>1
  <2> QED BY <2>1, <2>2
<1>20. g[pt] \in Int /\ g[pf] \in Int
  BY <1>7
<1>21. Sum(mid, C) = Sum(things, C) + (g[pt] - things[pt]) + (g[rt] - things[rt])
  BY <1>8, <1>16
<1>22. Sum(g, C) = Sum(mid, C) + (g[pf] - things[pf]) + (g[rf] - things[rf])
  BY <1>8, <1>17
<1>23. Sum(mid, C) = Sum(things, C) - kt
  BY <1>11, <1>15, <1>18, <1>20, <1>21
<1>24. Sum(g, C) = Sum(mid, C) - kf
  BY <1>11, <1>15, <1>18, <1>19, <1>20, <1>22, <1>23
<1>25. World(i)' = World(i) - kt - kf
  BY <1>12, <1>23, <1>24
<1> QED BY <1>25 DEF kt, kf

\* Picking up and putting down change nothing.
LEMMA WorldPasses ==
  ASSUME Shape, Shape', NEW j \in Items, NEW f \in BOOLEAN, NEW a, NEW b,
         Passes(j, f, a, b), NEW i \in Items
  PROVE  World(i)' = World(i)
<1> DEFINE x == <<j, a, f>>
           y == <<j, b, f>>
           C == Cells(i)
           g == things'
<1>1. /\ x \in Spots /\ y \in Spots /\ x # y
      /\ g = [things EXCEPT ![x] = @ - 1, ![y] = @ + 1]
  BY DEF Passes, Spots
<1>2. Integral(things, C) /\ Integral(g, C) /\ IsFiniteSet(C) /\ C \subseteq Spots
  BY AccountNatural, AccountNaturalPrimed, CellsFinite DEF Cells, Spots
<1>3. World(i) = Sum(things, C) /\ World(i)' = Sum(g, C)
  BY AccountPrimed DEF World
<1>4. /\ g[x] = things[x] - 1 /\ g[y] = things[y] + 1
      /\ \A t \in Spots \ {x, y} : g[t] = things[t]
  BY <1>1 DEF Shape
<1>5. x \in C <=> i = j
  BY <1>1 DEF Cells, Passes
<1>6. y \in C <=> i = j
  BY <1>1 DEF Cells, Passes
<1>7. things[x] \in Int /\ things[y] \in Int
  BY <1>1 DEF Shape
<1>8. Sum(things, C) \in Int
  BY <1>2, SumInt
<1> HIDE DEF x, y, C, g
<1>9. CASE i = j
  <2>1. Coincide(things, g, C \ {x, y})
    BY <1>2, <1>4 DEF Coincide
  <2>2. Sum(g, C) = Sum(things, C) + (g[x] - things[x]) + (g[y] - things[y])
    <3>1. x \in C /\ y \in C \ {x}
      BY <1>1, <1>5, <1>6, <1>9
    <3> QED BY <1>2, <2>1, <3>1, SumChangeTwo
  <2> QED BY <1>3, <1>4, <1>7, <1>8, <2>2
<1>10. CASE i # j
  <2>1. Coincide(things, g, C)
    BY <1>2, <1>4, <1>5, <1>6, <1>10 DEF Coincide
  <2> QED BY <1>2, <1>3, <2>1, SumAgree
<1> QED BY <1>9, <1>10

\* A recovered thing is new in the world.
LEMMA WorldGrows ==
  ASSUME Shape, Shape', NEW j \in Items, NEW f \in BOOLEAN, NEW p \in Players,
         things' = [things EXCEPT ![<<j, p, f>>] = @ + 1], NEW i \in Items
  PROVE  World(i)' = World(i) + (IF i = j THEN 1 ELSE 0)
<1> DEFINE x == <<j, p, f>>
           C == Cells(i)
           g == things'
<1>1. x \in Spots /\ g = [things EXCEPT ![x] = @ + 1]
  BY DEF Spots, Places
<1>2. Integral(things, C) /\ Integral(g, C) /\ IsFiniteSet(C) /\ C \subseteq Spots
  BY AccountNatural, AccountNaturalPrimed, CellsFinite DEF Cells, Spots
<1>3. World(i) = Sum(things, C) /\ World(i)' = Sum(g, C)
  BY AccountPrimed DEF World
<1>4. g[x] = things[x] + 1 /\ \A t \in Spots \ {x} : g[t] = things[t]
  BY <1>1 DEF Shape
<1>5. x \in C <=> i = j
  BY <1>1 DEF Cells, Places
<1>6. things[x] \in Int
  BY <1>1 DEF Shape
<1>7. Sum(things, C) \in Int
  BY <1>2, SumInt
<1> HIDE DEF x, C, g
<1>8. CASE i = j
  <2>1. Coincide(things, g, C \ {x})
    BY <1>2, <1>4 DEF Coincide
  <2>2. Sum(g, C) = Sum(things, C) + (g[x] - things[x])
    BY <1>2, <1>5, <1>8, <2>1, SumChange
  <2> QED BY <1>3, <1>4, <1>6, <1>7, <1>8, <2>2
<1>9. CASE i # j
  <2>1. Coincide(things, g, C)
    BY <1>2, <1>4, <1>5, <1>9 DEF Coincide
  <2>2. Sum(things, C) = Sum(g, C)
    BY <1>2, <2>1, SumAgree
  <2> QED BY <1>3, <1>7, <1>9, <2>2
<1> QED BY <1>8, <1>9

-----------------------------------------------------------------------------
(***************************************************************************)
(* Why the number of things of a kind changes.                             *)
(***************************************************************************)
GainExplained(i) ==
  Copies(i)' > Copies(i) => Crash \/ \E p \in Players : SavedTooSoon(p)

LossExplained(i) ==
  Copies(i)' < Copies(i) =>
    \/ Crash
    \/ \E p \in Players : \/ SavedTooSoon(p) \/ QuitTooSoon(p)
                          \/ CameTooLate(p) \/ WizardQuits(p)
                          \/ FailsToRecover(p, i)

Explained(i) == GainExplained(i) /\ LossExplained(i)

LEMMA CopiesInts ==
  ASSUME Shape, Shape', NEW i \in Items
  PROVE  /\ Copies(i) \in Nat /\ Copies(i)' \in Nat
         /\ Copies(i) = World(i) + Debt(i) /\ Copies(i)' = World(i)' + Debt(i)'
         /\ World(i) \in Nat /\ Debt(i) \in Nat
         /\ World(i)' \in Nat /\ Debt(i)' \in Nat
<1>1. World(i) \in Nat /\ Debt(i) \in Nat /\ World(i)' \in Nat /\ Debt(i)' \in Nat
  BY AccountInts, AccountIntsPrimed
<1>2. Copies(i) = World(i) + Debt(i) /\ Copies(i)' = World(i)' + Debt(i)'
  BY AccountPrimed
<1> QED BY <1>1, <1>2

LEMMA SteadyExplained ==
  ASSUME Shape, Shape', NEW i \in Items, World(i)' = World(i), Debt(i)' = Debt(i)
  PROVE  Explained(i)
BY CopiesInts DEF Explained, GainExplained, LossExplained

\* One who saves too soon explains everything.
LEMMA SavedExplained ==
  ASSUME NEW i \in Items, NEW p \in Players, SavedTooSoon(p)
  PROVE  Explained(i)
BY DEF Explained, GainExplained, LossExplained

LEMMA SaveMeOwed ==
  ASSUME Shape, NEW p \in Players, NEW stored, SaveMe(p, stored),
         status[p] # "off", UNCHANGED <<status, queue>>
  PROVE  /\ \A q \in Players \ {p} : Owed(q)' = Owed(q)
         /\ Owed(p)' = Owed(p) \/ SavedTooSoon(p)
<1>1. \A q \in Players \ {p} : Owed(q)' = Owed(q)
  BY DEF SaveMe, Owed, Shape
<1>2. CASE starting[p] = "no"
  BY <1>2 DEF SaveMe, Owed, Shape
<1>3. CASE starting[p] # "no"
  <2>1. starting'[p] = "saved"
    BY <1>3 DEF SaveMe, Shape
  <2>2. Owed(p)' = list'[p]
    BY <2>1 DEF Owed
  <2>3. CASE SavedTooSoon(p)
    BY <2>3, <1>1
  <2>4. CASE ~SavedTooSoon(p)
    <3>1. starting[p] = "saved" /\ list'[p] = list[p]
      BY <2>1, <2>4 DEF SavedTooSoon
    <3> QED BY <1>1, <2>2, <3>1 DEF Owed
  <2> QED BY <2>3, <2>4
<1> QED BY <1>1, <1>2, <1>3

LEMMA SaveMeExplained ==
  ASSUME Shape, Shape', NEW p \in Players, NEW stored, SaveMe(p, stored),
         status[p] # "off", UNCHANGED <<status, queue>>,
         NEW i \in Items, World(i)' = World(i)
  PROVE  Explained(i)
<1>1. CASE SavedTooSoon(p)
  BY <1>1, SavedExplained
<1>2. CASE ~SavedTooSoon(p)
  <2>1. \A q \in Players : Owed(q)' = Owed(q)
    BY <1>2, SaveMeOwed
  <2> QED BY <2>1, DebtSame, SteadyExplained
<1> QED BY <1>1, <1>2

LEMMA WorldSame ==
  ASSUME NEW i \in Items, things' = things
  PROVE  World(i)' = World(i)
BY AccountPrimed DEF World

LEMMA LoginExplained ==
  ASSUME Shape, Shape', NEW p \in Players, Login(p), NEW i \in Items
  PROVE  Explained(i)
<1>1. PICK when \in {"soon", "late"}, new_password \in BOOLEAN :
        LET stored == IF new_password THEN Nothing ELSE disk[p]
        IN /\ status' = [status EXCEPT ![p] = "on"]
           /\ room' = [room EXCEPT ![p] = "start"]
           /\ disk' = [disk EXCEPT ![p] = stored]
           /\ list' = [list EXCEPT ![p] = stored]
           /\ starting' = [starting EXCEPT ![p] = IF new_password THEN "saved" ELSE when]
           /\ autosave' = [autosave EXCEPT ![p] = new_password /\ p \notin Wizards]
           /\ UNCHANGED <<things, queue>>
  BY DEF Login
<1>2. /\ status[p] = "off" /\ starting[p] = "no" /\ queue[p] = Nothing
      /\ status'[p] = "on" /\ queue'[p] = Nothing
  BY <1>1 DEF Login, Shape
<1>3. \A q \in Players \ {p} : Owed(q)' = Owed(q)
  BY <1>1 DEF Owed, Shape
<1>4. World(i)' = World(i)
  BY <1>1, WorldSame
<1>5. CASE new_password
  <2>1. starting'[p] = "saved"
    BY <1>1, <1>5 DEF Shape
  <2>2. SavedTooSoon(p)
    BY <1>2, <2>1 DEF SavedTooSoon
  <2> QED BY <2>2, SavedExplained
<1>6. CASE ~new_password /\ when = "soon"
  <2>1. starting'[p] = "soon" /\ list'[p] = disk[p]
    BY <1>1, <1>6 DEF Shape
  <2>2. Owed(p)' = Owed(p)
    BY <1>2, <2>1 DEF Owed
  <2> QED BY <1>3, <1>4, <2>2, DebtSame, SteadyExplained
<1>7. CASE ~new_password /\ when = "late"
  <2>1. starting'[p] = "late"
    BY <1>1, <1>7 DEF Shape
  <2>2. Owed(p)' = Nothing
    BY <1>2, <2>1 DEF Owed
  <2>3. Owed(p)'[i] = 0 /\ Owed(p)[i] \in Nat
    BY <2>2, OwedCounts, RecoveryAssumption DEF Nothing, Counts
  <2>4. Debt(i)' = Debt(i) + (Owed(p)'[i] - Owed(p)[i])
    BY <1>3, DebtChange
  <2>5. ~(Copies(i)' > Copies(i))
    BY <1>4, <2>3, <2>4, CopiesInts
  <2>6. CameTooLate(p)
    BY <1>2, <2>1 DEF CameTooLate
  <2> QED BY <2>5, <2>6 DEF Explained, GainExplained, LossExplained
<1> QED BY <1>5, <1>6, <1>7

LEMMA LoadRecoverFilesExplained ==
  ASSUME IInv, Shape', NEW p \in Players, LoadRecoverFiles(p), NEW i \in Items
  PROVE  Explained(i)
<1>1. Shape
  BY TypeShape DEF IInv
<1>2. World(i)' = World(i)
  BY WorldSame DEF LoadRecoverFiles
<1>3. \A q \in Players \ {p} : Owed(q)' = Owed(q)
  BY <1>1 DEF LoadRecoverFiles, Owed, Shape
<1>4. /\ status[p] # "off" /\ status'[p] # "off" /\ starting'[p] = "no"
      /\ queue[p] = Nothing
      /\ queue'[p] = IF starting[p] = "late" THEN Nothing ELSE list[p]
      /\ starting[p] \in {"soon", "late", "saved"}
  BY <1>1 DEF LoadRecoverFiles, Shape, IInv, OneRecovery
<1>5. Owed(p)' = Owed(p)
  BY <1>4 DEF Owed
<1>6. \A q \in Players : Owed(q)' = Owed(q)
  BY <1>3, <1>5
<1> QED BY <1>1, <1>2, <1>6, DebtSame, SteadyExplained

LEMMA SlowLoadExplained ==
  ASSUME IInv, Shape', NEW p \in Players, SlowLoadRecoverFiles(p), NEW i \in Items
  PROVE  Explained(i)
<1>1. Shape
  BY TypeShape DEF IInv
<1>2. PICK j \in Items, f \in BOOLEAN :
        /\ queue[p][j] > 0
        /\ queue' = [queue EXCEPT ![p][j] = @ - 1]
        /\ Arrives(p, j, f) \/ things' = things
        /\ UNCHANGED <<status, room, disk, list, starting, autosave>>
  BY SlowLoadIs, Zenon
<1>6. queue[p] # Nothing /\ queue[p] \in [Items -> 0 .. MAX_COPIES]
  BY <1>1, <1>2 DEF Nothing, Shape, Counts
<1>7. status[p] # "off" /\ starting[p] = "no"
  BY <1>1, <1>6 DEF Shape, IInv, OneRecovery
<1>8. \A q \in Players \ {p} : Owed(q)' = Owed(q)
  BY <1>1, <1>2 DEF Owed, Shape
<1>9. Owed(p) = queue[p] /\ Owed(p)' = queue'[p]
  BY <1>2, <1>7 DEF Owed
<1>10. queue'[p] = [queue[p] EXCEPT ![j] = @ - 1]
  BY <1>1, <1>2 DEF Shape
<1>11. /\ queue[p][i] \in Int
       /\ queue'[p][i] = queue[p][i] - (IF i = j THEN 1 ELSE 0)
  BY <1>6, <1>10, RecoveryAssumption
<1>12. Debt(i)' = Debt(i) + (Owed(p)'[i] - Owed(p)[i])
  BY <1>1, <1>8, DebtChange
<1>13. Debt(i)' = Debt(i) + (queue'[p][i] - queue[p][i])
  BY <1>9, <1>12
<1>14. ASSUME Arrives(p, j, f) PROVE Copies(i)' = Copies(i)
  <2>1. World(i)' = World(i) + (IF i = j THEN 1 ELSE 0)
    BY <1>1, <1>14, WorldGrows DEF Arrives
  <2> QED BY <1>1, <1>11, <1>13, <2>1, CopiesInts
<1>15. ASSUME things' = things
       PROVE  Copies(i)' = Copies(i) - (IF i = j THEN 1 ELSE 0)
  <2>1. World(i)' = World(i)
    BY <1>15, WorldSame
  <2> QED BY <1>1, <1>11, <1>13, <2>1, CopiesInts
<1>16. ASSUME things' = things PROVE FailsToRecover(p, j)
  BY <1>2, <1>16 DEF FailsToRecover
<1>17. Copies(i)' = Copies(i)
         \/ (Copies(i)' = Copies(i) - 1 /\ FailsToRecover(p, i))
  <2>1. Copies(i) \in Nat
    BY <1>1, CopiesInts
  <2> QED BY <1>2, <1>14, <1>15, <1>16, <2>1
<1> QED BY <1>1, <1>17, CopiesInts DEF Explained, GainExplained, LossExplained

LEMMA SavingExplained ==
  ASSUME IInv, Shape', NEW p \in Players, SaveCharacter(p) \/ Autosave(p), NEW i \in Items
  PROVE  Explained(i)
<1> DEFINE stored == Recoverable(p, Lasting(p), TRUE)
<1>1. Shape
  BY TypeShape DEF IInv
<1>2. SaveMe(p, stored) /\ status[p] # "off" /\ UNCHANGED <<status, queue>> /\ things' = things
  BY <1>1 DEF SaveCharacter, Autosave, Shape
<1> HIDE DEF stored
<1> QED BY <1>1, <1>2, WorldSame, SaveMeExplained

LEMMA DieExplained ==
  ASSUME IInv, Shape', NEW p \in Players, Die(p), NEW i \in Items
  PROVE  Explained(i)
<1> DEFINE D == Items \X BOOLEAN
<1>1. Shape /\ room[p] \in Rooms
  BY TypeShape DEF IInv, Shape
<1>2. things' = Left(p, room[p], D)
  BY DieLeft
<1>3. Kept(i, TRUE, p, D) = 0 /\ Kept(i, FALSE, p, D) = 0
  BY DEF Kept
<1> HIDE DEF D
<1>4. World(i)' = World(i) - Kept(i, TRUE, p, D) - Kept(i, FALSE, p, D)
  BY <1>1, <1>2, WorldLeft
<1>5. World(i)' = World(i) - 0 - 0
  BY <1>3, <1>4, Zenon
<1>6. World(i)' = World(i)
  BY <1>1, <1>5, CopiesInts
<1>7. SaveMe(p, Nothing) /\ status[p] # "off" /\ UNCHANGED <<status, queue>>
  BY DEF Die
<1> QED BY <1>1, <1>6, <1>7, SaveMeExplained

LEMMA QuitExplained ==
  ASSUME IInv, Shape', NEW p \in Players, Quit(p), NEW i \in Items
  PROVE  Explained(i)
<1> DEFINE D == Dropped(p)
           kt == Kept(i, TRUE, p, D)
           kf == Kept(i, FALSE, p, D)
           sound == things[<<i, p, FALSE>>]
<1>1. Shape /\ room[p] \in Rooms /\ TypeOK
  BY TypeShape DEF IInv, Shape
<1>2. things' = Left(p, room[p], D)
  BY QuitLeft
<1>3. /\ kt \in Nat /\ kf \in {0, sound} /\ sound \in Nat
      /\ p \notin Wizards => kt = 0
      /\ RecoverLoc(p) => kf = sound
      /\ ~RecoverLoc(p) => kf = 0
  <2>1. \A f \in BOOLEAN : things[<<i, p, f>>] \in Nat
    BY <1>1 DEF Shape, Spots, Places
  <2>2. <<i, TRUE>> \in D <=> p \notin Wizards
    BY DEF Dropped
  <2>3. <<i, FALSE>> \in D <=> p \notin Wizards /\ ~RecoverLoc(p)
    BY DEF Dropped
  <2>4. p \in Wizards => RecoverLoc(p)
    BY DEF RecoverLoc
  <2> HIDE DEF D
  <2> QED BY <2>1, <2>2, <2>3, <2>4 DEF Kept
<1>4. Owed(p)'[i] = IF RecoverLoc(p) THEN sound ELSE 0
  <2>1. Owed(p)' = Recoverable(p, Lasting(p), FALSE)
    BY <1>1 DEF Quit, Owed, Shape
  <2> QED BY <2>1 DEF Recoverable, Lasting, Nothing
<1>5. \A q \in Players \ {p} : Owed(q)' = Owed(q)
  BY <1>1 DEF Quit, Owed, Shape
<1>6. Owed(p)[i] \in Nat
  BY <1>1, OwedCounts, RecoveryAssumption DEF Counts
<1>7. starting[p] = "no" /\ queue[p] = Nothing => Owed(p)[i] = 0
  BY DEF Quit, Owed, Nothing
<1>8. status'[p] = "off" /\ status[p] = "on"
  BY <1>1 DEF Quit, Shape
<1>9. ~QuitTooSoon(p) => starting[p] = "no" /\ queue[p] = Nothing
  BY <1>8 DEF QuitTooSoon
<1>10. ~WizardQuits(p) => p \notin Wizards
  BY <1>8 DEF WizardQuits
<1> HIDE DEF kt, kf, sound
<1>11. World(i)' = World(i) - kt - kf
  <2> HIDE DEF D
  <2> QED BY <1>1, <1>2, WorldLeft DEF kt, kf
<1>12. Debt(i)' = Debt(i) + (Owed(p)'[i] - Owed(p)[i])
  BY <1>1, <1>5, DebtChange
<1> DEFINE new == Owed(p)'[i]
           old == Owed(p)[i]
<1>13. new = kf
  BY <1>3, <1>4
<1>14. old \in Nat /\ Debt(i)' = Debt(i) + (new - old)
  BY <1>6, <1>12
<1> HIDE DEF new, old, D
<1>15. /\ Copies(i) \in Nat /\ Copies(i)' \in Nat
       /\ Copies(i)' = Copies(i) - kt - old
  BY <1>1, <1>3, <1>11, <1>13, <1>14, CopiesInts
<1>16. ~(Copies(i)' > Copies(i))
  BY <1>3, <1>14, <1>15
<1>17. ~QuitTooSoon(p) /\ ~WizardQuits(p) => ~(Copies(i)' < Copies(i))
  <2> SUFFICES ASSUME ~QuitTooSoon(p), ~WizardQuits(p) PROVE ~(Copies(i)' < Copies(i))
    OBVIOUS
  <2>1. kt = 0 /\ old = 0
    BY <1>3, <1>7, <1>9, <1>10 DEF old
  <2> QED BY <1>15, <2>1
<1> QED BY <1>16, <1>17 DEF Explained, GainExplained, LossExplained

LEMMA LinkExplained ==
  ASSUME Shape, Shape', NEW p \in Players, LoseLink(p) \/ Revive(p) \/ Walk(p), NEW i \in Items
  PROVE  Explained(i)
<1>1. UNCHANGED <<things, disk, list, starting, queue>>
  BY DEF LoseLink, Revive, Walk
<1>2. \A q \in Players : status'[q] = "off" <=> status[q] = "off"
  BY DEF LoseLink, Revive, Walk, Shape
<1>3. \A q \in Players : Owed(q)' = Owed(q)
  BY <1>1, <1>2 DEF Owed
<1> QED BY <1>1, <1>3, WorldSame, DebtSame, SteadyExplained

LEMMA HandleExplained ==
  ASSUME Shape, Shape', NEW p \in Players, Handle(p), NEW i \in Items
  PROVE  Explained(i)
<1>1. PICK j \in Items, f \in BOOLEAN, a, b \in {p, room[p]} : Passes(j, f, a, b)
  BY HandleFacts
<1>2. World(i)' = World(i)
  BY <1>1, WorldPasses
<1>3. \A q \in Players : Owed(q)' = Owed(q)
  BY DEF Handle, Owed
<1> QED BY <1>2, <1>3, DebtSame, SteadyExplained

LEMMA NextExplained ==
  ASSUME IInv, [Next]_vars, NEW i \in Items
  PROVE  Explained(i)
<1>1. Shape /\ Shape'
  BY TypeShape, NextShape DEF IInv
<1>2. CASE UNCHANGED vars
  <2>1. \A q \in Players : Owed(q)' = Owed(q)
    BY <1>2 DEF vars, Owed
  <2>2. things' = things
    BY <1>2 DEF vars
  <2> QED BY <1>1, <2>1, <2>2, WorldSame, DebtSame, SteadyExplained
<1>3. ASSUME NEW p \in Players,
             \/ Login(p) \/ LoadRecoverFiles(p) \/ SlowLoadRecoverFiles(p)
             \/ SaveCharacter(p) \/ Autosave(p) \/ Die(p) \/ Quit(p)
             \/ LoseLink(p) \/ Revive(p) \/ Walk(p) \/ Handle(p)
      PROVE  Explained(i)
  BY <1>1, <1>3, LoginExplained, LoadRecoverFilesExplained, SlowLoadExplained,
     SavingExplained, DieExplained, QuitExplained, LinkExplained, HandleExplained
<1>4. CASE Crash
  BY <1>4 DEF Explained, GainExplained, LossExplained
<1> QED BY <1>2, <1>3, <1>4 DEF Next

\* There is never one thing more than before, in the game or on its way back to
\* its owner, unless the game crashed or somebody saved before his recovery had
\* read the list: quit() and slow_load_recover_files() duplicate nothing, for any
\* number of players, wizards and kinds of things.
THEOREM RecoveryGainIsExplained == Spec => GainIsExplained
<1>1. ASSUME IInv, [Next]_vars PROVE \A i \in Items : GainExplained(i)
  BY <1>1, NextExplained DEF Explained
<1>2. (\A i \in Items : GainExplained(i)) =>
        \A i \in Items : Copies(i)' > Copies(i) =>
          Crash \/ \E p \in Players : SavedTooSoon(p)
  BY DEF GainExplained
<1> QED BY <1>1, <1>2, InitInv, NextInv, PTL DEF Spec, GainIsExplained

\* Nothing is lost by quitting, losing the link, dying, saving and coming back,
\* except for the five reasons that LossIsExplained names, and by crashes.  The last
\* of these is a thing that can't be made again: slow_load_recover_files() loses that
\* one and none of those that wait behind it.
THEOREM RecoveryLossIsExplained == Spec => LossIsExplained
<1>1. ASSUME IInv, [Next]_vars PROVE \A i \in Items : LossExplained(i)
  BY <1>1, NextExplained DEF Explained
<1>2. (\A i \in Items : LossExplained(i)) =>
        \A i \in Items : Copies(i)' < Copies(i) =>
          \/ Crash
          \/ \E p \in Players : \/ SavedTooSoon(p) \/ QuitTooSoon(p)
                                \/ CameTooLate(p) \/ WizardQuits(p)
                                \/ FailsToRecover(p, i)
  BY DEF LossExplained
<1> QED BY <1>1, <1>2, InitInv, NextInv, PTL DEF Spec, LossIsExplained
=============================================================================
