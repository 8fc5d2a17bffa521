----------------------------- MODULE Shutdown -----------------------------
(***************************************************************************)
(* Taking the game down: Armageddon (src/secure/armageddon.c), which counts*)
(* the minutes with call-outs of its own, and the requests the master      *)
(* passes on to it (src/secure/master.c) from the shutdown command of the  *)
(* wizards.  Time is counted in minutes; a call-out is the number of       *)
(* minutes until it is due.                                                *)
(***************************************************************************)
EXTENDS Integers, Sequences, SequencesExt

CONSTANTS Requesters,   \* the wizards of rank normal and higher
          Arches,       \* the arches and keepers among them
          Delays,       \* the delays a wizard asks for, in minutes
          ROOT_UID,     \* the game itself, asking for its own end
          Nobody

ASSUME ShutdownAssumption ==
  /\ Arches \subseteq Requesters
  /\ Delays \subseteq Nat
  /\ ROOT_UID \notin Requesters /\ Nobody \notin Requesters \cup {ROOT_UID}

VARIABLES shutdown_shutter,  \* who asked for the shutdown
          shutdown_delay,    \* minutes left when the next call-out is due
          alarms,            \* the call-outs of shutdown_dodelay
          mem_fail_flag,     \* the memory is used up
          asked,             \* the master has been told to shut down
          up,                \* the game is running
          left               \* minutes left of what was asked for

shutdownVars == <<shutdown_shutter, shutdown_delay, alarms, mem_fail_flag, asked, up, left>>

ShutdownInit ==
  /\ shutdown_shutter = Nobody
  /\ shutdown_delay = 0
  /\ alarms = <<>>
  /\ mem_fail_flag = FALSE
  /\ asked = FALSE
  /\ up = TRUE
  /\ left = 0

\* mutant of Period: a quarter of an hour from ten minutes on
PeriodLong(delay) ==
  CASE delay >= 1080 -> 720
    [] delay >= 90 /\ delay < 1080 -> 60
    [] delay >= 10 /\ delay < 90 -> 15
    [] delay < 10 -> 1

\* the longer the delay, the rarer the announcements
Period(delay) ==
  CASE delay >= 1080 -> 720
    [] delay >= 90 /\ delay < 1080 -> 60
    [] delay >= 25 /\ delay < 90 -> 15
    [] delay >= 10 /\ delay < 25 -> 5
    [] delay < 10 -> 1

\* master_shutdown calls do_debug("shutdown"), which knows no such command
ShutdownNow(rest) ==
  /\ asked' = TRUE
  /\ alarms' = rest
  /\ UNCHANGED up

\* mutant of DoDelay: the last minute is not waited for
DoDelayEarly(delay, rest) ==
  \/ /\ delay <= 1
     /\ shutdown_delay' = 0
     /\ ShutdownNow(rest)
  \/ /\ delay > 1
     /\ alarms' = Append(rest, Period(delay))
     /\ shutdown_delay' = delay - Period(delay)
     /\ UNCHANGED <<asked, up>>

\* mutant of DoDelay: the announcement is made once
DoDelayOnce(delay, rest) ==
  \/ /\ delay = 0
     /\ shutdown_delay' = 0
     /\ ShutdownNow(rest)
  \/ /\ delay > 0
     /\ alarms' = rest
     /\ shutdown_delay' = delay - Period(delay)
     /\ UNCHANGED <<asked, up>>

\* one more announcement, and the time until the next one is taken off
DoDelay(delay, rest) ==
  \/ /\ delay = 0
     /\ shutdown_delay' = 0
     /\ ShutdownNow(rest)
  \/ /\ delay > 0
     /\ alarms' = Append(rest, Period(delay))
     /\ shutdown_delay' = delay - Period(delay)
     /\ UNCHANGED <<asked, up>>

StartShutdown(shutter, delay) ==
  /\ shutdown_shutter' = shutter
  /\ left' = delay
  /\ DoDelay(delay, alarms)

(***************************************************************************)
(* The requests.  A wizard's reason may ask for the game's own shutdown:   *)
(* memory_failure, once, or regular_reboot.  Both last ten minutes.        *)
(***************************************************************************)
\* mutant of Request: a second shutdown can be asked for
RequestAgain(w, delay) == StartShutdown(w, delay) /\ UNCHANGED mem_fail_flag

Request(w, delay) ==
  /\ shutdown_shutter = Nobody
  /\ StartShutdown(w, delay)
  /\ UNCHANGED mem_fail_flag

RegularReboot(w) ==
  /\ shutdown_shutter = Nobody
  /\ w \in Arches
  /\ StartShutdown(ROOT_UID, 10)
  /\ UNCHANGED mem_fail_flag

MemoryFailure(w) ==
  /\ shutdown_shutter = Nobody
  /\ w \in Arches
  /\ ~mem_fail_flag
  /\ mem_fail_flag' = TRUE
  /\ StartShutdown(ROOT_UID, 10)

\* remove_call_out removes the call-out that is due next
Cancel(w) ==
  /\ ~mem_fail_flag
  /\ w = shutdown_shutter \/ w \in Arches
  /\ shutdown_shutter' = Nobody
  /\ shutdown_delay' = 0
  /\ \/ alarms = <<>> /\ UNCHANGED alarms
     \/ \E i \in DOMAIN alarms :
          /\ \A j \in DOMAIN alarms : alarms[i] <= alarms[j]
          /\ alarms' = RemoveAt(alarms, i)
  /\ asked' = FALSE
  /\ left' = 0
  /\ UNCHANGED <<mem_fail_flag, up>>

-----------------------------------------------------------------------------
(***************************************************************************)
(* The driver's clock: a call-out that is due runs before time goes on.    *)
(***************************************************************************)
Fire ==
  \E i \in DOMAIN alarms :
    /\ alarms[i] = 0
    /\ DoDelay(shutdown_delay, RemoveAt(alarms, i))
    /\ UNCHANGED <<shutdown_shutter, mem_fail_flag, left>>

Tick ==
  /\ alarms # <<>>
  /\ \A i \in DOMAIN alarms : alarms[i] > 0
  /\ alarms' = [i \in DOMAIN alarms |-> alarms[i] - 1]
  /\ left' = left - 1
  /\ UNCHANGED <<shutdown_shutter, shutdown_delay, mem_fail_flag, asked, up>>

ShutdownNext ==
  \/ \E w \in Requesters : \/ \E delay \in Delays : Request(w, delay)
                           \/ RegularReboot(w)
                           \/ MemoryFailure(w)
                           \/ Cancel(w)
  \/ Fire
  \/ Tick

ShutdownSpec == ShutdownInit /\ [][ShutdownNext]_shutdownVars

\* the driver's clock does not stop
FairShutdown == ShutdownSpec /\ WF_shutdownVars(Fire) /\ WF_shutdownVars(Tick)

-----------------------------------------------------------------------------
(***************************************************************************)
(* The variables hold what the comments on them say.                       *)
(***************************************************************************)
ShutdownTyped ==
  /\ shutdown_shutter \in Requesters \cup {ROOT_UID, Nobody}
  /\ shutdown_delay \in Nat
  /\ alarms \in Seq(Nat)
  /\ mem_fail_flag \in BOOLEAN /\ asked \in BOOLEAN /\ up \in BOOLEAN
  /\ left \in Int

(***************************************************************************)
(* A shutdown that was called off does not go on in a forgotten call-out:  *)
(* there is never more than one, and none when nobody is shutting down.    *)
(***************************************************************************)
CancelledIsOver ==
  /\ Len(alarms) <= 1
  /\ shutdown_shutter = Nobody => alarms = <<>>

(***************************************************************************)
(* The count-down keeps the time that was asked for, to the minute and     *)
(* through every change of the interval: what the next call-out waits for  *)
(* and what is left after it add up to the rest of the delay, and the      *)
(* master is not told to shut down before the delay is over.               *)
(***************************************************************************)
TimeIsKept ==
  /\ \A i \in DOMAIN alarms : alarms[i] + shutdown_delay = left
  /\ asked => left = 0

(***************************************************************************)
(* A shutdown under way comes to its end, unless it is called off.         *)
(***************************************************************************)
CountsDown == shutdown_shutter # Nobody ~> asked \/ shutdown_shutter = Nobody
=============================================================================
