------------------------------ MODULE Streams -------------------------------
(***************************************************************************)
(* What a mobile's sequences promise to whoever programs them: "command    *)
(* sequences are independant named streams of commands" (seq_new of        *)
(* std/act/seqaction.c).  A stream is a queue.  A heart beat takes at most *)
(* one command from each, the first, and never skips or repeats one; a     *)
(* delay at the head grows shorter until it is over; a function at the     *)
(* head may put itself back behind what it has queued.                     *)
(*                                                                         *)
(* The abstract specification of Sequence.                                 *)
(***************************************************************************)
EXTENDS Naturals, Sequences

CONSTANTS
    Names,              \* the names of streams
    Programs            \* what a creator puts into them

VARIABLE queue          \* queue[n]: what is still to be done

Init == queue = [n \in Names |-> <<>>]

\* What a function that was called leaves of its stream: the rest, or a
\* stream of its own making that leads back to it.
Reprogram(old, new) ==
    \/ new = Tail(old)
    \/ new # <<>> /\ new[Len(new)].op = Head(old).op

Taken(old, new) ==
    /\ old # <<>>
    /\ CASE Head(old).op = "wait" ->
              \/ new = Tail(old)
              \/ /\ new # <<>> /\ Tail(new) = Tail(old)
                 /\ Head(new).op = "wait"
                 /\ Head(new).n < Head(old).n
         [] Head(old).op = "text" -> new = Tail(old)
         [] OTHER -> Reprogram(old, new)

Beat == \A n \in Names : queue'[n] = queue[n] \/ Taken(queue[n], queue'[n])

\* Somebody puts a program first or last, or in place of everything.
Program(n) ==
    /\ queue'[n] \in {p \o queue[n] : p \in Programs}
                    \cup {queue[n] \o p : p \in Programs}
                    \cup Programs \cup {<<>>}
    /\ \A m \in Names \ {n} : queue'[m] = queue[m]

Next == Beat \/ \E n \in Names : Program(n)

Spec == Init /\ [][Next]_queue
=============================================================================
