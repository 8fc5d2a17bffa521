-------------------------- MODULE SequenceProofs ---------------------------
(***************************************************************************)
(* The sequences of a mobile are the queues of Streams, whatever they are  *)
(* filled with and by whom, and a mobile with something left to do is      *)
(* awake or will be woken.  Each function of seqaction.c has a lemma that  *)
(* says that it keeps what seqaction.c keeps in order (Good), and what it  *)
(* does to the rest of the sequence it works on.                           *)
(***************************************************************************)
EXTENDS Sequence, TLAPS, SequenceTheorems, WellFoundedInduction

Commanded == [op : {"text", "wait", "act", "chat", "pick"}, n : Nat]

\* What is left of the commands c from position p on.
From(c, p) == SubSeq(c, p + 1, Len(c))

-----------------------------------------------------------------------------
(***************************************************************************)
(* Sequences and their rests.                                              *)
(***************************************************************************)
LEMMA FromProperties ==
  ASSUME NEW S, NEW c \in Seq(S), NEW p \in 0 .. Len(c)
  PROVE  /\ From(c, p) \in Seq(S)
         /\ Len(From(c, p)) = Len(c) - p
         /\ \A i \in 1 .. Len(c) - p : From(c, p)[i] = c[p + i]
<1>1. Len(c) \in Nat /\ \A i \in 1 .. Len(c) : c[i] \in S
  BY LenProperties, ElementOfSeq
<1>2. p + 1 \in Int /\ Len(c) \in Int /\ \A i \in p + 1 .. Len(c) : c[i] \in S
  BY <1>1
<1>3. /\ From(c, p) \in Seq(S)
      /\ Len(From(c, p)) = IF p + 1 <= Len(c) THEN Len(c) - (p + 1) + 1 ELSE 0
      /\ \A i \in 1 .. Len(c) - (p + 1) + 1 : From(c, p)[i] = c[p + 1 + i - 1]
  BY <1>2, SubSeqProperties DEF From
<1> QED BY <1>1, <1>3

LEMMA FromStart == ASSUME NEW S, NEW c \in Seq(S) PROVE From(c, 0) = c
BY SubSeqFull DEF From

LEMMA FromEnd == ASSUME NEW S, NEW c \in Seq(S) PROVE From(c, Len(c)) = <<>>
<1>1. Len(c) \in Nat
  BY LenProperties
<1> QED BY <1>1, SubSeqEmpty DEF From

\* Taking the first command off.
LEMMA FromNext ==
  ASSUME NEW S, NEW c \in Seq(S), NEW p \in Nat, p < Len(c)
  PROVE  /\ From(c, p) # <<>>
         /\ Head(From(c, p)) = c[p + 1]
         /\ Tail(From(c, p)) = From(c, p + 1)
<1>1. Len(c) \in Nat
  BY LenProperties
<1>2. p + 1 \in 1 .. Len(c) /\ Len(c) \in p + 1 .. Len(c) /\ p \in 0 .. Len(c)
  BY <1>1
<1>3. Len(From(c, p)) # 0
  BY <1>1, <1>2, FromProperties
<1>4. From(c, p) # <<>>
  BY <1>3, EmptySeq
<1> QED BY <1>2, <1>4, HeadTailOfSubSeq DEF From

LEMMA FromAppended ==
  ASSUME NEW S, NEW c \in Seq(S), NEW d \in Seq(S), NEW p \in 0 .. Len(c)
  PROVE  From(c \o d, p) = From(c, p) \o d
<1>1. Len(c) \in Nat /\ Len(d) \in Nat
  BY LenProperties
<1>2. /\ c \o d \in Seq(S) /\ Len(c \o d) = Len(c) + Len(d)
      /\ \A i \in 1 .. Len(c) + Len(d) :
           (c \o d)[i] = IF i <= Len(c) THEN c[i] ELSE d[i - Len(c)]
  BY ConcatProperties
<1>3. p \in 0 .. Len(c \o d)
  BY <1>1, <1>2
<1>4. /\ From(c \o d, p) \in Seq(S)
      /\ Len(From(c \o d, p)) = Len(c) + Len(d) - p
      /\ \A i \in 1 .. Len(c) + Len(d) - p : From(c \o d, p)[i] = (c \o d)[p + i]
  <2>1. /\ From(c \o d, p) \in Seq(S)
        /\ Len(From(c \o d, p)) = Len(c \o d) - p
        /\ \A i \in 1 .. Len(c \o d) - p : From(c \o d, p)[i] = (c \o d)[p + i]
    BY <1>2, <1>3, FromProperties
  <2> QED BY <1>2, <2>1
<1>5. /\ From(c, p) \in Seq(S) /\ Len(From(c, p)) = Len(c) - p
      /\ \A i \in 1 .. Len(c) - p : From(c, p)[i] = c[p + i]
  BY FromProperties
<1>6. /\ From(c, p) \o d \in Seq(S)
      /\ Len(From(c, p) \o d) = (Len(c) - p) + Len(d)
      /\ \A i \in 1 .. (Len(c) - p) + Len(d) :
           (From(c, p) \o d)[i] = IF i <= Len(c) - p THEN From(c, p)[i]
                                  ELSE d[i - (Len(c) - p)]
  <2> DEFINE r == From(c, p)
  <2>1. /\ r \o d \in Seq(S)
        /\ Len(r \o d) = Len(r) + Len(d)
        /\ \A i \in 1 .. Len(r) + Len(d) :
             (r \o d)[i] = IF i <= Len(r) THEN r[i] ELSE d[i - Len(r)]
    BY <1>5, ConcatProperties
  <2> QED BY <1>5, <2>1
<1>7. Len(From(c \o d, p)) = Len(From(c, p) \o d)
  BY <1>1, <1>4, <1>6
<1>8. ASSUME NEW i \in 1 .. Len(From(c \o d, p))
      PROVE  From(c \o d, p)[i] = (From(c, p) \o d)[i]
  <2>1. i \in 1 .. Len(c) + Len(d) - p /\ i \in 1 .. (Len(c) - p) + Len(d)
    BY <1>1, <1>4
  <2>2. CASE i <= Len(c) - p
    <3>1. p + i \in 1 .. Len(c) + Len(d) /\ p + i <= Len(c) /\ i \in 1 .. Len(c) - p
      BY <1>1, <2>1, <2>2
    <3>2. From(c \o d, p)[i] = c[p + i]
      BY <1>2, <1>4, <2>1, <3>1
    <3>3. (From(c, p) \o d)[i] = c[p + i]
      BY <1>5, <1>6, <2>1, <2>2, <3>1
    <3> QED BY <3>2, <3>3
  <2>3. CASE ~(i <= Len(c) - p)
    <3>1. /\ p + i \in 1 .. Len(c) + Len(d) /\ ~(p + i <= Len(c))
          /\ p + i - Len(c) = i - (Len(c) - p)
      BY <1>1, <2>1, <2>3
    <3>2. From(c \o d, p)[i] = d[p + i - Len(c)]
      BY <1>2, <1>4, <2>1, <3>1
    <3>3. (From(c, p) \o d)[i] = d[i - (Len(c) - p)]
      BY <1>6, <2>1, <2>3
    <3> QED BY <3>1, <3>2, <3>3
  <2> QED BY <2>2, <2>3
<1> QED BY <1>4, <1>6, <1>7, <1>8, SeqEqual

\* Writing to the first command that is left.
Put(c, i, e) == [c EXCEPT ![i] = e]

LEMMA FromWritten ==
  ASSUME NEW S, NEW c \in Seq(S), NEW p \in Nat, p < Len(c), NEW e \in S
  PROVE  LET w == Put(c, p + 1, e)
         IN  /\ w \in Seq(S) /\ Len(w) = Len(c)
             /\ From(w, p) # <<>>
             /\ Head(From(w, p)) = e
             /\ Tail(From(w, p)) = From(c, p + 1)
<1> DEFINE w == Put(c, p + 1, e)
<1>1. Len(c) \in Nat /\ p + 1 \in 1 .. Len(c)
  BY LenProperties
<1>2. /\ w \in Seq(S) /\ Len(w) = Len(c)
      /\ \A j \in 1 .. Len(c) : w[j] = IF j = p + 1 THEN e ELSE c[j]
  BY <1>1, ExceptSeq DEF Put
<1> HIDE DEF w
<1>3. /\ From(w, p) # <<>> /\ Head(From(w, p)) = w[p + 1]
      /\ Tail(From(w, p)) = From(w, p + 1)
  BY <1>2, FromNext
<1>4. p + 1 \in 0 .. Len(c) /\ p + 1 \in 0 .. Len(w)
  BY <1>1, <1>2
<1>5. /\ From(w, p + 1) \in Seq(S) /\ Len(From(w, p + 1)) = Len(c) - (p + 1)
      /\ \A i \in 1 .. Len(c) - (p + 1) : From(w, p + 1)[i] = w[p + 1 + i]
  <2>1. /\ From(w, p + 1) \in Seq(S) /\ Len(From(w, p + 1)) = Len(w) - (p + 1)
        /\ \A i \in 1 .. Len(w) - (p + 1) : From(w, p + 1)[i] = w[p + 1 + i]
    <3>1. w \in Seq(S) /\ p + 1 \in 0 .. Len(w)
      BY <1>2, <1>4
    <3> QED BY <3>1, FromProperties, Zenon
  <2> QED BY <1>2, <2>1
<1>6. /\ From(c, p + 1) \in Seq(S) /\ Len(From(c, p + 1)) = Len(c) - (p + 1)
      /\ \A i \in 1 .. Len(c) - (p + 1) : From(c, p + 1)[i] = c[p + 1 + i]
  BY <1>4, FromProperties
<1>7. ASSUME NEW i \in 1 .. Len(From(w, p + 1))
      PROVE  From(w, p + 1)[i] = From(c, p + 1)[i]
  <2>1. i \in 1 .. Len(c) - (p + 1) /\ p + 1 + i \in 1 .. Len(c) /\ p + 1 + i # p + 1
    BY <1>1, <1>5
  <2> QED BY <1>2, <1>5, <1>6, <2>1
<1>8. From(w, p + 1) = From(c, p + 1)
  BY <1>5, <1>6, <1>7, SeqEqual
<1> QED BY <1>1, <1>2, <1>3, <1>8 DEF w

\* The least of some natural numbers is one of them.
LEMMA MinProperties ==
  ASSUME NEW T \in SUBSET Nat, T # {}
  PROVE  Min(T) \in T /\ \A y \in T : Min(T) <= y
<1>1. \E x \in T : \A y \in T : ~(<<y, x>> \in OpToRel(<, Nat))
  BY WFMin, NatLessThanWellFounded
<1>2. OpToRel(<, Nat) = {ss \in Nat \X Nat : ss[1] < ss[2]}
  BY DEF OpToRel
<1>3. PICK x \in T : \A y \in T : ~(<<y, x>> \in OpToRel(<, Nat))
  BY <1>1
<1>4. ASSUME NEW y \in T PROVE x <= y
  <2>1. ~(<<y, x>> \in {ss \in Nat \X Nat : ss[1] < ss[2]})
    BY <1>2, <1>3, Zenon
  <2>2. x \in Nat /\ y \in Nat
    OBVIOUS
  <2> QED BY <2>1, <2>2
<1>5. \E m \in T : \A y \in T : m <= y
  BY <1>4
<1> QED BY <1>5 DEF Min
-----------------------------------------------------------------------------
(***************************************************************************)
(* What seqaction.c keeps, in order.                                       *)
(***************************************************************************)
Npcs == [names : SUBSET Names, flags : [Names -> {0, 1}],
         commands : [Names -> Seq(Commanded)], cpos : [Names -> Nat],
         active : BOOLEAN, delay : Nat, next_step : Nat,
         heart : BOOLEAN, notify : Nat]

Good(s) ==
  /\ s \in Npcs
  /\ \A n \in Names : /\ s.cpos[n] <= Len(s.commands[n])
                      /\ n \notin s.names => s.commands[n] = <<>>
  /\ s.heart = s.active
  /\ s.notify = 0 \/ (s.notify = 1 /\ ~s.active)

\* t is awake exactly if s is, and has as much to do but in sequence n.
Alike(s, t) == t.active = s.active /\ t.notify = s.notify
Apart(s, t, n) == \A m \in Names \ {n} : Rest(t, m) = Rest(s, m)

LEMMA RestIsFrom ==
  ASSUME NEW s, NEW n
  PROVE  Rest(s, n) = From(s.commands[n], s.cpos[n])
BY DEF Rest, From

LEMMA RestType ==
  ASSUME NEW s, Good(s), NEW n \in Names
  PROVE  /\ s.commands[n] \in Seq(Commanded) /\ s.cpos[n] \in 0 .. Len(s.commands[n])
         /\ Rest(s, n) \in Seq(Commanded)
<1>1. s.commands[n] \in Seq(Commanded) /\ s.cpos[n] \in Nat
  BY DEF Good, Npcs
<1>2. Len(s.commands[n]) \in Nat /\ s.cpos[n] <= Len(s.commands[n])
  BY <1>1, LenProperties DEF Good
<1>3. s.cpos[n] \in 0 .. Len(s.commands[n])
  BY <1>1, <1>2
<1> QED BY <1>1, <1>3, FromProperties, RestIsFrom

LEMMA AwakeGood ==
  ASSUME NEW s, Good(s)
  PROVE  /\ Good(Awake(s)) /\ Awake(s).active
         /\ Awake(s).commands = s.commands /\ Awake(s).cpos = s.cpos
         /\ Awake(s).names = s.names
BY DEF Good, Npcs, Awake, SeqRestart

\* A sequence that is written anew.
Written(s, n, c, p) == [s EXCEPT !.commands[n] = c, !.cpos[n] = p]

LEMMA WrittenGood ==
  ASSUME NEW s, Good(s), NEW n \in Names, NEW c \in Seq(Commanded),
         NEW p \in 0 .. Len(c), n \in s.names \/ c = <<>>
  PROVE  LET t == Written(s, n, c, p)
         IN  /\ Good(t) /\ Alike(s, t) /\ Apart(s, t, n) /\ Rest(t, n) = From(c, p)
             /\ t.names = s.names
<1> DEFINE t == Written(s, n, c, p)
<1>0. t = [s EXCEPT !.commands[n] = c, !.cpos[n] = p]
  BY DEF Written
<1> HIDE DEF t
<1>1. Len(c) \in Nat /\ p \in Nat /\ p <= Len(c)
  BY LenProperties
<1>2. s \in Npcs
  BY DEF Good
<1>3. /\ t.commands = [s.commands EXCEPT ![n] = c] /\ t.cpos = [s.cpos EXCEPT ![n] = p]
      /\ t.names = s.names /\ t.flags = s.flags /\ t.active = s.active
      /\ t.heart = s.heart /\ t.notify = s.notify
  BY <1>0, <1>2 DEF Npcs
<1>4. t \in Npcs
  BY <1>0, <1>1, <1>2 DEF Npcs
<1>5. s.commands \in [Names -> Seq(Commanded)] /\ s.cpos \in [Names -> Nat]
  BY <1>2 DEF Npcs
<1>6. /\ t.commands[n] = c /\ t.cpos[n] = p
      /\ \A m \in Names \ {n} : t.commands[m] = s.commands[m] /\ t.cpos[m] = s.cpos[m]
  BY <1>3, <1>5
<1>7. Good(t)
  BY <1>1, <1>3, <1>4, <1>6 DEF Good
<1>8. Apart(s, t, n) /\ Rest(t, n) = From(c, p)
  BY <1>6, RestIsFrom DEF Apart
<1> QED BY <1>3, <1>7, <1>8 DEF Alike, t

LEMMA ClearGood ==
  ASSUME NEW s, Good(s), NEW n \in Names
  PROVE  /\ Good(SeqClear(s, n)) /\ Alike(s, SeqClear(s, n))
         /\ Apart(s, SeqClear(s, n), n) /\ Rest(SeqClear(s, n), n) = <<>>
         /\ SeqClear(s, n).names = s.names
<1> DEFINE t == SeqClear(s, n)
<1>1. t = Written(s, n, <<>>, 0)
  BY DEF SeqClear, Written
<1>2. <<>> \in Seq(Commanded) /\ 0 \in 0 .. Len(<<>>)
  BY EmptySeq
<1>3. From(<<>>, 0) = <<>>
  BY <1>2, FromStart
<1> HIDE DEF t
<1>4. /\ Good(t) /\ Alike(s, t) /\ Apart(s, t, n) /\ Rest(t, n) = From(<<>>, 0)
      /\ t.names = s.names
  BY <1>1, <1>2, WrittenGood
<1> QED BY <1>3, <1>4 DEF t

LEMMA AddFirstGood ==
  ASSUME NEW s, Good(s), NEW n \in Names, n \in s.names, NEW cmds \in Seq(Commanded)
  PROVE  LET t == SeqAddFirst(s, n, cmds)
         IN  /\ Good(t) /\ t.active /\ Apart(s, t, n)
             /\ Rest(t, n) = cmds \o Rest(s, n) /\ t.names = s.names
<1> DEFINE t == SeqAddFirst(s, n, cmds)
           a == Awake(s)
           c == cmds \o Rest(s, n)
<1>1. /\ Good(a) /\ a.active /\ a.names = s.names
      /\ a.commands = s.commands /\ a.cpos = s.cpos
  BY AwakeGood
<1>2. c \in Seq(Commanded) /\ 0 \in 0 .. Len(c)
  BY RestType, ConcatProperties, LenProperties
<1>3. t = Written(a, n, c, 0)
  BY DEF SeqAddFirst, Written
<1>4. From(c, 0) = c
  BY <1>2, FromStart
<1> HIDE DEF t, a, c
<1>5. /\ Good(t) /\ Alike(a, t) /\ Apart(a, t, n) /\ Rest(t, n) = From(c, 0)
      /\ t.names = a.names
  BY <1>1, <1>2, <1>3, WrittenGood
<1>6. Apart(s, t, n)
  BY <1>1, <1>5 DEF Apart, Rest
<1>7. t.active
  BY <1>1, <1>5 DEF Alike
<1> QED BY <1>1, <1>4, <1>5, <1>6, <1>7 DEF t, c

LEMMA AddLastGood ==
  ASSUME NEW s, Good(s), NEW n \in Names, n \in s.names, NEW cmds \in Seq(Commanded)
  PROVE  LET t == SeqAddLast(s, n, cmds)
         IN  /\ Good(t) /\ t.active /\ Apart(s, t, n)
             /\ Rest(t, n) = Rest(s, n) \o cmds /\ t.names = s.names
<1> DEFINE t == SeqAddLast(s, n, cmds)
           a == Awake(s)
           c == s.commands[n] \o cmds
           p == s.cpos[n]
<1>1. /\ Good(a) /\ a.active /\ a.names = s.names
      /\ a.commands = s.commands /\ a.cpos = s.cpos
  BY AwakeGood
<1>2. s.commands[n] \in Seq(Commanded) /\ p \in 0 .. Len(s.commands[n])
  BY RestType
<1>3. c \in Seq(Commanded) /\ p \in 0 .. Len(c)
  BY <1>2, ConcatProperties, LenProperties
<1>4. t = Written(a, n, c, p)
  <2>1. t = [a EXCEPT !.commands[n] = c]
    BY <1>1 DEF SeqAddLast
  <2>2. a \in Npcs /\ p = a.cpos[n]
    BY <1>1 DEF Good
  <2> HIDE DEF t, a, c, p
  <2> QED BY <2>1, <2>2 DEF Npcs, Written
<1>5. From(c, p) = Rest(s, n) \o cmds
  BY <1>2, FromAppended, RestIsFrom
<1> HIDE DEF t, a, c, p
<1>6. /\ Good(t) /\ Alike(a, t) /\ Apart(a, t, n) /\ Rest(t, n) = From(c, p)
      /\ t.names = a.names
  BY <1>1, <1>3, <1>4, WrittenGood
<1>7. Apart(s, t, n)
  BY <1>1, <1>6 DEF Apart, Rest
<1>8. t.active
  BY <1>1, <1>6 DEF Alike
<1> QED BY <1>1, <1>5, <1>6, <1>7, <1>8 DEF t

LEMMA NewGood ==
  ASSUME NEW s, Good(s), NEW n \in Names, NEW flag \in {0, 1}
  PROVE  LET t == SeqNew(s, n, flag)
         IN  /\ Good(t) /\ Alike(s, t) /\ n \in t.names
             /\ t.commands = s.commands /\ t.cpos = s.cpos
<1>1. CASE n \in s.names
  BY <1>1 DEF SeqNew, Alike
<1>2. CASE n \notin s.names
  <2> DEFINE t == [s EXCEPT !.names = @ \cup {n}, !.flags[n] = flag]
  <2>1. s \in Npcs
    BY DEF Good
  <2>2. /\ t.names = s.names \cup {n} /\ t.commands = s.commands /\ t.cpos = s.cpos
        /\ t.active = s.active /\ t.heart = s.heart /\ t.notify = s.notify
    BY <2>1 DEF Npcs
  <2>3. t \in Npcs
    BY <2>1 DEF Npcs
  <2> HIDE DEF t
  <2>4. Good(t)
    BY <2>2, <2>3 DEF Good
  <2>5. SeqNew(s, n, flag) = t
    BY <1>2 DEF SeqNew, t
  <2> QED BY <2>2, <2>4, <2>5 DEF Alike
<1> QED BY <1>1, <1>2

LEMMA RequeueGood ==
  ASSUME NEW s, Good(s), NEW n \in Names, n \in s.names, NEW cmds \in Seq(Commanded)
  PROVE  LET t == Requeue(s, n, cmds)
         IN  /\ Good(t) /\ t.active /\ Apart(s, t, n) /\ Rest(t, n) = cmds
             /\ t.names = s.names
<1> DEFINE c == SeqClear(s, n)
           t == SeqAddFirst(c, n, cmds)
<1>1. Good(c) /\ Apart(s, c, n) /\ Rest(c, n) = <<>> /\ c.names = s.names
  BY ClearGood
<1> HIDE DEF c
<1>2. /\ Good(t) /\ t.active /\ Apart(c, t, n) /\ Rest(t, n) = cmds \o <<>>
      /\ t.names = s.names
  BY <1>1, AddFirstGood
<1>3. cmds \o <<>> = cmds
  BY ConcatEmptySeq
<1>4. Apart(s, t, n)
  BY <1>1, <1>2 DEF Apart
<1> QED BY <1>2, <1>3, <1>4 DEF c, Requeue

\* Whether or not there is such a sequence.
LEMMA RequeueAny ==
  ASSUME NEW s, Good(s), NEW k \in Names, NEW cmds \in Seq(Commanded)
  PROVE  LET t == Requeue(s, k, cmds)
         IN  /\ Good(t) /\ Apart(s, t, k) /\ t.names = s.names
             /\ k \in s.names => Rest(t, k) = cmds
<1>1. CASE k \in s.names
  BY <1>1, RequeueGood
<1>2. CASE k \notin s.names
  <2>1. /\ Good(SeqClear(s, k)) /\ Apart(s, SeqClear(s, k), k)
        /\ SeqClear(s, k).names = s.names
    BY ClearGood
  <2>2. Requeue(s, k, cmds) = SeqClear(s, k)
    BY <1>2, <2>1 DEF Requeue, SeqAddFirst
  <2> QED BY <1>2, <2>1, <2>2
<1> QED BY <1>1, <1>2

-----------------------------------------------------------------------------
(***************************************************************************)
(* The heart beat.                                                         *)
(***************************************************************************)
LEMMA DueHead ==
  ASSUME NEW s, Good(s), NEW n \in Due(s)
  PROVE  /\ n \in Names /\ n \in s.names
         /\ s.cpos[n] \in Nat /\ s.cpos[n] < Len(s.commands[n])
         /\ Head1(s, n) \in Commanded
         /\ Rest(s, n) # <<>> /\ Head(Rest(s, n)) = Head1(s, n)
         /\ Tail(Rest(s, n)) = From(s.commands[n], s.cpos[n] + 1)
         /\ Tail(Rest(s, n)) \in Seq(Commanded)
<1>1. n \in s.names /\ s.cpos[n] < Len(s.commands[n])
  BY DEF Due
<1>2. n \in Names
  BY <1>1 DEF Good, Npcs
<1>3. s.commands[n] \in Seq(Commanded) /\ s.cpos[n] \in 0 .. Len(s.commands[n])
  BY <1>2, RestType
<1>4. Len(s.commands[n]) \in Nat /\ s.cpos[n] \in Nat
  BY <1>3, LenProperties
<1>5. s.cpos[n] + 1 \in 1 .. Len(s.commands[n])
  BY <1>1, <1>4
<1>6. Head1(s, n) \in Commanded
  BY <1>3, <1>5, ElementOfSeq DEF Head1
<1>7. /\ Rest(s, n) # <<>> /\ Head(Rest(s, n)) = Head1(s, n)
      /\ Tail(Rest(s, n)) = From(s.commands[n], s.cpos[n] + 1)
  BY <1>1, <1>3, <1>4, FromNext, RestIsFrom DEF Head1
<1>8. Rest(s, n) \in Seq(Commanded)
  BY <1>2, RestType
<1> QED BY <1>1, <1>2, <1>4, <1>6, <1>7, <1>8, HeadTailProperties

Popped(s, n) == Written(s, n, s.commands[n], s.cpos[n] + 1)

LEMMA PoppedGood ==
  ASSUME NEW s, Good(s), NEW n \in Due(s)
  PROVE  /\ Popped(s, n) = [s EXCEPT !.cpos[n] = @ + 1]
         /\ Good(Popped(s, n)) /\ Popped(s, n).names = s.names
         /\ Rest(Popped(s, n), n) = Tail(Rest(s, n))
<1>1. /\ n \in Names /\ n \in s.names
      /\ s.cpos[n] \in Nat /\ s.cpos[n] < Len(s.commands[n])
      /\ Tail(Rest(s, n)) = From(s.commands[n], s.cpos[n] + 1)
  BY DueHead
<1>2. s \in Npcs /\ s.commands[n] \in Seq(Commanded)
  BY <1>1, RestType DEF Good
<1>3. s.cpos[n] + 1 \in 0 .. Len(s.commands[n])
  BY <1>1, <1>2, LenProperties
<1>4. Popped(s, n) = [s EXCEPT !.cpos[n] = @ + 1]
  BY <1>2 DEF Popped, Written, Npcs
<1>5. /\ Good(Popped(s, n)) /\ Popped(s, n).names = s.names
      /\ Rest(Popped(s, n), n) = From(s.commands[n], s.cpos[n] + 1)
  BY <1>1, <1>2, <1>3, WrittenGood DEF Popped
<1> QED BY <1>1, <1>4, <1>5

LEMMA CommandsTyped ==
  /\ \A t \in Nat : Text(t) \in Commanded
  /\ \A d \in Nat : Wait(d) \in Commanded
  /\ \A w \in Nat : DoAct(w) \in Commanded /\ DoAct(w).op = "act"
  /\ DoChat \in Commanded /\ DoPick \in Commanded
BY SequenceAssumption DEF Commanded, Text, Wait, DoAct, DoChat, DoPick

\* A delay that is not over.
LEMMA WaitGood ==
  ASSUME NEW s, Good(s), NEW n \in Due(s), NEW steps \in Nat \ {0},
         Head1(s, n).op = "wait", Head1(s, n).n > steps
  PROVE  LET t == Serve(s, n, steps, TRUE)
         IN  /\ Serve(s, n, steps, FALSE) = t
             /\ Good(t) /\ Q!Taken(Rest(s, n), Rest(t, n))
<1> DEFINE p == s.cpos[n]
           c == s.commands[n]
           e == Wait(Head1(s, n).n - steps)
           w == Put(c, p + 1, e)
           t == Written(s, n, w, p)
<1>1. /\ n \in Names /\ n \in s.names /\ p \in Nat /\ p < Len(c)
      /\ Head1(s, n) \in Commanded
      /\ Rest(s, n) # <<>> /\ Head(Rest(s, n)) = Head1(s, n)
      /\ Tail(Rest(s, n)) = From(c, p + 1)
  BY DueHead
<1>2. c \in Seq(Commanded) /\ s \in Npcs
  BY <1>1, RestType DEF Good
<1>3. Head1(s, n).n - steps \in Nat /\ Head1(s, n).n - steps < Head1(s, n).n
  BY <1>1 DEF Commanded
<1>4. e \in Commanded /\ e.op = "wait" /\ e.n < Head1(s, n).n
  BY <1>3, CommandsTyped DEF Wait
<1>5. Serve(s, n, steps, TRUE) = t /\ Serve(s, n, steps, FALSE) = t
  <2>1. [s EXCEPT !.commands[n][s.cpos[n] + 1] = e] = t
    BY <1>1, <1>2 DEF Written, Put, Npcs
  <2>2. /\ Serve(s, n, steps, TRUE) = [s EXCEPT !.commands[n][s.cpos[n] + 1] = e]
        /\ Serve(s, n, steps, FALSE) = [s EXCEPT !.commands[n][s.cpos[n] + 1] = e]
    BY DEF Serve
  <2> HIDE DEF t, e
  <2> QED BY <2>1, <2>2
<1> HIDE DEF p, c, e, w, t
<1>6. /\ w \in Seq(Commanded) /\ Len(w) = Len(c)
      /\ From(w, p) # <<>> /\ Head(From(w, p)) = e
      /\ Tail(From(w, p)) = From(c, p + 1)
  <2>1. c \in Seq(Commanded) /\ p \in Nat /\ p < Len(c) /\ e \in Commanded
    BY <1>1, <1>2, <1>4, Zenon
  <2>2. w = Put(c, p + 1, e)
    BY DEF w
  <2>3. /\ Put(c, p + 1, e) \in Seq(Commanded) /\ Len(Put(c, p + 1, e)) = Len(c)
        /\ From(Put(c, p + 1, e), p) # <<>> /\ Head(From(Put(c, p + 1, e), p)) = e
        /\ Tail(From(Put(c, p + 1, e), p)) = From(c, p + 1)
    BY <2>1, FromWritten
  <2> QED BY <2>2, <2>3, Zenon
<1>7. p \in 0 .. Len(w)
  BY <1>1, <1>2, <1>6, LenProperties
<1>8. Good(t) /\ Rest(t, n) = From(w, p)
  BY <1>1, <1>6, <1>7, WrittenGood DEF t
<1>9. Q!Taken(Rest(s, n), Rest(t, n))
  BY <1>1, <1>4, <1>6, <1>8 DEF Q!Taken
<1> QED BY <1>5, <1>8, <1>9

\* What a function leaves of its own sequence, or of another one.
LEMMA ReprogramGood ==
  ASSUME NEW s, Good(s), NEW n \in Due(s), NEW k \in Names,
         NEW cmds \in Seq(Commanded), cmds # <<>>,
         cmds[Len(cmds)].op = Head1(s, n).op,
         Head1(s, n).op \notin {"wait", "text"},
         NEW t, Good(t), Apart(Popped(s, n), t, k),
         k \in s.names => Rest(t, k) = cmds
  PROVE  Q!Taken(Rest(s, n), Rest(t, n))
<1>1. /\ n \in Names /\ n \in s.names
      /\ Rest(s, n) # <<>> /\ Head(Rest(s, n)) = Head1(s, n)
  BY DueHead
<1>2. Rest(Popped(s, n), n) = Tail(Rest(s, n))
  BY PoppedGood
<1>3. CASE n = k
  BY <1>1, <1>3 DEF Q!Taken, Q!Reprogram
<1>4. CASE n # k
  <2>1. Rest(t, n) = Tail(Rest(s, n))
    BY <1>1, <1>2, <1>4 DEF Apart
  <2> QED BY <1>1, <2>1 DEF Q!Taken, Q!Reprogram
<1> QED BY <1>3, <1>4

\* The functions in the sequences.
LEMMA ChatGood ==
  ASSUME NEW s, Good(s), NEW n \in Due(s), Head1(s, n).op = "chat"
  PROVE  LET t == MonsterDoChat(Popped(s, n))
         IN  Good(t) /\ Q!Taken(Rest(s, n), Rest(t, n))
<1> DEFINE b == Popped(s, n)
           cmds == <<Text(0), Wait(ChatTime), DoChat>>
           t == Requeue(b, "chat", cmds)
<1>1. /\ n \in Names /\ Rest(s, n) # <<>> /\ Head(Rest(s, n)) = Head1(s, n)
  BY DueHead
<1>2. Good(b) /\ b.names = s.names /\ Rest(b, n) = Tail(Rest(s, n))
  BY PoppedGood
<1>3. "chat" \in Names
  BY DEF Names
<1>4. cmds \in Seq(Commanded)
  BY CommandsTyped, SequenceAssumption
<1>5. cmds # <<>> /\ cmds[Len(cmds)].op = "chat"
  BY DEF DoChat
<1> HIDE DEF cmds, b
<1>6. Good(t) /\ Apart(b, t, "chat") /\ ("chat" \in s.names => Rest(t, "chat") = cmds)
  BY <1>2, <1>3, <1>4, RequeueAny
<1> HIDE DEF t
<1>7. Q!Taken(Rest(s, n), Rest(t, n))
  BY <1>3, <1>4, <1>5, <1>6, ReprogramGood DEF b
<1>8. Q!Taken(Rest(s, n), Rest(b, n))
  BY <1>1, <1>2 DEF Q!Taken, Q!Reprogram
<1>9. MonsterDoChat(b) = t \/ MonsterDoChat(b) = b
  BY DEF MonsterDoChat, t, cmds
<1> QED BY <1>2, <1>6, <1>7, <1>8, <1>9 DEF b

LEMMA ActGood ==
  ASSUME NEW s, Good(s), NEW n \in Due(s), Head1(s, n).op = "act"
  PROVE  LET t == MonsterDoAct(Popped(s, n), Head1(s, n).n)
         IN  Good(t) /\ Q!Taken(Rest(s, n), Rest(t, n))
<1> DEFINE b == Popped(s, n)
           waited == Head1(s, n).n
           cmd == IF ActsNow(waited) THEN DoAct(0) ELSE DoAct(waited + 1)
           cmds == <<cmd>>
           t == Requeue(b, "act", cmds)
<1>1. Head1(s, n) \in Commanded
  BY DueHead
<1>2. Good(b) /\ b.names = s.names
  BY PoppedGood
<1>3. "act" \in Names
  BY DEF Names
<1>4. cmd \in Commanded /\ cmd.op = "act"
  <2>1. waited \in Nat
    BY <1>1 DEF Commanded
  <2>2. 0 \in Nat /\ waited + 1 \in Nat
    BY <2>1
  <2> QED BY <2>2, CommandsTyped
<1> HIDE DEF cmd
<1>5. cmds \in Seq(Commanded) /\ cmds # <<>> /\ cmds[Len(cmds)].op = "act"
  BY <1>4
<1> HIDE DEF cmds, b
<1>6. Good(t) /\ Apart(b, t, "act") /\ ("act" \in s.names => Rest(t, "act") = cmds)
  BY <1>2, <1>3, <1>5, RequeueAny
<1>7. MonsterDoAct(b, waited) = t
  BY DEF MonsterDoAct, cmds, cmd
<1> HIDE DEF t
<1>8. Q!Taken(Rest(s, n), Rest(t, n))
  BY <1>3, <1>5, <1>6, ReprogramGood DEF b
<1> QED BY <1>6, <1>7, <1>8 DEF b

LEMMA PickGood ==
  ASSUME NEW s, Good(s), NEW n \in Due(s), Head1(s, n).op = "pick",
         NEW finds \in BOOLEAN
  PROVE  LET t == MonsterDoPick(Popped(s, n), finds)
         IN  Good(t) /\ Q!Taken(Rest(s, n), Rest(t, n))
<1> DEFINE b == Popped(s, n)
           cmds == <<Wait(4), DoPick>>
           r == Requeue(b, "pick", cmds)
           more == <<Text(0)>> \o cmds
           t == SeqAddFirst(r, "pick", <<Text(0)>>)
<1>1. n \in Names /\ n \in s.names
  BY DueHead
<1>2. Good(b) /\ b.names = s.names
  BY PoppedGood
<1>3. "pick" \in Names
  BY DEF Names
<1>4. cmds \in Seq(Commanded) /\ <<Text(0)>> \in Seq(Commanded)
  BY CommandsTyped
<1>5. cmds # <<>> /\ cmds[Len(cmds)].op = "pick"
  BY DEF DoPick
<1>6. more \in Seq(Commanded) /\ more # <<>> /\ more[Len(more)].op = "pick"
  <2>1. Len(cmds) = 2 /\ cmds[2].op = "pick" /\ Len(<<Text(0)>>) = 1
    BY DEF DoPick
  <2> HIDE DEF cmds
  <2>2. /\ more \in Seq(Commanded) /\ Len(more) = Len(<<Text(0)>>) + Len(cmds)
        /\ \A i \in 1 .. Len(<<Text(0)>>) + Len(cmds) :
             more[i] = IF i <= Len(<<Text(0)>>) THEN <<Text(0)>>[i]
                       ELSE cmds[i - Len(<<Text(0)>>)]
    BY <1>4, ConcatProperties
  <2> HIDE DEF more
  <2>3. Len(more) = 3 /\ more[3] = cmds[2]
    BY <2>1, <2>2
  <2> QED BY <2>1, <2>2, <2>3, EmptySeq
<1> HIDE DEF cmds, b
<1>7. /\ Good(r) /\ Apart(b, r, "pick") /\ r.names = s.names
      /\ "pick" \in s.names => Rest(r, "pick") = cmds
  BY <1>2, <1>3, <1>4, RequeueAny
<1>8. Q!Taken(Rest(s, n), Rest(r, n))
  <2> HIDE DEF r
  <2> QED BY <1>3, <1>4, <1>5, <1>7, ReprogramGood DEF b
<1>9. /\ Good(t) /\ Apart(r, t, "pick")
      /\ "pick" \in s.names => Rest(t, "pick") = more
  <2> HIDE DEF r
  <2>1. CASE "pick" \in s.names
    BY <1>3, <1>4, <1>7, <2>1, AddFirstGood
  <2>2. CASE "pick" \notin s.names
    BY <1>7, <2>2 DEF SeqAddFirst, Apart
  <2> QED BY <2>1, <2>2
<1>10. MonsterDoPick(b, finds) = IF finds THEN t ELSE r
  BY DEF MonsterDoPick, cmds
<1> HIDE DEF t, r, more
<1>11. Apart(b, t, "pick")
  BY <1>7, <1>9 DEF Apart
<1>12. Q!Taken(Rest(s, n), Rest(t, n))
  BY <1>3, <1>6, <1>9, <1>11, ReprogramGood DEF b
<1> QED BY <1>7, <1>8, <1>9, <1>10, <1>12 DEF b

\* One turn of one sequence takes its first command.
LEMMA ServeGood ==
  ASSUME NEW s, Good(s), NEW n \in Due(s), NEW steps \in Nat \ {0},
         NEW finds \in BOOLEAN
  PROVE  LET t == Serve(s, n, steps, finds)
         IN  Good(t) /\ Q!Taken(Rest(s, n), Rest(t, n))
<1> DEFINE cmd == Head1(s, n)
           b == Popped(s, n)
           t == Serve(s, n, steps, finds)
<1>1. cmd \in Commanded /\ Rest(s, n) # <<>> /\ Head(Rest(s, n)) = cmd
  BY DueHead
<1>2. /\ b = [s EXCEPT !.cpos[n] = @ + 1] /\ Good(b)
      /\ Rest(b, n) = Tail(Rest(s, n))
  BY PoppedGood
<1>3. CASE cmd.op = "wait" /\ cmd.n > steps
  BY <1>3, WaitGood
<1>4. CASE (cmd.op = "wait" /\ ~(cmd.n > steps)) \/ cmd.op = "text"
  <2>1. t = b
    BY <1>2, <1>4 DEF Serve
  <2>2. Q!Taken(Rest(s, n), Rest(b, n))
    BY <1>1, <1>2, <1>4 DEF Q!Taken
  <2> QED BY <1>2, <2>1, <2>2
<1>5. CASE cmd.op = "chat"
  <2>1. t = MonsterDoChat(b)
    BY <1>2, <1>5 DEF Serve
  <2> QED BY <1>5, <2>1, ChatGood
<1>6. CASE cmd.op = "act"
  <2>1. t = MonsterDoAct(b, cmd.n)
    BY <1>2, <1>6 DEF Serve
  <2> QED BY <1>6, <2>1, ActGood
<1>7. CASE cmd.op = "pick"
  <2>1. t = MonsterDoPick(b, finds)
    BY <1>2, <1>7 DEF Serve
  <2> QED BY <1>7, <2>1, PickGood
<1>8. cmd.op \in {"text", "wait", "act", "chat", "pick"}
  BY <1>1 DEF Commanded
<1> QED BY <1>3, <1>4, <1>5, <1>6, <1>7, <1>8

\* A beat gives each sequence its turn.
TurnOf(s, n, steps, finds) ==
  IF n \in Due(s) THEN Serve(s, n, steps, finds) ELSE SeqClear(s, n)

LEMMA TurnOfGood ==
  ASSUME NEW s, Good(s), NEW n \in Names, NEW steps \in Nat \ {0},
         NEW finds \in BOOLEAN
  PROVE  LET t == TurnOf(s, n, steps, finds)
         IN  /\ Good(t) /\ (n \notin s.names => t.commands[n] = <<>>)
             /\ Rest(t, n) = Rest(s, n) \/ Q!Taken(Rest(s, n), Rest(t, n))
<1>1. CASE n \in Due(s)
  <2>1. n \in s.names
    BY <1>1 DEF Due
  <2> QED BY <1>1, <2>1, ServeGood DEF TurnOf
<1>2. CASE n \notin Due(s)
  <2> DEFINE t == SeqClear(s, n)
  <2>1. TurnOf(s, n, steps, finds) = t
    BY <1>2 DEF TurnOf
  <2>2. Good(t) /\ Rest(t, n) = <<>>
    BY ClearGood
  <2>3. t.commands[n] = <<>>
    BY DEF SeqClear, Good, Npcs
  <2>4. Rest(s, n) = <<>>
    <3>1. /\ s.commands[n] \in Seq(Commanded) /\ s.cpos[n] \in Nat
          /\ s.cpos[n] <= Len(s.commands[n]) /\ Len(s.commands[n]) \in Nat
          /\ n \notin s.names => s.commands[n] = <<>>
      BY RestType, LenProperties DEF Good, Npcs
    <3>2. s.cpos[n] = Len(s.commands[n])
      <4>1. CASE n \in s.names
        BY <1>2, <3>1, <4>1 DEF Due
      <4>2. CASE n \notin s.names
        BY <3>1, <4>2, EmptySeq
      <4> QED BY <4>1, <4>2
    <3> QED BY <3>1, <3>2, FromEnd, RestIsFrom
  <2> HIDE DEF t
  <2> QED BY <2>1, <2>2, <2>3, <2>4
<1> QED BY <1>1, <1>2

LEMMA ProcessGood ==
  ASSUME NEW s, Good(s), NEW steps \in Nat \ {0}, NEW finds \in BOOLEAN
  PROVE  LET t == SeqProcessCommands(s, steps, finds)
         IN  /\ Good(t) /\ Alike(s, t)
             /\ \A n \in Names : \/ Rest(t, n) = Rest(s, n)
                                 \/ Q!Taken(Rest(s, n), Rest(t, n))
<1> DEFINE c == [n \in Names |-> TurnOf(s, n, steps, finds).commands[n]]
           p == [n \in Names |-> TurnOf(s, n, steps, finds).cpos[n]]
           t == [s EXCEPT !.commands = c, !.cpos = p]
<1>1. SeqProcessCommands(s, steps, finds) = t
  BY DEF SeqProcessCommands, TurnOf
<1>2. ASSUME NEW n \in Names
      PROVE  /\ c[n] \in Seq(Commanded) /\ p[n] \in Nat /\ p[n] <= Len(c[n])
             /\ n \notin s.names => c[n] = <<>>
             /\ From(c[n], p[n]) = Rest(s, n) \/ Q!Taken(Rest(s, n), From(c[n], p[n]))
  <2> DEFINE u == TurnOf(s, n, steps, finds)
  <2>1. /\ Good(u) /\ (n \notin s.names => u.commands[n] = <<>>)
        /\ Rest(u, n) = Rest(s, n) \/ Q!Taken(Rest(s, n), Rest(u, n))
    BY TurnOfGood
  <2>2. c[n] = u.commands[n] /\ p[n] = u.cpos[n]
    OBVIOUS
  <2> HIDE DEF u, c, p
  <2>3. c[n] \in Seq(Commanded) /\ p[n] \in Nat /\ p[n] <= Len(c[n])
    BY <2>1, <2>2 DEF Good, Npcs
  <2>4. Rest(u, n) = From(c[n], p[n])
    BY <2>2, RestIsFrom
  <2> QED BY <2>1, <2>2, <2>3, <2>4
<1>3. c \in [Names -> Seq(Commanded)] /\ p \in [Names -> Nat]
  <2>1. c = [n \in Names |-> c[n]] /\ p = [n \in Names |-> p[n]]
    OBVIOUS
  <2> HIDE DEF c, p
  <2> QED BY <1>2, <2>1
<1> HIDE DEF c, p
<1>4. s \in Npcs
  BY DEF Good
<1>5. /\ t.commands = c /\ t.cpos = p /\ t.names = s.names /\ t.active = s.active
      /\ t.heart = s.heart /\ t.notify = s.notify
  BY <1>4 DEF Npcs
<1>6. t \in Npcs
  BY <1>3, <1>4 DEF Npcs
<1> HIDE DEF t
<1>7. Good(t)
  BY <1>2, <1>5, <1>6 DEF Good
<1>8. \A n \in Names : Rest(t, n) = From(c[n], p[n])
  BY <1>5, RestIsFrom
<1> QED BY <1>1, <1>2, <1>5, <1>7, <1>8 DEF Alike

LEMMA NewStepType ==
  ASSUME NEW s, Good(s), NEW steps \in Nat \ {0}
  PROVE  NewStep(s, steps) \in Nat
<1> DEFINE T == {StepOf(s, n, steps) : n \in Due(s)}
<1>1. ASSUME NEW n \in Due(s) PROVE StepOf(s, n, steps) \in Nat
  <2>1. Head1(s, n).n \in Nat
    BY DueHead DEF Commanded
  <2>2. Head1(s, n).n > steps => Head1(s, n).n - steps \in Nat
    BY <2>1
  <2> QED BY <2>2 DEF StepOf
<1>2. T \in SUBSET Nat
  BY <1>1
<1>3. CASE Due(s) = {}
  BY <1>3 DEF NewStep
<1>4. CASE Due(s) # {}
  <2>1. T # {}
    BY <1>4
  <2>2. NewStep(s, steps) = Min(T)
    BY <1>4 DEF NewStep
  <2> HIDE DEF T
  <2>3. Min(T) \in T
    BY <1>2, <2>1, MinProperties
  <2> QED BY <1>2, <2>2, <2>3
<1> QED BY <1>3, <1>4

LEMMA SlowBeatsType ==
  ASSUME NEW k \in Nat PROVE SlowBeats(k) \in Nat
BY DEF SlowBeats

LEMMA TurnGood ==
  ASSUME NEW s, Good(s), s.active, NEW finds \in BOOLEAN
  PROVE  LET t == Turn(s, finds)
         IN  /\ Good(t)
             /\ t.active = ~StopSeq /\ (StopSeq => t.notify = 1)
             /\ \A n \in Names : \/ Rest(t, n) = Rest(s, n)
                                 \/ Q!Taken(Rest(s, n), Rest(t, n))
<1> DEFINE k == NewStep(s, Steps(s))
           d == SeqProcessCommands(s, Steps(s), finds)
           r == IF StopSeq THEN Sleep(d) ELSE d
           t == Turn(s, finds)
<1>1. Steps(s) \in Nat \ {0}
  BY DEF Good, Npcs, Steps
<1>2. k \in Nat
  BY <1>1, NewStepType
<1>3. /\ Good(d) /\ Alike(s, d)
      /\ \A n \in Names : Rest(d, n) = Rest(s, n) \/ Q!Taken(Rest(s, n), Rest(d, n))
  BY <1>1, ProcessGood
<1>4. t = IF k > 1 THEN [r EXCEPT !.delay = SlowBeats(k), !.next_step = k]
          ELSE [r EXCEPT !.next_step = 0]
  BY DEF Turn
<1>5. SlowBeats(k) \in Nat
  BY <1>2, SlowBeatsType
<1> HIDE DEF k, d, t
<1>6. d \in Npcs /\ d.active /\ d.notify = 0
  BY <1>3 DEF Good, Alike
<1>7. /\ r \in Npcs /\ r.commands = d.commands /\ r.cpos = d.cpos
      /\ r.names = d.names /\ r.heart = r.active /\ r.active = ~StopSeq
      /\ r.notify = IF StopSeq THEN 1 ELSE 0
  <2>1. CASE StopSeq
    <3>1. r = [d EXCEPT !.active = FALSE, !.heart = FALSE, !.notify = @ + 1]
      BY <2>1 DEF Sleep
    <3> HIDE DEF r
    <3>2. /\ r \in Npcs /\ r.commands = d.commands /\ r.cpos = d.cpos
          /\ r.names = d.names /\ r.heart = FALSE /\ r.active = FALSE
          /\ r.notify = 1
      <4>1. d \in Npcs /\ d.notify + 1 = 1
        BY <1>6
      <4>2. /\ r.commands = d.commands /\ r.cpos = d.cpos
            /\ r.names = d.names /\ r.heart = FALSE /\ r.active = FALSE
            /\ r.notify = d.notify + 1
        BY <3>1, <4>1 DEF Npcs
      <4>3. r = [d EXCEPT !.active = FALSE, !.heart = FALSE, !.notify = 1]
        BY <3>1, <4>1
      <4>4. r \in Npcs
        BY <4>1, <4>3 DEF Npcs
      <4> QED BY <4>1, <4>2, <4>4
    <3> QED BY <2>1, <3>2
  <2>2. CASE ~StopSeq
    <3>1. r = d
      BY <2>2
    <3> HIDE DEF r
    <3>2. d.heart = TRUE /\ d.active = TRUE
      BY <1>3, <1>6 DEF Good, Npcs
    <3> QED BY <1>6, <2>2, <3>1, <3>2
  <2> QED BY <2>1, <2>2
<1> HIDE DEF r
<1>8. /\ t \in Npcs /\ t.commands = r.commands /\ t.cpos = r.cpos
      /\ t.names = r.names /\ t.heart = r.heart /\ t.active = r.active
      /\ t.notify = r.notify
  BY <1>2, <1>4, <1>5, <1>7 DEF Npcs
<1>9. Good(t)
  BY <1>3, <1>7, <1>8 DEF Good
<1>10. \A n \in Names : Rest(t, n) = Rest(d, n)
  BY <1>7, <1>8, RestIsFrom
<1> QED BY <1>3, <1>7, <1>8, <1>9, <1>10 DEF t

LEMMA HeartBeatGood ==
  ASSUME Good(npc), NEW finds \in BOOLEAN, HeartBeat(finds)
  PROVE  /\ Good(npc')
         /\ \/ /\ npc.active /\ npc'.active = ~StopSeq
               /\ StopSeq => npc'.notify = 1
            \/ /\ npc'.active = npc.active /\ npc'.notify = npc.notify
               /\ Due(npc') = Due(npc)
         /\ \A n \in Names : \/ Rest(npc', n) = Rest(npc, n)
                             \/ Q!Taken(Rest(npc, n), Rest(npc', n))
<1>1. npc \in Npcs /\ npc.heart = npc.active
  BY DEF Good
<1>2. CASE HasTurn(npc)
  <2>1. npc.active
    BY <1>1, <1>2 DEF HasTurn
  <2>2. npc.delay = 0
    BY <1>2 DEF HasTurn
  <2>3. ~(npc.heart /\ ~(StopSeq /\ ~npc.active) /\ npc.delay > 0)
    BY <2>2
  <2>4. npc' = Turn(npc, finds)
    BY <1>2, <2>3 DEF HeartBeat
  <2> QED BY <2>1, <2>4, TurnGood
<1>3. CASE ~HasTurn(npc) /\ npc' = [npc EXCEPT !.delay = @ - 1] /\ npc.delay > 0
  <2> DEFINE t == [npc EXCEPT !.delay = @ - 1]
  <2>1. npc.delay - 1 \in Nat
    BY <1>1, <1>3 DEF Npcs
  <2>2. /\ t \in Npcs /\ t.commands = npc.commands /\ t.cpos = npc.cpos
        /\ t.names = npc.names /\ t.heart = npc.heart /\ t.active = npc.active
        /\ t.notify = npc.notify
    BY <1>1, <2>1 DEF Npcs
  <2>3. npc' = t
    BY <1>3
  <2> HIDE DEF t
  <2>4. Good(t)
    BY <2>2 DEF Good
  <2>5. Due(t) = Due(npc) /\ \A n \in Names : Rest(t, n) = Rest(npc, n)
    BY <2>2 DEF Due, Rest
  <2> QED BY <2>2, <2>3, <2>4, <2>5
<1>4. CASE npc' = npc
  BY <1>4
<1>5. \/ HasTurn(npc) \/ npc' = npc
      \/ ~HasTurn(npc) /\ npc' = [npc EXCEPT !.delay = @ - 1] /\ npc.delay > 0
  <2>1. CASE HasTurn(npc)
    BY <2>1
  <2>2. CASE ~HasTurn(npc) /\ npc.heart /\ ~(StopSeq /\ ~npc.active) /\ npc.delay > 0
    BY <2>2 DEF HeartBeat
  <2>3. CASE ~HasTurn(npc) /\ ~(npc.heart /\ ~(StopSeq /\ ~npc.active) /\ npc.delay > 0)
    BY <2>3 DEF HeartBeat
  <2> QED BY <2>1, <2>2, <2>3
<1> QED BY <1>2, <1>3, <1>4, <1>5

-----------------------------------------------------------------------------
(***************************************************************************)
(* A creator's code.                                                       *)
(***************************************************************************)
Programs == Talks \cup {<<DoAct(0)>>, <<DoChat>>, <<DoPick>>}

LEMMA ProgramsTyped == Programs \subseteq Seq(Commanded)
<1>1. \A t \in Texts : Text(t) \in Commanded
  BY SequenceAssumption, CommandsTyped
<1>2. \A d \in Waits : Wait(d) \in Commanded
  BY SequenceAssumption, CommandsTyped
<1>3. ASSUME NEW e \in Commanded PROVE <<e>> \in Seq(Commanded)
  OBVIOUS
<1>4. ASSUME NEW e \in Commanded, NEW f \in Commanded PROVE <<e, f>> \in Seq(Commanded)
  OBVIOUS
<1>5. Talks \subseteq Seq(Commanded)
  <2>1. \A t \in Texts : <<Text(t)>> \in Seq(Commanded)
    BY <1>1, <1>3
  <2>2. \A d \in Waits, t \in Texts : <<Wait(d), Text(t)>> \in Seq(Commanded)
    BY <1>1, <1>2, <1>4
  <2>3. ASSUME NEW x \in Talks PROVE x \in Seq(Commanded)
    <3>1. \/ \E t \in Texts : x = <<Text(t)>>
          \/ \E d \in Waits, t \in Texts : x = <<Wait(d), Text(t)>>
      BY DEF Talks
    <3>2. CASE \E t \in Texts : x = <<Text(t)>>
      <4>1. PICK t \in Texts : x = <<Text(t)>>
        BY <3>2
      <4> QED BY <2>1, <4>1, Zenon
    <3>3. CASE \E d \in Waits, t \in Texts : x = <<Wait(d), Text(t)>>
      <4>1. PICK d \in Waits, t \in Texts : x = <<Wait(d), Text(t)>>
        BY <3>3
      <4> QED BY <2>2, <4>1, Zenon
    <3> QED BY <3>1, <3>2, <3>3
  <2> QED BY <2>3
<1>6. DoAct(0) \in Commanded /\ DoChat \in Commanded /\ DoPick \in Commanded
  BY CommandsTyped
<1>7. {<<DoAct(0)>>, <<DoChat>>, <<DoPick>>} \subseteq Seq(Commanded)
  <2>1. <<DoAct(0)>> \in Seq(Commanded)
    BY <1>3, <1>6, Zenon
  <2>2. <<DoChat>> \in Seq(Commanded)
    BY <1>3, <1>6, Zenon
  <2>3. <<DoPick>> \in Seq(Commanded)
    BY <1>3, <1>6, Zenon
  <2> QED BY <2>1, <2>2, <2>3, Zenon
<1> QED BY <1>5, <1>7, Zenon DEF Programs

LEMMA DeleteGood ==
  ASSUME NEW s, Good(s), NEW n \in Names
  PROVE  LET t == SeqDelete(s, n)
         IN  /\ Good(t) /\ Alike(s, t) /\ Apart(s, t, n) /\ Rest(t, n) = <<>>
             /\ Due(t) \subseteq Due(s)
<1> DEFINE c == SeqClear(s, n)
           t == SeqDelete(s, n)
<1>1. /\ Good(c) /\ Alike(s, c) /\ Apart(s, c, n) /\ Rest(c, n) = <<>>
      /\ c.names = s.names
  BY ClearGood
<1>2. /\ c.commands[n] = <<>>
      /\ \A m \in Names \ {n} : c.commands[m] = s.commands[m] /\ c.cpos[m] = s.cpos[m]
  BY DEF SeqClear, Good, Npcs
<1>3. t = [c EXCEPT !.names = @ \ {n}, !.flags[n] = 0]
  BY DEF SeqDelete
<1> HIDE DEF c, t
<1>4. c \in Npcs
  BY <1>1 DEF Good
<1>5. /\ t \in Npcs /\ t.commands = c.commands /\ t.cpos = c.cpos
      /\ t.names = s.names \ {n} /\ t.heart = c.heart /\ t.active = c.active
      /\ t.notify = c.notify
  BY <1>1, <1>3, <1>4 DEF Npcs
<1>6. Good(t)
  BY <1>1, <1>2, <1>5 DEF Good
<1>7. \A m \in Names : Rest(t, m) = Rest(c, m)
  BY <1>5 DEF Rest
<1>8. Due(t) \subseteq Due(s)
  <2>1. s.names \subseteq Names
    BY DEF Good, Npcs
  <2> QED BY <1>2, <1>5, <2>1 DEF Due
<1>9. Alike(s, t) /\ Apart(s, t, n) /\ Rest(t, n) = <<>>
  BY <1>1, <1>5, <1>7 DEF Alike, Apart
<1> QED BY <1>6, <1>8, <1>9 DEF t

\* What a program does to the mobile and to its streams.
Reprogrammed(s, t) ==
  /\ Good(t)
  /\ t.active \/ (Alike(s, t) /\ Due(t) \subseteq Due(s))
  /\ \E n \in Names :
       /\ Apart(s, t, n)
       /\ Rest(t, n) \in {p \o Rest(s, n) : p \in Programs}
                           \cup {Rest(s, n) \o p : p \in Programs}
                           \cup Programs \cup {<<>>}

LEMMA QueuedGood ==
  ASSUME NEW s, Good(s), NEW n \in Names, NEW flag \in {0, 1}, NEW cmds \in Programs
  PROVE  /\ Reprogrammed(s, Requeue(SeqNew(s, n, flag), n, cmds))
         /\ Reprogrammed(s, SeqAddFirst(SeqNew(s, n, flag), n, cmds))
         /\ Reprogrammed(s, SeqAddLast(SeqNew(s, n, flag), n, cmds))
<1> DEFINE m == SeqNew(s, n, flag)
           t == Requeue(m, n, cmds)
           u == SeqAddFirst(m, n, cmds)
           v == SeqAddLast(m, n, cmds)
<1>1. Good(m) /\ n \in m.names /\ m.commands = s.commands /\ m.cpos = s.cpos
  BY NewGood
<1>2. \A k \in Names : Rest(m, k) = Rest(s, k)
  BY <1>1 DEF Rest
<1>3. cmds \in Seq(Commanded)
  BY ProgramsTyped
<1> HIDE DEF m
<1>4. Good(t) /\ t.active /\ Apart(m, t, n) /\ Rest(t, n) = cmds
  BY <1>1, <1>3, RequeueGood
<1>5. Good(u) /\ u.active /\ Apart(m, u, n) /\ Rest(u, n) = cmds \o Rest(m, n)
  BY <1>1, <1>3, AddFirstGood
<1>6. Good(v) /\ v.active /\ Apart(m, v, n) /\ Rest(v, n) = Rest(m, n) \o cmds
  BY <1>1, <1>3, AddLastGood
<1> HIDE DEF t, u, v
<1>7. Apart(s, t, n) /\ Apart(s, u, n) /\ Apart(s, v, n)
  BY <1>2, <1>4, <1>5, <1>6 DEF Apart
<1>8. Reprogrammed(s, t)
  BY <1>4, <1>7 DEF Reprogrammed
<1>9. Reprogrammed(s, u)
  BY <1>2, <1>5, <1>7 DEF Reprogrammed
<1>10. Reprogrammed(s, v)
  BY <1>2, <1>6, <1>7 DEF Reprogrammed
<1> QED BY <1>8, <1>9, <1>10 DEF m, t, u, v

LEMMA ProgramGood ==
  ASSUME Good(npc), Program
  PROVE  npc' = npc \/ Reprogrammed(npc, npc')
<1>1. {"act", "chat", "pick"} \subseteq Names /\ Talk \subseteq Names
  BY DEF Names
<1>2. <<DoAct(0)>> \in Programs /\ <<DoChat>> \in Programs /\ <<DoPick>> \in Programs
  BY DEF Programs
<1>3. CASE \E flag \in {0, 1} : Add("act", "acts", DoAct(0), flag)
  BY <1>1, <1>2, <1>3, QueuedGood DEF Add
<1>4. CASE Add("act", "cacts", DoAct(0), 0)
  BY <1>1, <1>2, <1>4, QueuedGood DEF Add
<1>5. CASE Add("chat", "chats", DoChat, 0) \/ Add("chat", "cchats", DoChat, 0)
  BY <1>1, <1>2, <1>5, QueuedGood DEF Add
<1>6. CASE \E what \in DOMAIN has : Clear(what)
  BY <1>6 DEF Clear
<1>7. CASE SetPickUp
  BY <1>1, <1>2, <1>7, QueuedGood DEF SetPickUp
<1>8. ASSUME NEW n \in Talk, Feed(n) PROVE Reprogrammed(npc, npc')
  <2>1. PICK cmds \in Talks : \/ npc' = SeqAddFirst(SeqNew(npc, n, 0), n, cmds)
                              \/ npc' = SeqAddLast(SeqNew(npc, n, 0), n, cmds)
    BY <1>8 DEF Feed
  <2>2. cmds \in Programs /\ n \in Names
    BY <1>1 DEF Programs
  <2> QED BY <2>1, <2>2, QueuedGood
<1>9. ASSUME NEW n \in Talk, Drop(n) PROVE Reprogrammed(npc, npc')
  <2>1. npc' = SeqDelete(npc, n) /\ n \in Names
    BY <1>1, <1>9 DEF Drop
  <2> QED BY <2>1, DeleteGood DEF Reprogrammed
<1> QED BY <1>3, <1>4, <1>5, <1>6, <1>7, <1>8, <1>9 DEF Program

LEMMA NotifyGood ==
  ASSUME Good(npc), NotifyMeet
  PROVE  /\ Good(npc')
         /\ Due(npc') = Due(npc) /\ \A n \in Names : Rest(npc', n) = Rest(npc, n)
         /\ npc'.active \/ (npc'.active = npc.active /\ npc.notify = 0)
<1>1. npc \in Npcs
  BY DEF Good
<1>2. CASE npc.notify > 0
  <2> DEFINE t == SeqRestart(npc)
  <2>1. npc' = t
    BY <1>2 DEF NotifyMeet
  <2>2. /\ t \in Npcs /\ t.commands = npc.commands /\ t.cpos = npc.cpos
        /\ t.names = npc.names /\ t.heart = TRUE /\ t.active = TRUE /\ t.notify = 0
    BY <1>1 DEF SeqRestart, Npcs
  <2> HIDE DEF t
  <2>3. Good(t)
    BY <2>2 DEF Good
  <2>4. Due(t) = Due(npc) /\ \A n \in Names : Rest(t, n) = Rest(npc, n)
    BY <2>2 DEF Due, Rest
  <2> QED BY <2>1, <2>2, <2>3, <2>4
<1>3. CASE ~(npc.notify > 0)
  <2>1. npc' = npc /\ npc.notify = 0
    BY <1>1, <1>3 DEF NotifyMeet, Npcs
  <2> QED BY <2>1
<1> QED BY <1>2, <1>3
-----------------------------------------------------------------------------
(***************************************************************************)
(* The invariant: what seqaction.c keeps is in order, and the two waking   *)
(* invariants, of which the second needs the first when a player comes.    *)
(***************************************************************************)
IInv ==
  /\ Good(npc) /\ NeverForgotten /\ SleepsAlone
  /\ since \in 0 .. SEQ_STAY_AWAKE + 1
  /\ taken \subseteq Names
  /\ missed \in BOOLEAN

LEMMA InitIInv == ASSUME Init PROVE IInv /\ Q!Init
<1> DEFINE c == [n \in Names |-> <<>>]
           p == [n \in Names |-> 0]
<1>1. /\ npc.names = {} /\ npc.flags = p /\ npc.commands = c /\ npc.cpos = p
      /\ npc.active = FALSE /\ npc.delay = 0 /\ npc.next_step = 0
      /\ npc.heart = FALSE /\ npc.notify = 0
  BY DEF Init
<1>2. <<>> \in Seq(Commanded) /\ Len(<<>>) = 0
  BY EmptySeq
<1>3. npc \in Npcs
  <2>1. c \in [Names -> Seq(Commanded)]
    BY <1>2
  <2>2. p \in [Names -> Nat] /\ p \in [Names -> {0, 1}]
    OBVIOUS
  <2>3. npc = [names |-> {}, flags |-> p, commands |-> c, cpos |-> p, active |-> FALSE,
               delay |-> 0, next_step |-> 0, heart |-> FALSE, notify |-> 0]
    BY DEF Init
  <2> HIDE DEF c, p
  <2> QED BY <2>1, <2>2, <2>3 DEF Npcs
<1>4. \A n \in Names : npc.commands[n] = <<>> /\ npc.cpos[n] = 0
  BY <1>1
<1> HIDE DEF c, p
<1>5. Good(npc)
  <2>1. \A n \in Names : npc.cpos[n] <= Len(npc.commands[n])
    BY <1>2, <1>4
  <2> QED BY <1>1, <1>3, <1>4, <2>1 DEF Good
<1>6. Due(npc) = {}
  BY <1>1 DEF Due
<1>7. \A n \in Names : Rest(npc, n) = <<>>
  BY <1>2, <1>4, FromStart, RestIsFrom
<1>8. Q!Init
  BY <1>7 DEF Q!Init
<1>9. since \in 0 .. SEQ_STAY_AWAKE + 1
  <2>1. since = 0 /\ SEQ_STAY_AWAKE \in Nat
    BY SequenceAssumption DEF Init
  <2> QED BY <2>1
<1>10. taken \subseteq Names /\ missed \in BOOLEAN
  BY DEF Init
<1> QED BY <1>5, <1>6, <1>8, <1>9, <1>10 DEF IInv, NeverForgotten, SleepsAlone

LEMMA DueNamed == ASSUME NEW s, Good(s) PROVE Due(s) \subseteq Names
BY DEF Due, Good, Npcs

\* The abstract queues.
Queues == [n \in Names |-> Rest(npc, n)]

LEMMA BeatMapped ==
  ASSUME \A n \in Names : \/ Rest(npc', n) = Rest(npc, n)
                          \/ Q!Taken(Rest(npc, n), Rest(npc', n))
  PROVE  Q!Beat
<1>1. \A n \in Names : Queues[n] = Rest(npc, n) /\ Queues'[n] = Rest(npc', n)
  BY DEF Queues
<1> QED BY <1>1 DEF Queues, Q!Beat

LEMMA SameMapped ==
  ASSUME \A n \in Names : Rest(npc', n) = Rest(npc, n)
  PROVE  UNCHANGED Queues
BY DEF Queues

LEMMA ProgramMapped ==
  ASSUME Reprogrammed(npc, npc')
  PROVE  \E n \in Names : Q!Program(n)
<1>1. PICK n \in Names :
        /\ Apart(npc, npc', n)
        /\ Rest(npc', n) \in {p \o Rest(npc, n) : p \in Programs}
                               \cup {Rest(npc, n) \o p : p \in Programs}
                               \cup Programs \cup {<<>>}
  BY DEF Reprogrammed
<1>2. \A m \in Names : Queues[m] = Rest(npc, m) /\ Queues'[m] = Rest(npc', m)
  BY DEF Queues
<1>3. Queues'[n] \in {p \o Queues[n] : p \in Programs}
                       \cup {Queues[n] \o p : p \in Programs}
                       \cup Programs \cup {<<>>}
  BY <1>1, <1>2
<1>4. \A m \in Names \ {n} : Queues'[m] = Queues[m]
  BY <1>1, <1>2 DEF Apart
<1> QED BY <1>3, <1>4, Zenon DEF Q!Program, Queues, Programs

LEMMA TickInv == ASSUME IInv, Tick PROVE IInv' /\ Q!Beat
<1>1. PICK finds \in BOOLEAN : HeartBeat(finds)
  BY DEF Tick
<1>2. /\ Good(npc')
      /\ \/ /\ npc.active /\ npc'.active = ~StopSeq
            /\ StopSeq => npc'.notify = 1
         \/ /\ npc'.active = npc.active /\ npc'.notify = npc.notify
            /\ Due(npc') = Due(npc)
      /\ \A n \in Names : \/ Rest(npc', n) = Rest(npc, n)
                          \/ Q!Taken(Rest(npc, n), Rest(npc', n))
  BY <1>1, HeartBeatGood DEF IInv
<1>3. npc'.active \in BOOLEAN /\ npc.active \in BOOLEAN
  BY <1>2 DEF IInv, Good, Npcs
<1>4. NeverForgotten'
  BY <1>2, <1>3 DEF IInv, NeverForgotten, Due
<1>5. SleepsAlone'
  <2>1. CASE company' = company /\ missed' = missed /\ company = "player"
    <3>1. ~StopSeq
      BY <2>1 DEF StopSeq
    <3>2. npc'.active \/ (npc'.active = npc.active /\ Due(npc') = Due(npc))
      BY <1>2, <3>1
    <3>3. Due(npc) # {} => npc.active \/ missed
      BY <2>1 DEF IInv, SleepsAlone
    <3>4. Due(npc)' = Due(npc')
      BY DEF Due
    <3> QED BY <2>1, <3>2, <3>3, <3>4 DEF SleepsAlone
  <2>2. CASE company' # "player"
    BY <2>2 DEF SleepsAlone
  <2>3. CASE missed' = ~npc'.active
    BY <2>3 DEF SleepsAlone
  <2>4. \/ company' = company /\ missed' = missed
        \/ company' \in {"nobody", "linkdead"}
        \/ missed' = ~npc'.active
    BY DEF Tick
  <2> QED BY <2>1, <2>2, <2>3, <2>4
<1>6. since' \in 0 .. SEQ_STAY_AWAKE + 1
  <2> DEFINE T == {since + 1, SEQ_STAY_AWAKE + 1}
  <2>1. T \in SUBSET Nat /\ T # {} /\ SEQ_STAY_AWAKE + 1 \in T /\ SEQ_STAY_AWAKE \in Nat
    BY SequenceAssumption DEF IInv
  <2>2. since' = Min(T) \/ since' = 0
    BY DEF Tick
  <2> HIDE DEF T
  <2>3. Min(T) \in T /\ Min(T) <= SEQ_STAY_AWAKE + 1
    BY <2>1, MinProperties
  <2>4. Min(T) \in Nat
    BY <2>1, <2>3
  <2> QED BY <2>1, <2>2, <2>3, <2>4
<1>7. taken' \subseteq Names
  BY DueNamed DEF Tick, IInv
<1>8. missed' \in BOOLEAN
  BY <1>3 DEF Tick, IInv
<1>9. Q!Beat
  BY <1>2, BeatMapped
<1> QED BY <1>2, <1>4, <1>5, <1>6, <1>7, <1>8, <1>9 DEF IInv

LEMMA ArriveInv == ASSUME IInv, Arrive PROVE IInv' /\ UNCHANGED Queues
<1>1. /\ Good(npc')
      /\ Due(npc') = Due(npc) /\ \A n \in Names : Rest(npc', n) = Rest(npc, n)
      /\ npc'.active \/ (npc'.active = npc.active /\ npc.notify = 0)
  BY NotifyGood DEF IInv, Arrive
<1>2. Due(npc') # {} => npc'.active
  BY <1>1 DEF IInv, NeverForgotten
<1>3. Due(npc)' = Due(npc')
  BY DEF Due
<1>4. NeverForgotten' /\ SleepsAlone'
  BY <1>2, <1>3 DEF NeverForgotten, SleepsAlone
<1>5. since' \in 0 .. SEQ_STAY_AWAKE + 1
  <2>1. since' = 0 /\ SEQ_STAY_AWAKE \in Nat
    BY SequenceAssumption DEF Arrive
  <2> QED BY <2>1
<1>6. taken' \subseteq Names /\ missed' \in BOOLEAN
  BY DEF Arrive, IInv
<1> QED BY <1>1, <1>4, <1>5, <1>6, SameMapped DEF IInv

LEMMA ProgramInv ==
  ASSUME IInv, Program
  PROVE  /\ IInv'
         /\ (\E n \in Names : Q!Program(n)) \/ UNCHANGED Queues
<1>1. missed' = (missed /\ ~npc'.active) /\ UNCHANGED <<company, since, taken>>
  BY DEF Program, Add, Clear, SetPickUp, Feed, Drop, Programmed
<1>2. npc' = npc \/ Reprogrammed(npc, npc')
  BY ProgramGood DEF IInv
<1>3. /\ Good(npc')
      /\ npc'.active \/ ( /\ npc'.active = npc.active /\ npc'.notify = npc.notify
                          /\ Due(npc') \subseteq Due(npc))
  BY <1>2 DEF IInv, Reprogrammed, Alike
<1>4. npc'.active \in BOOLEAN /\ npc.active \in BOOLEAN /\ missed \in BOOLEAN
  BY <1>3 DEF IInv, Good, Npcs
<1>5. Due(npc)' = Due(npc')
  BY DEF Due
<1>6. NeverForgotten'
  BY <1>3, <1>4, <1>5 DEF IInv, NeverForgotten
<1>7. SleepsAlone'
  <2>1. CASE npc'.active
    BY <2>1 DEF SleepsAlone
  <2>2. CASE ~npc'.active
    <3>1. missed' = missed
      BY <1>1, <1>4, <2>2
    <3>2. Due(npc') \subseteq Due(npc) /\ npc'.active = npc.active
      BY <1>3, <2>2
    <3> QED BY <1>1, <1>5, <3>1, <3>2 DEF IInv, SleepsAlone
  <2> QED BY <2>1, <2>2
<1>8. since' \in 0 .. SEQ_STAY_AWAKE + 1 /\ taken' \subseteq Names /\ missed' \in BOOLEAN
  BY <1>1, <1>4 DEF IInv
<1>9. (\E n \in Names : Q!Program(n)) \/ UNCHANGED Queues
  BY <1>2, ProgramMapped DEF Queues, Rest
<1> QED BY <1>3, <1>6, <1>7, <1>8, <1>9 DEF IInv

\* Those that change nothing the mobile keeps.
LEMMA OtherInv ==
  ASSUME IInv, UNCHANGED <<npc, since, taken>>, missed' \in BOOLEAN,
         SleepsAlone'
  PROVE  IInv' /\ UNCHANGED Queues
<1>1. Good(npc') /\ NeverForgotten'
  BY DEF IInv, NeverForgotten, Due
<1>2. UNCHANGED Queues
  BY DEF Queues, Rest
<1> QED BY <1>1, <1>2 DEF IInv

LEMMA NextInv ==
  ASSUME IInv, [Next]_vars
  PROVE  IInv' /\ [Q!Next]_Queues
<1>1. CASE Tick
  BY <1>1, TickInv DEF Q!Next
<1>2. CASE Arrive
  BY <1>2, ArriveInv
<1>3. CASE Leave
  <2>1. UNCHANGED <<npc, since, taken>> /\ missed' \in BOOLEAN /\ SleepsAlone'
    BY <1>3 DEF Leave, SleepsAlone
  <2> QED BY <2>1, OtherInv
<1>4. CASE Revive
  <2>1. npc.active \in BOOLEAN
    BY DEF IInv, Good, Npcs
  <2>2. UNCHANGED <<npc, since, taken>> /\ missed' \in BOOLEAN /\ SleepsAlone'
    BY <1>4, <2>1 DEF Revive, SleepsAlone
  <2> QED BY <2>2, OtherInv
<1>5. CASE Fight
  <2>1. UNCHANGED <<npc, since, taken>> /\ missed' \in BOOLEAN /\ SleepsAlone'
    BY <1>5 DEF Fight, IInv, SleepsAlone, Due
  <2> QED BY <2>1, OtherInv
<1>6. CASE Program
  BY <1>6, ProgramInv DEF Q!Next
<1>7. CASE UNCHANGED vars
  <2>1. UNCHANGED <<npc, since, taken>> /\ missed' \in BOOLEAN /\ SleepsAlone'
    BY <1>7 DEF vars, IInv, SleepsAlone, Due
  <2> QED BY <2>1, OtherInv
<1> QED BY <1>1, <1>2, <1>3, <1>4, <1>5, <1>6, <1>7 DEF Next

LEMMA SpecIInv == Spec => []IInv
<1>1. Init => IInv
  BY InitIInv
<1>2. IInv /\ [Next]_vars => IInv'
  BY NextInv
<1> QED BY <1>1, <1>2, PTL DEF Spec

-----------------------------------------------------------------------------
(***************************************************************************)
(* What seqaction.c keeps holds what it should, whatever the creator's     *)
(* code does: the position is within the commands, names that are not      *)
(* there have no commands, and the heart beats just while it is active.    *)
(***************************************************************************)
THEOREM SequenceTypes == Spec => []TypeOK
<1>1. IInv => TypeOK
  <2> SUFFICES ASSUME IInv PROVE TypeOK
    OBVIOUS
  <2>1. npc \in Npcs
    BY DEF IInv, Good
  <2>2. \A n \in Names : npc.cpos[n] \in 0 .. Len(npc.commands[n])
    BY RestType DEF IInv
  <2>3. npc.notify \in {0, 1}
    BY DEF IInv, Good
  <2> QED BY <2>1, <2>2, <2>3 DEF IInv, Good, Npcs, TypeOK
<1> QED BY <1>1, SpecIInv, PTL

(***************************************************************************)
(* A mobile with commands left to execute is awake, or the next player who *)
(* comes wakes it (heart_beat, seq_restart).                               *)
(***************************************************************************)
THEOREM SequenceNeverForgotten == Spec => []NeverForgotten
<1>1. IInv => NeverForgotten
  BY DEF IInv
<1> QED BY <1>1, SpecIInv, PTL

(***************************************************************************)
(* A mobile with commands left to execute does not sleep beside a player   *)
(* but in the cases that missed tells (heart_beat, notify_meet_init).      *)
(***************************************************************************)
THEOREM SequenceSleepsAlone == Spec => []SleepsAlone
<1>1. IInv => SleepsAlone
  BY DEF IInv
<1> QED BY <1>1, SpecIInv, PTL

(***************************************************************************)
(* The sequences are the queues of Streams: a beat takes at most the first *)
(* command of each, and nothing is lost, repeated or done out of its order *)
(* (seq_addfirst, seq_addlast, seq_clear, process_commands).               *)
(***************************************************************************)
THEOREM SequenceInOrder == Spec => InOrder
<1>1. Init => Q!Init
  BY InitIInv
<1>2. IInv /\ [Next]_vars => [Q!Next]_Queues
  BY NextInv
<1>3. Queues = [n \in Names |-> Rest(npc, n)]
  BY DEF Queues
<1>4. IInv /\ [Next]_vars => [Q!Next]_([n \in Names |-> Rest(npc, n)])
  BY <1>2 DEF Queues
<1> QED BY <1>1, <1>4, SpecIInv, PTL DEF Spec, InOrder, Q!Spec
=============================================================================
