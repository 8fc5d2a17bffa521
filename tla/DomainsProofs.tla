--------------------------- MODULE DomainsProofs ---------------------------
(***************************************************************************)
(* Proofs about Domains (src/secure/master/fob.c), for any players,        *)
(* domains and limits.                                                     *)
(*                                                                         *)
(* The three tables travel through a command as one record, and the        *)
(* invariant is a predicate of that record, so that it can be said of what *)
(* is left after each step of a command, an error or not.  First comes     *)
(* what each step does to the record (SetRank, Vacate, Seat, ChangeRank,   *)
(* AddToDomain), then that each leaves sound books, then one lemma for     *)
(* each command, with an induction over the members for RemoveDomain.  The *)
(* offices come last: they agree with the ranks or not, domain by domain.  *)
(***************************************************************************)
EXTENDS Domains, Sums

\* the record, when it is well formed
Entry == [rank : Ranks, dom : DomainNames \cup {NoDomain}]
Ledger == [lord : Names \cup {Nobody}, steward : Names \cup {Nobody},
           members : SUBSET Names, max : Nat]
Books == [wizards : UNION {[D -> Entry] : D \in SUBSET Names},
          domains : UNION {[D -> Ledger] : D \in SUBSET DomainNames},
          applications : UNION {[D -> (SUBSET Names) \ {{}}] : D \in SUBSET DomainNames},
          error : BOOLEAN]

LEMMA OfficeFacts ==
  /\ DOMAIN Office = {LORD, STEWARD}
  /\ Office[LORD] = "lord"
  /\ Office[STEWARD] = "steward"
BY DEF Office, LORD, STEWARD

LEMMA BookFields ==
  ASSUME NEW b \in Books
  PROVE  /\ b = [wizards |-> b.wizards, domains |-> b.domains,
                 applications |-> b.applications, error |-> b.error]
         /\ b.wizards \in [DOMAIN b.wizards -> Entry]
         /\ DOMAIN b.wizards \subseteq Names
         /\ b.domains \in [DOMAIN b.domains -> Ledger]
         /\ DOMAIN b.domains \subseteq DomainNames
         /\ b.applications \in [DOMAIN b.applications -> (SUBSET Names) \ {{}}]
         /\ DOMAIN b.applications \subseteq DomainNames
         /\ b.error \in BOOLEAN
BY DEF Books

LEMMA BookMade ==
  ASSUME NEW b,
         b = [wizards |-> b.wizards, domains |-> b.domains,
              applications |-> b.applications, error |-> b.error],
         b.wizards \in [DOMAIN b.wizards -> Entry],
         DOMAIN b.wizards \subseteq Names,
         b.domains \in [DOMAIN b.domains -> Ledger],
         DOMAIN b.domains \subseteq DomainNames,
         b.applications \in [DOMAIN b.applications -> (SUBSET Names) \ {{}}],
         DOMAIN b.applications \subseteq DomainNames,
         b.error \in BOOLEAN
  PROVE  b \in Books
BY DEF Books

LEMMA SetRankFacts ==
  ASSUME NEW b \in Books, NEW w \in DOMAIN b.wizards, NEW r \in Ranks, ~b.error
  PROVE  LET c == SetRank(b, w, r) IN
         /\ c \in Books
         /\ c.wizards = [b.wizards EXCEPT ![w] = [rank |-> r, dom |-> b.wizards[w].dom]]
         /\ c.domains = b.domains /\ c.applications = b.applications /\ ~c.error
<1> DEFINE c == SetRank(b, w, r)
<1>1. b.wizards[w] = [rank |-> b.wizards[w].rank, dom |-> b.wizards[w].dom]
  BY BookFields DEF Entry
<1>2. c = [wizards |-> [b.wizards EXCEPT ![w] = [rank |-> r, dom |-> b.wizards[w].dom]],
           domains |-> b.domains, applications |-> b.applications, error |-> b.error]
  BY <1>1, BookFields DEF SetRank
<1>3. /\ c = [wizards |-> c.wizards, domains |-> c.domains,
               applications |-> c.applications, error |-> c.error]
      /\ c.wizards = [b.wizards EXCEPT ![w] = [rank |-> r, dom |-> b.wizards[w].dom]]
      /\ c.domains = b.domains /\ c.applications = b.applications /\ c.error = b.error
  BY <1>2
<1> HIDE DEF c
<1>4. c \in Books
  <2>1. /\ c.wizards \in [DOMAIN b.wizards -> Entry]
        /\ DOMAIN c.wizards = DOMAIN b.wizards
    BY <1>3, BookFields DEF Entry
  <2> QED BY <2>1, <1>3, BookFields, BookMade
<1> QED BY <1>3, <1>4 DEF c

\* w, or nobody, is put into the office of d that goes with r
Appointed(b, c, d, r, w) ==
  /\ c \in Books
  /\ c.wizards = b.wizards /\ c.applications = b.applications /\ c.error = b.error
  /\ DOMAIN c.domains = DOMAIN b.domains
  /\ \A x \in DOMAIN b.domains :
       /\ c.domains[x].lord = IF x = d /\ r = LORD THEN w ELSE b.domains[x].lord
       /\ c.domains[x].steward = IF x = d /\ r = STEWARD THEN w ELSE b.domains[x].steward
       /\ c.domains[x].members = b.domains[x].members
       /\ c.domains[x].max = b.domains[x].max

LEMMA AppointFacts ==
  ASSUME NEW b \in Books, NEW d \in DOMAIN b.domains, NEW r \in {LORD, STEWARD},
         NEW w \in Names \cup {Nobody}
  PROVE  Appointed(b, [b EXCEPT !.domains[d][Office[r]] = w], d, r, w)
<1> DEFINE c == [b EXCEPT !.domains[d][Office[r]] = w]
           l == b.domains[d]
           n == [lord |-> IF r = LORD THEN w ELSE l.lord,
                 steward |-> IF r = STEWARD THEN w ELSE l.steward,
                 members |-> l.members, max |-> l.max]
<1>1. l = [lord |-> l.lord, steward |-> l.steward, members |-> l.members, max |-> l.max]
  BY BookFields DEF Ledger
<1>2. [l EXCEPT ![Office[r]] = w] = n
  BY <1>1, OfficeFacts DEF LORD, STEWARD
<1>3. c = [wizards |-> b.wizards, domains |-> [b.domains EXCEPT ![d] = n],
           applications |-> b.applications, error |-> b.error]
  <2>1. c = [b EXCEPT !.domains = [b.domains EXCEPT ![d] = [l EXCEPT ![Office[r]] = w]]]
    BY BookFields
  <2> QED BY <2>1, <1>2, BookFields
<1>4. n \in Ledger
  BY BookFields DEF Ledger
<1>5. /\ c = [wizards |-> c.wizards, domains |-> c.domains,
               applications |-> c.applications, error |-> c.error]
      /\ c.wizards = b.wizards /\ c.applications = b.applications
      /\ c.error = b.error /\ c.domains = [b.domains EXCEPT ![d] = n]
  BY <1>3
<1> HIDE DEF c, n
<1>6. c \in Books
  <2>1. /\ c.domains \in [DOMAIN b.domains -> Ledger]
        /\ DOMAIN c.domains = DOMAIN b.domains
    BY <1>4, <1>5, BookFields
  <2> QED BY <2>1, <1>5, BookFields, BookMade
<1>7. /\ n.lord = (IF r = LORD THEN w ELSE l.lord)
      /\ n.steward = (IF r = STEWARD THEN w ELSE l.steward)
      /\ n.members = l.members /\ n.max = l.max
  BY DEF n
<1>8. \A x \in DOMAIN b.domains : c.domains[x] = IF x = d THEN n ELSE b.domains[x]
  BY <1>5
<1>9. Appointed(b, c, d, r, w)
  BY <1>5, <1>6, <1>7, <1>8 DEF Appointed
<1> QED BY <1>9 DEF c

\* What a step may do to the books without anybody coming or going.
Reranked(b, c) ==
  /\ c \in Books
  /\ DOMAIN c.wizards = DOMAIN b.wizards
  /\ \A x \in DOMAIN b.wizards : c.wizards[x].dom = b.wizards[x].dom
  /\ DOMAIN c.domains = DOMAIN b.domains
  /\ \A d \in DOMAIN b.domains : /\ c.domains[d].members = b.domains[d].members
                               /\ c.domains[d].max = b.domains[d].max
  /\ c.applications = b.applications

LEMMA FailFacts ==
  ASSUME NEW b \in Books
  PROVE  /\ Reranked(b, Fail(b)) /\ Fail(b).error
         /\ Fail(b).wizards = b.wizards /\ Fail(b).domains = b.domains
         /\ Fail(b).applications = b.applications
<1>1. Fail(b) = [wizards |-> b.wizards, domains |-> b.domains,
                 applications |-> b.applications, error |-> TRUE]
  <2>1. \A e \in BOOLEAN :
          [b EXCEPT !.error = e] = [wizards |-> b.wizards, domains |-> b.domains,
                                    applications |-> b.applications, error |-> e]
    BY DEF Books
  <2>2. TRUE \in BOOLEAN
    OBVIOUS
  <2> QED BY <2>1, <2>2, Zenon DEF Fail
<1> HIDE DEF Fail
<1> DEFINE c == Fail(b)
<1>2. /\ c = [wizards |-> c.wizards, domains |-> c.domains,
               applications |-> c.applications, error |-> c.error]
      /\ c.wizards = b.wizards /\ c.domains = b.domains
      /\ c.applications = b.applications /\ c.error
  BY <1>1
<1> HIDE DEF c
<1>3. c \in Books
  BY <1>2, BookFields, BookMade
<1>4. Reranked(b, c)
  BY <1>2, <1>3 DEF Reranked
<1> QED BY <1>2, <1>4 DEF c

\* The holder of an office gives up that of his own domain and rank, if any.
LEMMA VacateFacts ==
  ASSUME NEW b \in Books, NEW w
  PROVE  LET c == Vacate(b, w) IN
         /\ Reranked(b, c) /\ c.wizards = b.wizards
         /\ c.error => c.domains = b.domains
         /\ ~c.error => ~b.error /\ w \in DOMAIN b.wizards
<1> DEFINE r == b.wizards[w].rank
           d == b.wizards[w].dom
           e == [b EXCEPT !.domains[d][Office[r]] = Nobody]
<1>1. CASE b.error \/ w \notin DOMAIN b.wizards
  BY <1>1, FailFacts DEF Vacate
<1>2. CASE ~(b.error \/ w \notin DOMAIN b.wizards)
  <2>1. CASE r \notin DOMAIN Office
    BY <1>2, <2>1 DEF Vacate, Reranked
  <2>2. CASE r \in DOMAIN Office /\ d \notin DOMAIN b.domains
    BY <1>2, <2>2, FailFacts DEF Vacate
  <2>3. CASE r \in DOMAIN Office /\ d \in DOMAIN b.domains
    <3>1. Vacate(b, w) = e
      BY <1>2, <2>3 DEF Vacate
    <3>2. r \in {LORD, STEWARD}
      BY <2>3, OfficeFacts
    <3> HIDE DEF r, d
    <3>3. Appointed(b, e, d, r, Nobody)
      BY <2>3, <3>2, AppointFacts
    <3> HIDE DEF e
    <3>4. Reranked(b, e)
      BY <3>3 DEF Reranked, Appointed
    <3> QED BY <3>1, <3>3, <3>4, <1>2 DEF Appointed
  <2> QED BY <2>1, <2>2, <2>3
<1> QED BY <1>1, <1>2

\* SetRank, whether or not there has been an error before it.
LEMMA SetRankKeeps ==
  ASSUME NEW b \in Books, NEW w \in DOMAIN b.wizards, NEW r \in Ranks
  PROVE  LET c == SetRank(b, w, r) IN
         /\ Reranked(b, c) /\ c.error = b.error /\ c.domains = b.domains
         /\ \A x \in DOMAIN b.wizards :
              c.wizards[x].rank = IF x = w /\ ~b.error THEN r ELSE b.wizards[x].rank
<1>1. CASE b.error
  BY <1>1 DEF SetRank, Reranked
<1>2. CASE ~b.error
  <2> DEFINE c == SetRank(b, w, r)
  <2>1. /\ c \in Books
        /\ c.wizards = [b.wizards EXCEPT ![w] = [rank |-> r, dom |-> b.wizards[w].dom]]
        /\ c.domains = b.domains /\ c.applications = b.applications /\ ~c.error
    BY <1>2, SetRankFacts
  <2> HIDE DEF c
  <2>2. b.error \in BOOLEAN /\ c.error \in BOOLEAN
    BY <2>1, BookFields
  <2>3. c.error = b.error
    BY <1>2, <2>1, <2>2
  <2>4. /\ DOMAIN c.wizards = DOMAIN b.wizards
        /\ \A x \in DOMAIN b.wizards : c.wizards[x].dom = b.wizards[x].dom
        /\ \A x \in DOMAIN b.wizards :
              c.wizards[x].rank = IF x = w THEN r ELSE b.wizards[x].rank
    BY <2>1
  <2>5. Reranked(b, c)
    BY <2>1, <2>4 DEF Reranked
  <2> QED BY <1>2, <2>1, <2>3, <2>4, <2>5 DEF c
<1> QED BY <1>1, <1>2

\* Seat may demote the holder before to a normal wizard, and nobody else.
LEMMA SeatFacts ==
  ASSUME NEW b \in Books, NEW w \in DOMAIN b.wizards, NEW r \in {LORD, STEWARD}
  PROVE  LET c == Seat(b, w, r) IN
         /\ Reranked(b, c)
         /\ c.error => c.wizards = b.wizards
         /\ ~c.error => ~b.error /\ b.wizards[w].dom \in DOMAIN b.domains
         /\ \A x \in DOMAIN b.wizards :
              c.wizards[x].rank \in {b.wizards[x].rank, NORMAL}
<1> DEFINE d == b.wizards[w].dom
           old == b.domains[d][Office[r]]
           v == Vacate(b, old)
           c == IF old = Nobody THEN b ELSE SetRank(v, old, NORMAL)
           e == [c EXCEPT !.domains[d][Office[r]] = w]
<1>1. CASE b.error \/ d \notin DOMAIN b.domains
  BY <1>1, FailFacts DEF Seat
<1>2. CASE ~(b.error \/ d \notin DOMAIN b.domains)
  <2>1. Seat(b, w, r) = IF c.error THEN c ELSE e
    BY <1>2 DEF Seat
  <2>2. /\ Reranked(b, c)
        /\ c.error => c.wizards = b.wizards
        /\ \A x \in DOMAIN b.wizards :
              c.wizards[x].rank \in {b.wizards[x].rank, NORMAL}
    <3> HIDE DEF old
    <3>1. CASE old = Nobody
      BY <3>1, <1>2 DEF Reranked
    <3>2. CASE old # Nobody
      <4>1. /\ Reranked(b, v) /\ v.wizards = b.wizards
            /\ ~v.error => old \in DOMAIN b.wizards
        BY VacateFacts
      <4>2. c = SetRank(v, old, NORMAL)
        BY <3>2
      <4>3. v \in Books
        BY <4>1 DEF Reranked
      <4>4. NORMAL \in Ranks
        BY DEF NORMAL, Ranks, MORTAL, KEEPER
      <4> HIDE DEF v, c
      <4>5. CASE v.error
        <5>1. c = v
          BY <4>2, <4>5 DEF SetRank
        <5> QED BY <5>1, <4>1
      <4>6. CASE ~v.error
        <5>1. /\ Reranked(v, c) /\ c.error = v.error
              /\ \A x \in DOMAIN v.wizards :
                   c.wizards[x].rank = IF x = old /\ ~v.error THEN NORMAL ELSE v.wizards[x].rank
          BY <4>1, <4>2, <4>3, <4>4, <4>6, SetRankKeeps
        <5>2. Reranked(b, c)
          BY <5>1, <4>1 DEF Reranked
        <5> QED BY <5>1, <5>2, <4>1, <4>6
      <4> QED BY <4>5, <4>6
    <3> QED BY <3>1, <3>2
  <2>3. CASE c.error
    BY <2>1, <2>2, <2>3, <1>2
  <2>4. CASE ~c.error
    <3>1. c \in Books /\ d \in DOMAIN c.domains /\ w \in Names \cup {Nobody}
      BY <2>2, <1>2, BookFields DEF Reranked
    <3> HIDE DEF c, d, old, v
    <3>2. Appointed(c, e, d, r, w)
      BY <3>1, AppointFacts
    <3> HIDE DEF e
    <3>3. Reranked(c, e)
      BY <3>2 DEF Reranked, Appointed
    <3>4. Reranked(b, e)
      BY <3>3, <2>2 DEF Reranked
    <3>5. Seat(b, w, r) = e
      BY <2>1, <2>4
    <3>6. ~b.error /\ d \in DOMAIN b.domains
      BY <1>2
    <3> QED BY <3>2, <3>4, <3>5, <3>6, <2>2, <2>4 DEF d, Appointed
  <2> QED BY <2>3, <2>4
<1> QED BY <1>1, <1>2

(***************************************************************************)
(* ChangeRank as a whole: w gets the rank, others at most lose an office   *)
(* to him, and where there is an error he keeps what he had.               *)
(***************************************************************************)
LEMMA ChangeRankFacts ==
  ASSUME NEW b \in Books, NEW w \in DOMAIN b.wizards, NEW r \in Ranks
  PROVE  LET c == ChangeRank(b, w, r) IN
         /\ Reranked(b, c)
         /\ c.error => c.wizards = b.wizards
         /\ ~c.error => /\ ~b.error
                        /\ c.wizards[w].rank = r
                        /\ r \in {LORD, STEWARD} =>
                             b.wizards[w].dom \in DOMAIN b.domains
         /\ \A x \in DOMAIN b.wizards \ {w} :
              c.wizards[x].rank \in {b.wizards[x].rank, NORMAL}
<1> DEFINE v == Vacate(b, w)
           s == IF r \in DOMAIN Office THEN Seat(v, w, r) ELSE v
           c == ChangeRank(b, w, r)
<1>1. c = SetRank(s, w, r)
  BY DEF ChangeRank
<1>2. Reranked(b, v) /\ v.wizards = b.wizards /\ (~v.error => ~b.error)
  BY VacateFacts
<1>3. /\ Reranked(v, s)
      /\ s.error => s.wizards = v.wizards
      /\ ~s.error => /\ ~v.error
                     /\ r \in {LORD, STEWARD} => v.wizards[w].dom \in DOMAIN v.domains
      /\ \A x \in DOMAIN v.wizards :
           s.wizards[x].rank \in {v.wizards[x].rank, NORMAL}
  <2> HIDE DEF v
  <2>1. CASE r \in DOMAIN Office
    <3>1. r \in {LORD, STEWARD} /\ v \in Books /\ w \in DOMAIN v.wizards
      BY <2>1, <1>2, OfficeFacts DEF Reranked
    <3>2. s = Seat(v, w, r)
      BY <2>1
    <3> QED BY <3>1, <3>2, SeatFacts
  <2>2. CASE r \notin DOMAIN Office
    BY <2>2, <1>2, OfficeFacts DEF Reranked
  <2> QED BY <2>1, <2>2
<1>4. /\ Reranked(s, c) /\ c.error = s.error
      /\ \A x \in DOMAIN s.wizards :
           c.wizards[x].rank = IF x = w /\ ~s.error THEN r ELSE s.wizards[x].rank
      /\ s.error => c = s
  <2> HIDE DEF v, s, c
  <2>1. s \in Books /\ w \in DOMAIN s.wizards
    BY <1>2, <1>3 DEF Reranked
  <2>2. s.error => c = s
    BY <1>1 DEF SetRank
  <2> QED BY <2>1, <2>2, <1>1, SetRankKeeps
<1> HIDE DEF v, s, c
<1>5. Reranked(b, c)
  BY <1>2, <1>3, <1>4 DEF Reranked
<1>6. DOMAIN v.wizards = DOMAIN b.wizards /\ DOMAIN s.wizards = DOMAIN b.wizards
      /\ DOMAIN v.domains = DOMAIN b.domains
  BY <1>2, <1>3 DEF Reranked
<1> QED BY <1>2, <1>3, <1>4, <1>5, <1>6 DEF c

LEMMA WithdrawnFacts ==
  ASSUME NEW a, a \in [DOMAIN a -> (SUBSET Names) \ {{}}],
         DOMAIN a \subseteq DomainNames, NEW w
  PROVE  LET c == Withdrawn(a, w) IN
         /\ c \in [DOMAIN c -> (SUBSET Names) \ {{}}]
         /\ DOMAIN c \subseteq DOMAIN a
         /\ \A d \in DOMAIN c : c[d] \subseteq a[d] \ {w}
BY DEF Withdrawn
-----------------------------------------------------------------------------
RankOf(b, x) == IF x \in DOMAIN b.wizards THEN b.wizards[x].rank ELSE MORTAL
DomOf(b, x) == IF x \in DOMAIN b.wizards THEN b.wizards[x].dom ELSE NoDomain

\* the invariants about membership, said of books
Listed(b) ==
  \A x \in Names :
    /\ \A d \in DOMAIN b.domains : x \in b.domains[d].members => DomOf(b, x) = d
    /\ \/ DomOf(b, x) = NoDomain \/ x = "danne"
       \/ /\ DomOf(b, x) \in DOMAIN b.domains
          /\ x \in b.domains[DomOf(b, x)].members
Uncrowded(b) ==
  \A d \in DOMAIN b.domains \ {WIZARD_DOMAIN} :
    Cardinality(b.domains[d].members) <= b.domains[d].max
Applied(b) ==
  \A d \in DOMAIN b.applications :
    \A x \in b.applications[d] : DomOf(b, x) \in {NoDomain, WIZARD_DOMAIN}

Core(b) ==
  /\ b \in Books
  /\ WIZARD_DOMAIN \in DOMAIN b.domains
  /\ \A d \in DOMAIN b.domains : IsFiniteSet(b.domains[d].members)
  /\ Listed(b)
  /\ Uncrowded(b)
  /\ Applied(b)

LEMMA RerankedCore ==
  ASSUME NEW b, NEW c, Core(b), Reranked(b, c)
  PROVE  Core(c)
<1>1. \A x : DomOf(c, x) = DomOf(b, x)
  BY DEF Reranked, DomOf
<1>2. \A d \in DOMAIN b.domains : /\ c.domains[d].members = b.domains[d].members
                               /\ c.domains[d].max = b.domains[d].max
  BY DEF Reranked
<1>3. DOMAIN c.domains = DOMAIN b.domains /\ c \in Books /\ c.applications = b.applications
  BY DEF Reranked
<1>4. Listed(c)
  BY <1>1, <1>2, <1>3 DEF Core, Listed
<1>5. Uncrowded(c)
  BY <1>2, <1>3 DEF Core, Uncrowded
<1>6. Applied(c)
  BY <1>1, <1>3 DEF Core, Applied
<1> QED BY <1>2, <1>3, <1>4, <1>5, <1>6 DEF Core

LEMMA NoDomainIsNone == NoDomain \notin DomainNames /\ WIZARD_DOMAIN \in DomainNames
BY ConstantsAssumption DEF NoDomain, DomainNames, WIZARD_DOMAIN

\* The entry of one wizard gets another domain.
LEMMA MovedFacts ==
  ASSUME NEW b \in Books, NEW w \in DOMAIN b.wizards,
         NEW to \in DomainNames \cup {NoDomain}
  PROVE  LET c == [b EXCEPT !.wizards[w].dom = to] IN
         /\ c \in Books
         /\ DOMAIN c.wizards = DOMAIN b.wizards
         /\ \A x \in DOMAIN b.wizards :
              /\ c.wizards[x].rank = b.wizards[x].rank
              /\ c.wizards[x].dom = IF x = w THEN to ELSE b.wizards[x].dom
         /\ c.domains = b.domains /\ c.applications = b.applications
         /\ c.error = b.error
<1> DEFINE c == [b EXCEPT !.wizards[w].dom = to]
           n == [rank |-> b.wizards[w].rank, dom |-> to]
<1>1. b.wizards[w] = [rank |-> b.wizards[w].rank, dom |-> b.wizards[w].dom]
  BY BookFields DEF Entry
<1>2. c = [wizards |-> [b.wizards EXCEPT ![w] = n],
           domains |-> b.domains, applications |-> b.applications, error |-> b.error]
  BY <1>1, BookFields
<1>3. /\ c = [wizards |-> c.wizards, domains |-> c.domains,
               applications |-> c.applications, error |-> c.error]
      /\ c.wizards = [b.wizards EXCEPT ![w] = n]
      /\ c.domains = b.domains /\ c.applications = b.applications /\ c.error = b.error
  BY <1>2
<1>4. n \in Entry /\ n.rank = b.wizards[w].rank /\ n.dom = to
  BY BookFields DEF Entry
<1> HIDE DEF c, n
<1>5. c \in Books
  <2>1. /\ c.wizards \in [DOMAIN b.wizards -> Entry]
        /\ DOMAIN c.wizards = DOMAIN b.wizards
    BY <1>3, <1>4, BookFields
  <2> QED BY <2>1, <1>3, BookFields, BookMade
<1>6. \A x \in DOMAIN b.wizards : c.wizards[x] = IF x = w THEN n ELSE b.wizards[x]
  BY <1>3
<1> QED BY <1>3, <1>4, <1>5, <1>6 DEF c

\* The list of one domain gets other members.
Relisted(b, c, d, ms) ==
  /\ c \in Books
  /\ c.wizards = b.wizards /\ c.applications = b.applications
  /\ c.error = b.error
  /\ DOMAIN c.domains = DOMAIN b.domains
  /\ \A x \in DOMAIN b.domains :
       /\ c.domains[x].lord = b.domains[x].lord
       /\ c.domains[x].steward = b.domains[x].steward
       /\ c.domains[x].max = b.domains[x].max
       /\ c.domains[x].members = IF x = d THEN ms ELSE b.domains[x].members

LEMMA RelistedFacts ==
  ASSUME NEW b \in Books, NEW d \in DOMAIN b.domains, NEW ms \in SUBSET Names
  PROVE  Relisted(b, [b EXCEPT !.domains[d].members = ms], d, ms)
<1> DEFINE c == [b EXCEPT !.domains[d].members = ms]
           l == b.domains[d]
           n == [lord |-> l.lord, steward |-> l.steward, members |-> ms, max |-> l.max]
<1>1. l = [lord |-> l.lord, steward |-> l.steward, members |-> l.members, max |-> l.max]
  BY BookFields DEF Ledger
<1>2. c = [wizards |-> b.wizards, domains |-> [b.domains EXCEPT ![d] = n],
           applications |-> b.applications, error |-> b.error]
  BY <1>1, BookFields
<1>3. /\ c = [wizards |-> c.wizards, domains |-> c.domains,
               applications |-> c.applications, error |-> c.error]
      /\ c.wizards = b.wizards /\ c.applications = b.applications
      /\ c.error = b.error /\ c.domains = [b.domains EXCEPT ![d] = n]
  BY <1>2
<1>4. /\ n \in Ledger
      /\ n.lord = l.lord /\ n.steward = l.steward /\ n.max = l.max /\ n.members = ms
  BY BookFields DEF Ledger
<1> HIDE DEF c, n
<1>5. c \in Books
  <2>1. /\ c.domains \in [DOMAIN b.domains -> Ledger]
        /\ DOMAIN c.domains = DOMAIN b.domains
    BY <1>3, <1>4, BookFields
  <2> QED BY <2>1, <1>3, BookFields, BookMade
<1>6. \A x \in DOMAIN b.domains : c.domains[x] = IF x = d THEN n ELSE b.domains[x]
  BY <1>3
<1>7. Relisted(b, c, d, ms)
  BY <1>3, <1>4, <1>5, <1>6 DEF Relisted
<1> QED BY <1>7 DEF c

Destination(b, dname, w) ==
  IF dname = NoDomain /\ Lasting(b.wizards[w].rank) THEN WIZARD_DOMAIN ELSE dname

(***************************************************************************)
(* What AddToDomain does to the books, error or not: w is said to be in    *)
(* the domain he goes to, and is taken from and put on the lists.          *)
(***************************************************************************)
Rehoused(b, c, to, w) ==
  /\ c \in Books
  /\ DOMAIN c.wizards = DOMAIN b.wizards
  /\ \A x \in DOMAIN b.wizards :
       /\ c.wizards[x].rank = b.wizards[x].rank
       /\ c.wizards[x].dom = IF x = w THEN to ELSE b.wizards[x].dom
  /\ DOMAIN c.domains = DOMAIN b.domains
  /\ \A d \in DOMAIN b.domains :
       /\ c.domains[d].lord = b.domains[d].lord
       /\ c.domains[d].steward = b.domains[d].steward
       /\ c.domains[d].max = b.domains[d].max

LEMMA AddToDomainFacts ==
  ASSUME NEW b \in Books, ~b.error, NEW w \in DOMAIN b.wizards,
         WIZARD_DOMAIN \in DOMAIN b.domains,
         NEW dname \in DOMAIN b.domains \cup {NoDomain}
  PROVE  LET from == b.wizards[w].dom
             to == Destination(b, dname, w)
             c == AddToDomain(b, dname, w) IN
         /\ Rehoused(b, c, to, w)
         /\ c.error => /\ from # NoDomain /\ from \notin DOMAIN b.domains
                       /\ c.domains = b.domains /\ c.applications = b.applications
         /\ ~c.error =>
              /\ from = NoDomain \/ from \in DOMAIN b.domains
              /\ \A d \in DOMAIN b.domains :
                   c.domains[d].members =
                     (b.domains[d].members \ (IF d = from THEN {w} ELSE {}))
                       \cup (IF d = to THEN {w} ELSE {})
              /\ IF to = NoDomain THEN c.applications = b.applications
                 ELSE c.applications = Withdrawn(b.applications, w)
<1> DEFINE from == b.wizards[w].dom
           to == Destination(b, dname, w)
           moved == [b EXCEPT !.wizards[w].dom = to]
           gone == IF from = NoDomain THEN moved
                   ELSE [moved EXCEPT !.domains[from].members = @ \ {w}]
           a == Withdrawn(gone.applications, w)
           final == [gone EXCEPT !.domains[to].members = @ \cup {w},
                                 !.applications = Withdrawn(@, w)]
           c == AddToDomain(b, dname, w)
<1>1. c = IF from # NoDomain /\ from \notin DOMAIN b.domains THEN Fail(moved)
          ELSE IF to = NoDomain THEN gone ELSE final
  BY DEF AddToDomain, Destination
<1>2. to \in DOMAIN b.domains \cup {NoDomain} /\ to \in DomainNames \cup {NoDomain}
  BY BookFields, NoDomainIsNone DEF Destination
<1> HIDE DEF to
<1>3. /\ Rehoused(b, moved, to, w)
      /\ moved.domains = b.domains /\ moved.applications = b.applications
      /\ ~moved.error
  BY <1>2, MovedFacts DEF Rehoused
<1>4. CASE from # NoDomain /\ from \notin DOMAIN b.domains
  <2>1. c = Fail(moved)
    <3> HIDE DEF c, moved, gone, final, from
    <3> QED BY <1>1, <1>4
  <2>2. moved \in Books
    BY <1>3 DEF Rehoused
  <2> HIDE DEF moved, c
  <2>3. /\ Fail(moved) \in Books /\ Fail(moved).error
        /\ Fail(moved).wizards = moved.wizards /\ Fail(moved).domains = moved.domains
        /\ Fail(moved).applications = moved.applications
    BY <2>2, FailFacts DEF Reranked
  <2>4. Rehoused(b, c, to, w)
    BY <1>3, <2>1, <2>3 DEF Rehoused
  <2> QED BY <1>3, <1>4, <2>1, <2>3, <2>4 DEF to, c
<1>5. CASE from = NoDomain \/ from \in DOMAIN b.domains
  <2>1. c = IF to = NoDomain THEN gone ELSE final
    <3> HIDE DEF c, moved, gone, final, from
    <3> QED BY <1>1, <1>5
  <2>2. /\ Rehoused(b, gone, to, w)
        /\ \A d \in DOMAIN b.domains :
             gone.domains[d].members =
               b.domains[d].members \ (IF d = from THEN {w} ELSE {})
        /\ gone.applications = b.applications
        /\ ~gone.error
    <3>1. CASE from = NoDomain
      BY <3>1, <1>3, BookFields, NoDomainIsNone
    <3>2. CASE from # NoDomain
      <4> DEFINE ms == moved.domains[from].members \ {w}
                 g == [moved EXCEPT !.domains[from].members = ms]
      <4>1. gone = g
        BY <3>2
      <4>2. moved \in Books /\ from \in DOMAIN moved.domains
        BY <1>3, <1>5, <3>2 DEF Rehoused
      <4> HIDE DEF moved, from, gone
      <4>3. ms \in SUBSET Names
        BY <4>2, BookFields DEF Ledger
      <4> HIDE DEF ms
      <4>4. Relisted(moved, g, from, ms)
        BY <4>2, <4>3, RelistedFacts, Zenon
      <4> HIDE DEF g
      <4>5. Rehoused(b, g, to, w)
        BY <4>4, <1>3 DEF Rehoused, Relisted
      <4>6. \A d \in DOMAIN b.domains :
             g.domains[d].members = b.domains[d].members \ (IF d = from THEN {w} ELSE {})
        BY <4>4, <1>3 DEF ms, Relisted
      <4> QED BY <4>1, <4>4, <4>5, <4>6, <1>3 DEF Relisted
    <3> QED BY <3>1, <3>2
  <2>3. CASE to = NoDomain
    <3>1. c = gone
      BY <2>1, <2>3
    <3> HIDE DEF c, gone
    <3>2. \A d \in DOMAIN b.domains : d # to
      BY <2>3, BookFields, NoDomainIsNone
    <3>3. \A d \in DOMAIN b.domains :
             c.domains[d].members =
               (b.domains[d].members \ (IF d = from THEN {w} ELSE {}))
                 \cup (IF d = to THEN {w} ELSE {})
      BY <2>2, <3>1, <3>2
    <3>4. Rehoused(b, c, to, w) /\ ~c.error /\ c.applications = b.applications
      BY <2>2, <3>1
    <3> QED BY <3>3, <3>4, <1>5, <2>3 DEF c, to
  <2>4. CASE to # NoDomain
    <3>1. c = final
      BY <2>1, <2>4
    <3> DEFINE ms == gone.domains[to].members \cup {w}
               g == [gone EXCEPT !.domains[to].members = ms]
    <3>2. gone \in Books /\ to \in DOMAIN gone.domains
      BY <2>2, <2>4, <1>2 DEF Rehoused
    <3>3. ms \in SUBSET Names
      <4> HIDE DEF gone
      <4> QED BY <3>2, BookFields DEF Ledger
    <3> HIDE DEF gone, ms
    <3>4. Relisted(gone, g, to, ms)
      BY <3>2, <3>3, RelistedFacts, Zenon
    <3>5. final = [wizards |-> g.wizards, domains |-> g.domains,
                   applications |-> a, error |-> g.error]
      <4>1. final = [g EXCEPT !.applications = a]
        BY <3>2, BookFields DEF ms
      <4> HIDE DEF final, g, a
      <4>2. g = [wizards |-> g.wizards, domains |-> g.domains,
                 applications |-> g.applications, error |-> g.error]
        BY <3>4, BookFields DEF Relisted
      <4> QED BY <4>1, <4>2
    <3>6. /\ a \in [DOMAIN a -> (SUBSET Names) \ {{}}]
          /\ DOMAIN a \subseteq DomainNames
      <4> HIDE DEF g, final, c
      <4>1. /\ gone.applications \in [DOMAIN gone.applications -> (SUBSET Names) \ {{}}]
            /\ DOMAIN gone.applications \subseteq DomainNames
        BY <3>2, BookFields
      <4> QED BY <4>1, WithdrawnFacts
    <3> HIDE DEF g, final, a, c
    <3>7. /\ c = [wizards |-> c.wizards, domains |-> c.domains,
                  applications |-> c.applications, error |-> c.error]
          /\ c.wizards = g.wizards /\ c.domains = g.domains
          /\ c.applications = a /\ c.error = g.error
      BY <3>1, <3>5
    <3>8. c \in Books
      BY <3>4, <3>6, <3>7, BookFields, BookMade DEF Relisted
    <3>9. Rehoused(b, c, to, w)
      BY <3>4, <3>7, <3>8, <2>2 DEF Rehoused, Relisted
    <3>10. \A d \in DOMAIN b.domains :
             c.domains[d].members =
               (b.domains[d].members \ (IF d = from THEN {w} ELSE {}))
                 \cup (IF d = to THEN {w} ELSE {})
      <4>1. DOMAIN gone.domains = DOMAIN b.domains
        BY <2>2 DEF Rehoused
      <4> HIDE DEF from
      <4> QED BY <4>1, <3>4, <3>7, <2>2 DEF ms, Relisted
    <3>11. ~c.error /\ c.applications = Withdrawn(b.applications, w)
      BY <3>4, <3>7, <2>2 DEF a, Relisted
    <3> QED BY <3>9, <3>10, <3>11, <1>5, <2>4 DEF c, to
  <2> QED BY <2>3, <2>4
<1> QED BY <1>4, <1>5

LEMMA RehousedNames ==
  ASSUME NEW b, NEW c, NEW to, NEW w \in DOMAIN b.wizards, Rehoused(b, c, to, w)
  PROVE  /\ \A x : RankOf(c, x) = RankOf(b, x)
         /\ \A x : x # w => DomOf(c, x) = DomOf(b, x)
         /\ DomOf(c, w) = to
BY DEF Rehoused, RankOf, DomOf

(***************************************************************************)
(* Nobody is listed twice or lost by a move, and no domain is crowded by   *)
(* it that has room.                                                       *)
(***************************************************************************)
LEMMA AddToDomainCore ==
  ASSUME NEW b, Core(b), ~b.error, NEW w \in DOMAIN b.wizards,
         NEW dname \in DOMAIN b.domains \cup {NoDomain},
         dname \in {NoDomain, WIZARD_DOMAIN}
           \/ Cardinality(b.domains[dname].members) < b.domains[dname].max
  PROVE  Core(AddToDomain(b, dname, w))
<1> DEFINE from == b.wizards[w].dom
           to == Destination(b, dname, w)
           c == AddToDomain(b, dname, w)
<1>1. b \in Books /\ WIZARD_DOMAIN \in DOMAIN b.domains
  BY DEF Core
<1>2. /\ Rehoused(b, c, to, w)
      /\ c.error => /\ from # NoDomain /\ from \notin DOMAIN b.domains
                    /\ c.domains = b.domains /\ c.applications = b.applications
      /\ ~c.error =>
           /\ from = NoDomain \/ from \in DOMAIN b.domains
           /\ \A d \in DOMAIN b.domains :
                c.domains[d].members =
                  (b.domains[d].members \ (IF d = from THEN {w} ELSE {}))
                    \cup (IF d = to THEN {w} ELSE {})
           /\ IF to = NoDomain THEN c.applications = b.applications
              ELSE c.applications = Withdrawn(b.applications, w)
  BY <1>1, AddToDomainFacts
<1>3. to \in {dname, WIZARD_DOMAIN}
  BY DEF Destination
<1>4. w \in Names /\ DomOf(b, w) = from
  BY <1>1, BookFields DEF DomOf
<1>5. \A d \in DOMAIN b.domains : d # NoDomain
  BY <1>1, BookFields, NoDomainIsNone
<1> HIDE DEF from, to, c
<1>6. /\ c \in Books /\ DOMAIN c.domains = DOMAIN b.domains
      /\ \A d \in DOMAIN b.domains : c.domains[d].max = b.domains[d].max
      /\ \A x : x # w => DomOf(c, x) = DomOf(b, x)
      /\ DomOf(c, w) = to
  BY <1>2, RehousedNames DEF Rehoused
<1>7. CASE c.error
  <2>1. w = "danne" /\ \A d \in DOMAIN b.domains : w \notin b.domains[d].members
    BY <1>2, <1>4, <1>7 DEF Core, Listed
  <2>2. Listed(c)
    BY <1>2, <1>6, <1>7, <2>1 DEF Core, Listed
  <2>3. Uncrowded(c)
    BY <1>2, <1>7 DEF Core, Uncrowded
  <2>4. \A d \in DOMAIN b.applications : w \notin b.applications[d]
    BY <1>1, <1>2, <1>4, <1>7 DEF Core, Applied
  <2>5. Applied(c)
    BY <1>2, <1>6, <1>7, <2>4 DEF Core, Applied
  <2>6. Core(c)
    BY <1>2, <1>6, <1>7, <2>2, <2>3, <2>5 DEF Core
  <2> QED BY <2>6 DEF c
<1>8. CASE ~c.error
  <2>1. \A d \in DOMAIN b.domains :
          /\ \A x : x # w => (x \in c.domains[d].members <=> x \in b.domains[d].members)
          /\ w \in c.domains[d].members <=> d = to
    BY <1>2, <1>4, <1>8 DEF Core, Listed
  <2>2. Listed(c)
    <3> SUFFICES ASSUME NEW x \in Names
                 PROVE  /\ \A d \in DOMAIN c.domains :
                             x \in c.domains[d].members => DomOf(c, x) = d
                        /\ \/ DomOf(c, x) = NoDomain \/ x = "danne"
                           \/ /\ DomOf(c, x) \in DOMAIN c.domains
                              /\ x \in c.domains[DomOf(c, x)].members
      BY DEF Listed
    <3>1. CASE x = w
      BY <1>1, <1>3, <1>6, <2>1, <3>1
    <3>2. CASE x # w
      BY <1>6, <2>1, <3>2 DEF Core, Listed
    <3> QED BY <3>1, <3>2
  <2>3. \A d \in DOMAIN b.domains :
          /\ d # to => c.domains[d].members \subseteq b.domains[d].members
          /\ c.domains[d].members \subseteq b.domains[d].members \cup {w}
    BY <2>1
  <2>4. ASSUME NEW d \in DOMAIN b.domains
        PROVE  /\ IsFiniteSet(c.domains[d].members)
               /\ d # WIZARD_DOMAIN =>
                    Cardinality(c.domains[d].members) <= b.domains[d].max
    <3> DEFINE old == b.domains[d].members
               new == c.domains[d].members
    <3>1. IsFiniteSet(old)
      BY DEF Core
    <3>2. /\ Cardinality(old) \in Nat /\ b.domains[d].max \in Nat
      BY <1>1, <3>1, FS_CardinalityType, BookFields DEF Ledger
    <3>3. d # to => new \subseteq old
      BY <2>3
    <3>4. new \subseteq old \cup {w}
      BY <2>3
    <3>5. d # WIZARD_DOMAIN => Cardinality(old) <= b.domains[d].max
      BY DEF Core, Uncrowded
    <3>6. d # WIZARD_DOMAIN /\ d = to => Cardinality(old) < b.domains[d].max
      BY <1>3, <1>5
    <3> HIDE DEF old, new
    <3>7. /\ IsFiniteSet(old \cup {w})
          /\ Cardinality(old \cup {w}) <= Cardinality(old) + 1
      <4>1. /\ IsFiniteSet(old \cup {w})
            /\ Cardinality(old \cup {w}) =
                 IF w \in old THEN Cardinality(old) ELSE Cardinality(old) + 1
        BY <3>1, FS_AddElement
      <4> QED BY <4>1, <3>2
    <3>8. /\ IsFiniteSet(new) /\ Cardinality(new) \in Nat
          /\ Cardinality(new) <= Cardinality(old \cup {w})
      <4>1. IsFiniteSet(new) /\ Cardinality(new) <= Cardinality(old \cup {w})
        BY <3>4, <3>7, FS_Subset
      <4> QED BY <4>1, FS_CardinalityType
    <3>9. d # to => Cardinality(new) <= Cardinality(old)
      BY <3>1, <3>3, FS_Subset
    <3>10. Cardinality(old \cup {w}) \in Nat
      BY <3>7, FS_CardinalityType
    <3>11. d # WIZARD_DOMAIN => Cardinality(new) <= b.domains[d].max
      BY <3>2, <3>5, <3>6, <3>7, <3>8, <3>9, <3>10
    <3> QED BY <3>8, <3>11 DEF new
  <2>5. Uncrowded(c)
    BY <1>6, <2>4 DEF Uncrowded
  <2>6. Applied(c)
    <3>1. CASE to = NoDomain
      BY <1>2, <1>6, <1>8, <3>1 DEF Core, Applied
    <3>2. CASE to # NoDomain
      <4>1. c.applications = Withdrawn(b.applications, w)
        BY <1>2, <1>8, <3>2
      <4>2. /\ DOMAIN c.applications \subseteq DOMAIN b.applications
            /\ \A d \in DOMAIN c.applications :
                 c.applications[d] \subseteq b.applications[d] \ {w}
        <5>1. /\ b.applications \in [DOMAIN b.applications -> (SUBSET Names) \ {{}}]
              /\ DOMAIN b.applications \subseteq DomainNames
          BY <1>1, BookFields
        <5> QED BY <4>1, <5>1, WithdrawnFacts
      <4> QED BY <4>2, <1>6 DEF Core, Applied
    <3> QED BY <3>1, <3>2
  <2>7. Core(c)
    BY <1>1, <1>6, <2>2, <2>4, <2>5, <2>6 DEF Core
  <2> QED BY <2>7 DEF c
<1> QED BY <1>7, <1>8
-----------------------------------------------------------------------------
\* who has an office is in some domain, and who is not a full wizard in none
Titled(b) ==
  \A x \in Names : RankOf(b, x) \in {LORD, STEWARD} => DomOf(b, x) # NoDomain
Homeless(b, x) ==
  x # "danne" /\ RankOf(b, x) < NORMAL => DomOf(b, x) = NoDomain

Sound(b) == Core(b) /\ Titled(b) /\ \A x \in Names : Homeless(b, x)

LEMMA RankFacts ==
  /\ \A r \in {MORTAL, APPRENTICE, PILGRIM, RETIRED} :
       r \in Ranks /\ r < NORMAL /\ r \notin {LORD, STEWARD} /\ ~Lasting(r)
  /\ \A r \in Ranks : Lasting(r) => ~(r < NORMAL) /\ r \notin {LORD, STEWARD}
  /\ \A r \in Ranks : r < NORMAL => r \in {MORTAL, APPRENTICE, PILGRIM, RETIRED}
  /\ NORMAL \in Ranks /\ ~(NORMAL < NORMAL) /\ NORMAL \notin {LORD, STEWARD}
  /\ MORTAL \in Ranks /\ LORD \in Ranks /\ ~(LORD < NORMAL)
BY DEF Ranks, Lasting, MORTAL, APPRENTICE, PILGRIM, RETIRED, NORMAL, MAGE, STEWARD,
       LORD, ARCH, KEEPER

LEMMA RankOfType ==
  ASSUME NEW b \in Books, NEW x
  PROVE  RankOf(b, x) \in Ranks /\ DomOf(b, x) \in DomainNames \cup {NoDomain}
BY BookFields, RankFacts DEF RankOf, DomOf, Entry

\* Another rank: what is still to be shown of w depends on the rank he got.
LEMMA ChangeRankSound ==
  ASSUME NEW b, Core(b), Titled(b), NEW w \in DOMAIN b.wizards, NEW r \in Ranks,
         \A x \in Names \ {w} : Homeless(b, x)
  PROVE  LET c == ChangeRank(b, w, r) IN
         /\ Core(c) /\ Titled(c)
         /\ \A x \in Names \ {w} : Homeless(c, x)
         /\ c.error /\ Homeless(b, w) => Sound(c)
         /\ ~c.error /\ ~(r < NORMAL) => Sound(c)
         /\ ~c.error => ~b.error /\ RankOf(c, w) = r
         /\ DOMAIN c.wizards = DOMAIN b.wizards /\ DOMAIN c.domains = DOMAIN b.domains
         /\ \A x : DomOf(c, x) = DomOf(b, x)
<1> DEFINE c == ChangeRank(b, w, r)
<1>1. b \in Books
  BY DEF Core
<1>2. /\ Reranked(b, c)
      /\ c.error => c.wizards = b.wizards
      /\ ~c.error => /\ ~b.error
                     /\ c.wizards[w].rank = r
                     /\ r \in {LORD, STEWARD} => b.wizards[w].dom \in DOMAIN b.domains
      /\ \A x \in DOMAIN b.wizards \ {w} :
           c.wizards[x].rank \in {b.wizards[x].rank, NORMAL}
  BY <1>1, ChangeRankFacts
<1> HIDE DEF c
<1>3. Core(c)
  BY <1>2, RerankedCore
<1>4. /\ DOMAIN c.wizards = DOMAIN b.wizards /\ DOMAIN c.domains = DOMAIN b.domains
      /\ \A x : DomOf(c, x) = DomOf(b, x)
  BY <1>2 DEF Reranked, DomOf
<1>5. /\ \A x : x # w => RankOf(c, x) \in {RankOf(b, x), NORMAL}
      /\ c.error => RankOf(c, w) = RankOf(b, w)
      /\ ~c.error => RankOf(c, w) = r
  BY <1>2, <1>4 DEF RankOf
<1>6. r \in {LORD, STEWARD} /\ ~c.error => DomOf(b, w) # NoDomain
  BY <1>1, <1>2, BookFields, NoDomainIsNone DEF DomOf
<1>7. Titled(c)
  <2> SUFFICES ASSUME NEW x \in Names, RankOf(c, x) \in {LORD, STEWARD}
               PROVE  DomOf(b, x) # NoDomain
    BY <1>4 DEF Titled
  <2> QED BY <1>5, <1>6, RankFacts DEF Titled
<1>8. \A x \in Names \ {w} : Homeless(c, x)
  BY <1>4, <1>5, RankFacts DEF Homeless
<1>9. /\ c.error /\ Homeless(b, w) => Homeless(c, w)
      /\ ~c.error /\ ~(r < NORMAL) => Homeless(c, w)
  BY <1>4, <1>5 DEF Homeless
<1>10. w \in Names
  BY <1>1, BookFields
<1>11. /\ c.error /\ Homeless(b, w) => Sound(c)
       /\ ~c.error /\ ~(r < NORMAL) => Sound(c)
  BY <1>3, <1>7, <1>8, <1>9, <1>10 DEF Sound
<1> QED BY <1>2, <1>3, <1>4, <1>5, <1>7, <1>8, <1>11 DEF c

\* the same from books that are sound
LEMMA ChangeRankOfSound ==
  ASSUME NEW b, Sound(b), NEW w \in DOMAIN b.wizards, NEW r \in Ranks
  PROVE  LET c == ChangeRank(b, w, r) IN
         /\ Core(c) /\ Titled(c)
         /\ \A x \in Names \ {w} : Homeless(c, x)
         /\ c.error => Sound(c)
         /\ ~(r < NORMAL) => Sound(c)
         /\ ~c.error => ~b.error /\ RankOf(c, w) = r
         /\ DOMAIN c.wizards = DOMAIN b.wizards /\ DOMAIN c.domains = DOMAIN b.domains
         /\ \A x : DomOf(c, x) = DomOf(b, x)
<1>1. w \in Names
  BY BookFields DEF Sound, Core
<1>2. Core(b) /\ Titled(b) /\ \A x \in Names : Homeless(b, x)
  BY DEF Sound
<1> QED BY <1>1, <1>2, ChangeRankSound

\* AddToDomain with somebody who may be where he goes.
LEMMA AddToDomainSound ==
  ASSUME NEW b, Core(b), Titled(b), ~b.error, NEW w \in DOMAIN b.wizards,
         \A x \in Names \ {w} : Homeless(b, x),
         NEW dname \in DOMAIN b.domains \cup {NoDomain},
         dname \in {NoDomain, WIZARD_DOMAIN}
           \/ Cardinality(b.domains[dname].members) < b.domains[dname].max,
         RankOf(b, w) \in {LORD, STEWARD} => dname # NoDomain,
         RankOf(b, w) < NORMAL => dname = NoDomain
  PROVE  Sound(AddToDomain(b, dname, w))
<1> DEFINE to == Destination(b, dname, w)
           c == AddToDomain(b, dname, w)
<1>1. b \in Books /\ WIZARD_DOMAIN \in DOMAIN b.domains
  BY DEF Core
<1>2. Core(c)
  BY AddToDomainCore
<1>3. Rehoused(b, c, to, w)
  BY <1>1, AddToDomainFacts
<1>4. RankOf(b, w) = b.wizards[w].rank /\ RankOf(b, w) \in Ranks
  BY <1>1, RankOfType DEF RankOf
<1>5. to = IF dname = NoDomain /\ Lasting(RankOf(b, w)) THEN WIZARD_DOMAIN ELSE dname
  BY <1>4 DEF Destination
<1> HIDE DEF to, c
<1>6. /\ \A x : RankOf(c, x) = RankOf(b, x)
      /\ \A x : x # w => DomOf(c, x) = DomOf(b, x)
      /\ DomOf(c, w) = to
  BY <1>3, RehousedNames
<1>7. RankOf(b, w) \in {LORD, STEWARD} => to # NoDomain
  BY <1>4, <1>5, NoDomainIsNone
<1>8. RankOf(b, w) < NORMAL => to = NoDomain
  BY <1>4, <1>5, RankFacts
<1>9. Titled(c)
  BY <1>6, <1>7 DEF Titled
<1>10. \A x \in Names : Homeless(c, x)
  BY <1>6, <1>8 DEF Homeless
<1> QED BY <1>2, <1>9, <1>10 DEF Sound, c

\* Who is demoted and sent out of his domain, in this order.
Dismissed(b, w, r) == AddToDomain(ChangeRank(b, w, r), NoDomain, w)

LEMMA DismissedSound ==
  ASSUME NEW b, Sound(b), NEW w \in DOMAIN b.wizards,
         NEW r \in {MORTAL, APPRENTICE, PILGRIM, RETIRED}
  PROVE  Sound(Dismissed(b, w, r))
<1> DEFINE c == ChangeRank(b, w, r)
<1>1. r \in Ranks
  BY RankFacts
<1>2. /\ Core(c) /\ Titled(c)
      /\ \A x \in Names \ {w} : Homeless(c, x)
      /\ c.error => Sound(c)
      /\ ~c.error => RankOf(c, w) = r
      /\ w \in DOMAIN c.wizards
  BY <1>1, ChangeRankOfSound
<1> HIDE DEF c
<1>3. CASE c.error
  BY <1>2, <1>3 DEF Dismissed, AddToDomain, c
<1>4. CASE ~c.error
  BY <1>2, <1>4, RankFacts, AddToDomainSound DEF Dismissed, c
<1> QED BY <1>3, <1>4
-----------------------------------------------------------------------------
(***************************************************************************)
(* The inductive invariant, said of the three tables.                      *)
(***************************************************************************)
IInv == Sound(Tables)

\* No part of the invariant speaks of an error.
LEMMA SoundTables ==
  ASSUME NEW b, Sound(b)
  PROVE  Sound([wizards |-> b.wizards, domains |-> b.domains,
                applications |-> b.applications, error |-> FALSE])
<1> DEFINE c == [wizards |-> b.wizards, domains |-> b.domains,
                 applications |-> b.applications, error |-> FALSE]
<1>1. /\ c.wizards = b.wizards /\ c.domains = b.domains
      /\ c.applications = b.applications /\ c.error \in BOOLEAN
      /\ c = [wizards |-> c.wizards, domains |-> c.domains,
              applications |-> c.applications, error |-> c.error]
  OBVIOUS
<1> HIDE DEF c
<1>2. c \in Books
  BY <1>1, BookFields, BookMade DEF Sound, Core
<1>3. \A x : RankOf(c, x) = RankOf(b, x) /\ DomOf(c, x) = DomOf(b, x)
  BY <1>1 DEF RankOf, DomOf
<1>4. Listed(c) /\ Uncrowded(c) /\ Applied(c)
  BY <1>1, <1>3 DEF Sound, Core, Listed, Uncrowded, Applied
<1>5. Core(c)
  BY <1>1, <1>2, <1>4 DEF Sound, Core
<1>6. Titled(c) /\ \A x \in Names : Homeless(c, x)
  BY <1>3 DEF Sound, Titled, Homeless
<1> QED BY <1>5, <1>6 DEF Sound, c

LEMMA CommitSound ==
  ASSUME NEW b, Sound(b), Commit(b)
  PROVE  IInv'
<1>1. Tables' = [wizards |-> b.wizards, domains |-> b.domains,
                 applications |-> b.applications, error |-> FALSE]
  BY DEF Commit, Tables
<1>2. Sound(Tables')
  BY <1>1, SoundTables
<1> QED BY <1>2 DEF IInv

LEMMA TablesFields ==
  /\ Tables.wizards = m_wizards /\ Tables.domains = m_domains
  /\ Tables.applications = m_applications /\ ~Tables.error
  /\ \A x : RankOf(Tables, x) = Rank(x) /\ DomOf(Tables, x) = Dom(x)
BY DEF Tables, RankOf, DomOf, Rank, Dom

\* Who has a rank is in the table.
LEMMA RankedIsWizard ==
  ASSUME NEW w, Rank(w) # MORTAL \/ Dom(w) # NoDomain
  PROVE  w \in DOMAIN m_wizards
BY DEF Rank, Dom

LEMMA SetKeeperInv ==
  ASSUME IInv, NEW w, SetKeeper(w)
  PROVE  IInv'
<1> DEFINE r == IF Rank(w) = ARCH THEN KEEPER ELSE ARCH
<1>1. w \in DOMAIN Tables.wizards
  BY RankedIsWizard, TablesFields DEF SetKeeper, ARCH, KEEPER, MORTAL
<1>2. r \in Ranks /\ ~(r < NORMAL)
  BY DEF Ranks, ARCH, KEEPER, NORMAL, MORTAL
<1>3. Commit(ChangeRank(Tables, w, r))
  BY DEF SetKeeper
<1> HIDE DEF r
<1>4. Sound(ChangeRank(Tables, w, r))
  BY <1>1, <1>2, ChangeRankOfSound DEF IInv
<1> QED BY <1>3, <1>4, CommitSound

LEMMA RetireInv ==
  ASSUME IInv, NEW w, Retire(w)
  PROVE  IInv'
<1>1. w \in DOMAIN Tables.wizards
  BY RankedIsWizard, TablesFields DEF Retire, NORMAL, LORD, MORTAL
<1>2. Sound(Dismissed(Tables, w, RETIRED))
  BY <1>1, DismissedSound DEF IInv
<1> QED BY <1>2, CommitSound DEF Retire, Dismissed

LEMMA LeaveInv ==
  ASSUME IInv, NEW w, Leave(w)
  PROVE  IInv'
<1>1. w \in DOMAIN Tables.wizards
  BY RankedIsWizard, TablesFields DEF Leave
<1>2. CASE Lasting(Rank(w))
  <2>1. Rank(w) \in Ranks
    BY RankOfType, TablesFields DEF IInv, Sound, Core
  <2>2. ~(Rank(w) < NORMAL) /\ Rank(w) \notin {LORD, STEWARD}
    BY <2>1, <1>2, RankFacts
  <2>3. Sound(AddToDomain(Tables, NoDomain, w))
    BY <1>1, <2>2, TablesFields, AddToDomainSound DEF IInv, Sound
  <2> QED BY <1>2, <2>3, CommitSound DEF Leave
<1>3. CASE ~Lasting(Rank(w))
  <2>1. Sound(Dismissed(Tables, w, APPRENTICE))
    BY <1>1, DismissedSound DEF IInv
  <2> QED BY <1>3, <2>1, CommitSound DEF Leave, Dismissed
<1> QED BY <1>2, <1>3

LEMMA ExpelInv ==
  ASSUME IInv, NEW w, Expel(w)
  PROVE  IInv'
<1>1. w \in DOMAIN Tables.wizards
  BY RankedIsWizard, TablesFields DEF Expel
<1>2. CASE Lasting(Rank(w)) /\ Commit(AddToDomain(Tables, WIZARD_DOMAIN, w))
  <2>1. Rank(w) \in Ranks
    BY RankOfType, TablesFields DEF IInv, Sound, Core
  <2>2. ~(Rank(w) < NORMAL) /\ Rank(w) \notin {LORD, STEWARD}
    BY <2>1, <1>2, RankFacts
  <2>3. WIZARD_DOMAIN \in DOMAIN Tables.domains
    BY DEF IInv, Sound, Core
  <2>4. Sound(AddToDomain(Tables, WIZARD_DOMAIN, w))
    BY <1>1, <2>2, <2>3, TablesFields, AddToDomainSound DEF IInv, Sound
  <2> QED BY <1>2, <2>4, CommitSound
<1>3. CASE Commit(AddToDomain(ChangeRank(Tables, w, APPRENTICE), NoDomain, w))
  <2>1. Sound(Dismissed(Tables, w, APPRENTICE))
    BY <1>1, DismissedSound DEF IInv
  <2> QED BY <1>3, <2>1, CommitSound DEF Dismissed
<1> QED BY <1>2, <1>3 DEF Expel

LEMMA DraftInv ==
  ASSUME IInv, NEW d \in DomainNames, NEW w, Draft(d, w)
  PROVE  IInv'
<1> DEFINE b == IF Rank(w) = APPRENTICE THEN ChangeRank(Tables, w, NORMAL) ELSE Tables
<1>1. w \in DOMAIN Tables.wizards
  BY RankedIsWizard, TablesFields DEF Draft, APPRENTICE, MORTAL, NORMAL
<1>2. /\ Sound(b) /\ w \in DOMAIN b.wizards /\ d \in DOMAIN b.domains
      /\ Cardinality(b.domains[d].members) < b.domains[d].max
      /\ ~b.error => ~(RankOf(b, w) < NORMAL)
  <2>1. /\ d \in DOMAIN Tables.domains
        /\ Cardinality(Tables.domains[d].members) < Tables.domains[d].max
    BY TablesFields DEF Draft, Members
  <2>2. CASE Rank(w) = APPRENTICE
    <3> DEFINE c == ChangeRank(Tables, w, NORMAL)
    <3>1. b = c
      BY <2>2
    <3>2. Sound(c) /\ (~c.error => RankOf(c, w) = NORMAL)
      BY <1>1, RankFacts, ChangeRankOfSound DEF IInv
    <3>3. Reranked(Tables, c)
      BY <1>1, RankFacts, ChangeRankFacts DEF IInv, Sound, Core
    <3> HIDE DEF c
    <3> QED BY <1>1, <2>1, <3>1, <3>2, <3>3, RankFacts DEF Reranked
  <2>3. CASE Rank(w) # APPRENTICE
    <3>1. ~(Rank(w) < NORMAL)
      <4>1. Rank(w) \in Ranks
        BY RankOfType, TablesFields DEF IInv, Sound, Core
      <4> QED BY <2>3, <4>1 DEF Draft, Ranks, MORTAL, KEEPER, NORMAL
    <3> QED BY <1>1, <2>1, <2>3, <3>1, TablesFields DEF IInv
  <2> QED BY <2>2, <2>3
<1>3. Commit(AddToDomain(b, d, w))
  BY DEF Draft
<1> HIDE DEF b
<1>4. Sound(AddToDomain(b, d, w))
  <2>1. CASE b.error
    BY <1>2, <2>1 DEF AddToDomain
  <2>2. CASE ~b.error
    <3>1. d # NoDomain
      BY NoDomainIsNone
    <3> QED BY <1>2, <2>2, <3>1, AddToDomainSound DEF Sound
  <2> QED BY <2>1, <2>2
<1> QED BY <1>3, <1>4, CommitSound

\* a new domain has room for its liege
LEMMA EmptyHasRoom ==
  /\ IsFiniteSet({}) /\ Cardinality({}) <= DOMAIN_MAX /\ Cardinality({}) < DOMAIN_MAX
<1>1. IsFiniteSet({}) /\ Cardinality({}) = 0
  BY FS_EmptySet, Zenon
<1>2. DOMAIN_MAX \in Nat \ {0}
  BY ConstantsAssumption
<1>3. 0 <= DOMAIN_MAX /\ 0 < DOMAIN_MAX
  BY <1>2
<1> QED BY <1>1, <1>3

LEMMA MadeFacts ==
  ASSUME NEW b \in Books, NEW d \in DomainNames \ DOMAIN b.domains, NEW w \in Names
  PROVE  LET c == Made(b, d, w) IN
         /\ c \in Books /\ c.wizards = b.wizards
         /\ c.applications = b.applications /\ c.error = b.error
         /\ DOMAIN c.domains = DOMAIN b.domains \cup {d}
         /\ \A x \in DOMAIN b.domains : c.domains[x] = b.domains[x]
         /\ c.domains[d].lord = w /\ c.domains[d].members = {}
         /\ c.domains[d].max = DOMAIN_MAX
<1> DEFINE c == Made(b, d, w)
           n == [lord |-> w, steward |-> Nobody, members |-> {}, max |-> DOMAIN_MAX]
           t == Added(b.domains, d, n)
<1>1. c = [wizards |-> b.wizards, domains |-> t,
           applications |-> b.applications, error |-> b.error]
  BY BookFields DEF Made
<1>2. n \in Ledger /\ n.lord = w /\ n.members = {} /\ n.max = DOMAIN_MAX
  BY ConstantsAssumption DEF Ledger
<1> HIDE DEF n
<1>3. /\ t \in [DOMAIN t -> Ledger] /\ DOMAIN t = DOMAIN b.domains \cup {d}
      /\ \A x \in DOMAIN b.domains : t[x] = b.domains[x]
      /\ t[d] = n
  BY <1>2, BookFields DEF Added
<1> HIDE DEF t, c
<1>4. /\ c = [wizards |-> c.wizards, domains |-> c.domains,
              applications |-> c.applications, error |-> c.error]
      /\ c.wizards = b.wizards /\ c.domains = t
      /\ c.applications = b.applications /\ c.error = b.error
  BY <1>1
<1>5. c \in Books
  BY <1>3, <1>4, BookFields, BookMade
<1> QED BY <1>2, <1>3, <1>4, <1>5 DEF c

LEMMA MadeSound ==
  ASSUME NEW b, Sound(b), NEW d \in DomainNames \ DOMAIN b.domains, NEW w \in Names
  PROVE  Sound(Made(b, d, w))
<1> DEFINE c == Made(b, d, w)
<1>1. b \in Books
  BY DEF Sound, Core
<1>2. /\ c \in Books /\ c.wizards = b.wizards
      /\ c.applications = b.applications /\ c.error = b.error
      /\ DOMAIN c.domains = DOMAIN b.domains \cup {d}
      /\ \A x \in DOMAIN b.domains : c.domains[x] = b.domains[x]
      /\ c.domains[d].lord = w /\ c.domains[d].members = {}
      /\ c.domains[d].max = DOMAIN_MAX
  BY <1>1, MadeFacts
<1> HIDE DEF c
<1>3. \A x : RankOf(c, x) = RankOf(b, x) /\ DomOf(c, x) = DomOf(b, x)
  BY <1>2 DEF RankOf, DomOf
<1>4. IsFiniteSet({}) /\ Cardinality({}) <= DOMAIN_MAX
  BY EmptyHasRoom
<1>5. \A x \in DOMAIN c.domains : IsFiniteSet(c.domains[x].members)
  BY <1>2, <1>4 DEF Sound, Core
<1>6. Listed(c)
  BY <1>2, <1>3 DEF Sound, Core, Listed
<1>7. Uncrowded(c)
  BY <1>2, <1>4 DEF Sound, Core, Uncrowded
<1>8. Applied(c)
  BY <1>2, <1>3 DEF Sound, Core, Applied
<1>9. Core(c)
  BY <1>2, <1>5, <1>6, <1>7, <1>8 DEF Sound, Core
<1>10. Titled(c) /\ \A x \in Names : Homeless(c, x)
  BY <1>3 DEF Sound, Titled, Homeless
<1> QED BY <1>9, <1>10 DEF Sound, c

\* The founder of a domain is already down as its liege, and is put in.
LEMMA FounderIsSeated ==
  ASSUME NEW b \in Books, ~b.error, NEW w \in DOMAIN b.wizards,
         b.wizards[w].rank = APPRENTICE,
         b.wizards[w].dom \in DOMAIN b.domains,
         b.domains[b.wizards[w].dom].lord = w
  PROVE  ~ChangeRank(b, w, LORD).error
<1> DEFINE d == b.wizards[w].dom
           c == SetRank(b, w, NORMAL)
           k == IF w = Nobody THEN b ELSE c
           e == [k EXCEPT !.domains[d][Office[LORD]] = w]
<1>1. APPRENTICE \notin DOMAIN Office /\ LORD \in DOMAIN Office
  BY OfficeFacts DEF APPRENTICE, LORD, STEWARD
<1>2. Vacate(b, w) = b
  BY <1>1 DEF Vacate
<1>3. b.domains[d][Office[LORD]] = w
  BY OfficeFacts
<1>4. ChangeRank(b, w, LORD) = SetRank(Seat(b, w, LORD), w, LORD)
  BY <1>1, <1>2 DEF ChangeRank
<1>5. /\ k \in Books /\ k.error = b.error /\ d \in DOMAIN k.domains
      /\ w \in DOMAIN k.wizards
  BY SetRankKeeps, RankFacts DEF Reranked
<1>6. Seat(b, w, LORD) = IF k.error THEN k ELSE e
  BY <1>2, <1>3 DEF Seat
<1> HIDE DEF k, d
<1>7. e \in Books /\ e.error = k.error /\ e.wizards = k.wizards
  <2>1. w \in Names \cup {Nobody}
    BY BookFields
  <2>2. Appointed(k, e, d, LORD, w)
    BY <1>5, <2>1, AppointFacts
  <2> QED BY <2>2 DEF Appointed
<1> HIDE DEF e
<1>8. Seat(b, w, LORD) = e /\ ~e.error
  BY <1>5, <1>6, <1>7
<1>9. SetRank(e, w, LORD).error = e.error
  BY <1>5, <1>7, RankFacts, SetRankKeeps
<1> QED BY <1>4, <1>8, <1>9

LEMMA MakeDomainInv ==
  ASSUME IInv, NEW d \in DomainNames, NEW w, MakeDomain(d, w)
  PROVE  IInv'
<1> DEFINE m == Made(Tables, d, w)
           a == AddToDomain(m, d, w)
           c == ChangeRank(a, w, LORD)
<1>1. w \in DOMAIN Tables.wizards /\ w \in Names
  BY RankedIsWizard, TablesFields, BookFields
     DEF MakeDomain, APPRENTICE, MORTAL, IInv, Sound, Core
<1>2. d \in DomainNames \ DOMAIN Tables.domains
  BY TablesFields DEF MakeDomain
<1>3. /\ m \in Books /\ m.wizards = Tables.wizards /\ ~m.error
      /\ DOMAIN m.domains = DOMAIN Tables.domains \cup {d}
      /\ m.domains[d].lord = w /\ m.domains[d].members = {}
      /\ m.domains[d].max = DOMAIN_MAX
  BY <1>1, <1>2, MadeFacts, TablesFields DEF IInv, Sound, Core
<1>4. Sound(m)
  BY <1>1, <1>2, MadeSound DEF IInv
<1> HIDE DEF m
<1>5. Tables.wizards[w].rank = APPRENTICE
  BY <1>1, TablesFields DEF MakeDomain, Rank
<1>6. d # NoDomain
  BY NoDomainIsNone
<1>7. /\ Rehoused(m, a, d, w)
      /\ a.error => m.wizards[w].dom # NoDomain
  <2>1. Destination(m, d, w) = d
    BY <1>6 DEF Destination
  <2>2. WIZARD_DOMAIN \in DOMAIN m.domains
    BY <1>4 DEF Sound, Core
  <2> QED BY <1>1, <1>3, <2>1, <2>2, AddToDomainFacts
<1>8. Core(a)
  <2>1. Cardinality(m.domains[d].members) < m.domains[d].max
    BY <1>3, EmptyHasRoom
  <2> QED BY <1>1, <1>3, <1>4, <2>1, AddToDomainCore DEF Sound
<1> HIDE DEF a
<1>9. /\ \A x : RankOf(a, x) = RankOf(m, x)
      /\ \A x : x # w => DomOf(a, x) = DomOf(m, x)
      /\ DomOf(a, w) = d
  BY <1>1, <1>3, <1>7, RehousedNames
<1>10. Titled(a) /\ \A x \in Names \ {w} : Homeless(a, x)
  BY <1>4, <1>6, <1>9 DEF Sound, Titled, Homeless
<1>11. w \in DOMAIN a.wizards
  BY <1>1, <1>3, <1>7 DEF Rehoused
<1>12. /\ c.error /\ Homeless(a, w) => Sound(c)
       /\ ~c.error /\ ~(LORD < NORMAL) => Sound(c)
  BY <1>8, <1>10, <1>11, RankFacts, ChangeRankSound
<1> HIDE DEF c
<1>13. Sound(c)
  <2>1. CASE w = "danne"
    BY <1>12, <2>1, RankFacts DEF Homeless
  <2>2. CASE w # "danne"
    <3>1. m.wizards[w].dom = NoDomain
      <4>1. RankOf(m, w) < NORMAL
        BY <1>1, <1>3, <1>5 DEF RankOf, APPRENTICE, NORMAL
      <4>2. DomOf(m, w) = NoDomain
        BY <1>1, <1>4, <2>2, <4>1 DEF Sound, Homeless
      <4> QED BY <1>1, <1>3, <4>2 DEF DomOf
    <3>2. /\ a \in Books /\ ~a.error /\ a.wizards[w].rank = APPRENTICE
          /\ a.wizards[w].dom = d /\ d \in DOMAIN a.domains /\ a.domains[d].lord = w
      BY <1>1, <1>3, <1>5, <1>7, <3>1 DEF Rehoused
    <3>3. ~c.error
      BY <1>11, <3>2, FounderIsSeated DEF c
    <3> QED BY <1>12, <3>3, RankFacts
  <2> QED BY <2>1, <2>2
<1>14. Commit(c)
  BY DEF MakeDomain, m, a, c
<1> QED BY <1>13, <1>14, CommitSound

\* Another table of wizards that says the same of everybody.
LEMMA SameWizardsSound ==
  ASSUME NEW b, Sound(b), NEW t, t \in [DOMAIN t -> Entry], DOMAIN t \subseteq Names,
         \A x : (IF x \in DOMAIN t THEN t[x].rank ELSE MORTAL) = RankOf(b, x),
         \A x : (IF x \in DOMAIN t THEN t[x].dom ELSE NoDomain) = DomOf(b, x)
  PROVE  LET c == [b EXCEPT !.wizards = t] IN
         /\ Sound(c) /\ c.wizards = t /\ c.error = b.error
         /\ \A x : RankOf(c, x) = RankOf(b, x) /\ DomOf(c, x) = DomOf(b, x)
<1> DEFINE c == [b EXCEPT !.wizards = t]
<1>1. b \in Books
  BY DEF Sound, Core
<1>2. c = [wizards |-> t, domains |-> b.domains,
           applications |-> b.applications, error |-> b.error]
  BY <1>1, BookFields
<1> HIDE DEF c
<1>3. /\ c = [wizards |-> c.wizards, domains |-> c.domains,
              applications |-> c.applications, error |-> c.error]
      /\ c.wizards = t /\ c.domains = b.domains
      /\ c.applications = b.applications /\ c.error = b.error
  BY <1>2
<1>4. c \in Books
  BY <1>1, <1>3, BookFields, BookMade
<1>5. \A x : RankOf(c, x) = RankOf(b, x) /\ DomOf(c, x) = DomOf(b, x)
  BY <1>3 DEF RankOf, DomOf
<1>6. Listed(c) /\ Uncrowded(c) /\ Applied(c)
  BY <1>3, <1>5 DEF Sound, Core, Listed, Uncrowded, Applied
<1>7. Core(c)
  BY <1>3, <1>4, <1>6 DEF Sound, Core
<1>8. Titled(c) /\ \A x \in Names : Homeless(c, x)
  BY <1>5 DEF Sound, Titled, Homeless
<1> QED BY <1>3, <1>5, <1>7, <1>8 DEF Sound, c

LEMMA EnteredSound ==
  ASSUME NEW b, Sound(b), NEW w \in Names
  PROVE  LET c == Entered(b, w) IN
         /\ Sound(c) /\ w \in DOMAIN c.wizards /\ c.error = b.error
         /\ \A x : RankOf(c, x) = RankOf(b, x) /\ DomOf(c, x) = DomOf(b, x)
<1>1. CASE w \in DOMAIN b.wizards
  BY <1>1 DEF Entered
<1>2. CASE w \notin DOMAIN b.wizards
  <2> DEFINE n == [rank |-> MORTAL, dom |-> NoDomain]
             t == Added(b.wizards, w, n)
  <2>1. n \in Entry /\ n.rank = MORTAL /\ n.dom = NoDomain
    BY RankFacts DEF Entry
  <2> HIDE DEF n
  <2>2. b.wizards \in [DOMAIN b.wizards -> Entry] /\ DOMAIN b.wizards \subseteq Names
    BY BookFields DEF Sound, Core
  <2>3. /\ t \in [DOMAIN t -> Entry] /\ DOMAIN t = DOMAIN b.wizards \cup {w}
        /\ t[w] = n /\ \A x \in DOMAIN b.wizards : t[x] = b.wizards[x]
    BY <1>2, <2>1, <2>2 DEF Added
  <2>4. Entered(b, w) = [b EXCEPT !.wizards = t]
    BY <1>2 DEF Entered, n
  <2> HIDE DEF t
  <2>5. /\ DOMAIN t \subseteq Names
        /\ \A x : (IF x \in DOMAIN t THEN t[x].rank ELSE MORTAL) = RankOf(b, x)
        /\ \A x : (IF x \in DOMAIN t THEN t[x].dom ELSE NoDomain) = DomOf(b, x)
    BY <1>2, <2>1, <2>2, <2>3 DEF RankOf, DomOf
  <2> QED BY <2>3, <2>4, <2>5, SameWizardsSound
<1> QED BY <1>1, <1>2

\* A mortal in no domain may be struck off.
LEMMA StruckOffSound ==
  ASSUME NEW b, Sound(b), NEW w, RankOf(b, w) = MORTAL, DomOf(b, w) = NoDomain
  PROVE  Sound([b EXCEPT !.wizards = Restrict(@, DOMAIN @ \ {w})])
<1> DEFINE t == Restrict(b.wizards, DOMAIN b.wizards \ {w})
<1>1. b.wizards \in [DOMAIN b.wizards -> Entry] /\ DOMAIN b.wizards \subseteq Names
  BY BookFields DEF Sound, Core
<1>2. /\ t \in [DOMAIN t -> Entry] /\ DOMAIN t = DOMAIN b.wizards \ {w}
      /\ \A x \in DOMAIN t : t[x] = b.wizards[x]
  BY <1>1 DEF Restrict
<1>3. [b EXCEPT !.wizards = Restrict(@, DOMAIN @ \ {w})] = [b EXCEPT !.wizards = t]
  BY BookFields DEF Sound, Core
<1> HIDE DEF t
<1>4. /\ DOMAIN t \subseteq Names
      /\ \A x : (IF x \in DOMAIN t THEN t[x].rank ELSE MORTAL) = RankOf(b, x)
      /\ \A x : (IF x \in DOMAIN t THEN t[x].dom ELSE NoDomain) = DomOf(b, x)
  BY <1>1, <1>2 DEF RankOf, DomOf
<1>5. Sound([b EXCEPT !.wizards = t])
  BY <1>2, <1>4, SameWizardsSound
<1> QED BY <1>3, <1>5

\* What is left of a promotion or demotion before a mortal is struck off.
LEMMA LeftFacts ==
  ASSUME IInv, NEW w \in Names, NEW r \in Ranks
  PROVE  LET e == Entered(Tables, w)
             c == ChangeRank(e, w, r)
             left == IF r < NORMAL /\ Dom(w) # NoDomain THEN AddToDomain(c, NoDomain, w)
                     ELSE c IN
         /\ Sound(left)
         /\ r = MORTAL /\ ~left.error => RankOf(left, w) = MORTAL /\ DomOf(left, w) = NoDomain
<1> DEFINE e == Entered(Tables, w)
           c == ChangeRank(e, w, r)
           left == IF r < NORMAL /\ Dom(w) # NoDomain THEN AddToDomain(c, NoDomain, w)
                   ELSE c
<1>1. /\ Sound(e) /\ w \in DOMAIN e.wizards
      /\ \A x : DomOf(e, x) = Dom(x)
  BY EnteredSound, TablesFields DEF IInv
<1> HIDE DEF e
<1>2. /\ Core(c) /\ Titled(c)
      /\ \A x \in Names \ {w} : Homeless(c, x)
      /\ c.error => Sound(c)
      /\ ~(r < NORMAL) => Sound(c)
      /\ ~c.error => RankOf(c, w) = r
      /\ w \in DOMAIN c.wizards
      /\ DomOf(c, w) = Dom(w)
  BY <1>1, ChangeRankOfSound
<1>3. Sound(left) /\ (r = MORTAL /\ ~left.error =>
                        RankOf(left, w) = MORTAL /\ DomOf(left, w) = NoDomain)
  <2>1. CASE r < NORMAL /\ Dom(w) # NoDomain
    <3>1. r \in {MORTAL, APPRENTICE, PILGRIM, RETIRED}
      BY <2>1, RankFacts
    <3>2. left = Dismissed(e, w, r)
      BY <2>1 DEF Dismissed
    <3>3. Sound(left)
      BY <1>1, <3>1, <3>2, DismissedSound
    <3>4. ASSUME r = MORTAL, ~left.error
          PROVE  RankOf(left, w) = MORTAL /\ DomOf(left, w) = NoDomain
      <4>1. left = AddToDomain(c, NoDomain, w)
        BY <2>1
      <4> HIDE DEF c, left
      <4>2. ~c.error
        BY <3>4, <4>1 DEF AddToDomain
      <4>3. RankOf(c, w) = MORTAL /\ c.wizards[w].rank = MORTAL
        BY <1>2, <3>4, <4>2 DEF RankOf
      <4>4. Destination(c, NoDomain, w) = NoDomain
        BY <4>3, RankFacts DEF Destination
      <4>5. Rehoused(c, left, NoDomain, w)
        BY <1>2, <4>1, <4>2, <4>4, AddToDomainFacts DEF Core
      <4> QED BY <1>2, <4>3, <4>5, RehousedNames
    <3> QED BY <3>3, <3>4
  <2>2. CASE ~(r < NORMAL /\ Dom(w) # NoDomain)
    <3>1. left = c
      BY <2>2
    <3>2. r < NORMAL => Homeless(c, w)
      BY <1>2, <2>2 DEF Homeless
    <3>3. Sound(c)
      BY <1>2, <3>2 DEF Sound
    <3>4. MORTAL < NORMAL
      BY DEF MORTAL, NORMAL
    <3> HIDE DEF c, left
    <3> QED BY <1>2, <2>2, <3>1, <3>3, <3>4
  <2> QED BY <2>1, <2>2
<1> QED BY <1>3 DEF left, c, e

LEMMA WizardChangeRankInv ==
  ASSUME IInv, NEW w \in Handled, NEW r \in Titles, WizardChangeRank(w, r)
  PROVE  IInv'
<1> DEFINE c == ChangeRank(Entered(Tables, w), w, r)
           left == IF r < NORMAL /\ Dom(w) # NoDomain THEN AddToDomain(c, NoDomain, w)
                   ELSE c
           s == Settled(c, w, r)
<1>1. w \in Names /\ r \in Ranks
  BY ConstantsAssumption DEF Names
<1>2. Sound(left) /\ (r = MORTAL /\ ~left.error =>
                        RankOf(left, w) = MORTAL /\ DomOf(left, w) = NoDomain)
  BY <1>1, LeftFacts
<1>3. s = IF r = MORTAL /\ ~left.error
          THEN [left EXCEPT !.wizards = Restrict(@, DOMAIN @ \ {w})] ELSE left
  BY DEF Settled
<1>4. Commit(s)
  BY DEF WizardChangeRank
<1> HIDE DEF s, left, c
<1>5. Sound(s)
  BY <1>2, <1>3, StruckOffSound
<1> QED BY <1>4, <1>5, CommitSound
-----------------------------------------------------------------------------
(***************************************************************************)
(* RemoveDomain takes the members one after the other, in an order that    *)
(* the code does not fix.  What follows shows that the fold is what one    *)
(* thinks it is, and gives an induction over the members taken so far.     *)
(***************************************************************************)
Discharging(f, base, L) ==
  f = [s \in L |-> IF s = {} THEN base ELSE Discharge(Pick(s), f[s \ {Pick(s)}])]
Discharged(base, S) == FoldSet(Discharge, base, S)

\* from the parts with at most n members to those with one more
LEMMA DischargingNext ==
  ASSUME NEW S, IsFiniteSet(S), NEW base, NEW n \in Nat, NEW f,
         Discharging(f, base, Parts(S, n))
  PROVE  \E g : Discharging(g, base, Parts(S, n + 1))
<1> DEFINE g == [s \in Parts(S, n + 1) |->
                   IF s = {} THEN base ELSE Discharge(Pick(s), f[s \ {Pick(s)}])]
<1>1. ASSUME NEW s \in Parts(S, n + 1), s # {}
      PROVE  s \ {Pick(s)} \in Parts(S, n)
  <2>1. s \in SUBSET S /\ Cardinality(s) <= n + 1 /\ IsFiniteSet(s)
    BY FS_Subset DEF Parts
  <2>2. Pick(s) \in s
    BY <1>1 DEF Pick
  <2>3. Cardinality(s) \in Nat /\ Cardinality(s \ {Pick(s)}) = Cardinality(s) - 1
    BY <2>1, <2>2, FS_CardinalityType, FS_RemoveElement
  <2> QED BY <2>1, <2>3 DEF Parts
<1>2. ASSUME NEW t \in Parts(S, n)
      PROVE  g[t] = f[t]
  <2>1. t \in Parts(S, n + 1)
    <3>1. t \in SUBSET S /\ Cardinality(t) <= n /\ Cardinality(t) \in Nat
      BY FS_Subset, FS_CardinalityType DEF Parts
    <3> QED BY <3>1 DEF Parts
  <2>2. f[t] = IF t = {} THEN base ELSE Discharge(Pick(t), f[t \ {Pick(t)}])
    BY DEF Discharging
  <2> QED BY <2>1, <2>2
<1>3. \A s \in Parts(S, n + 1) :
        (IF s = {} THEN base ELSE Discharge(Pick(s), f[s \ {Pick(s)}]))
          = (IF s = {} THEN base ELSE Discharge(Pick(s), g[s \ {Pick(s)}]))
  BY <1>1, <1>2
<1>4. g = [s \in Parts(S, n + 1) |->
             IF s = {} THEN base ELSE Discharge(Pick(s), g[s \ {Pick(s)}])]
  BY <1>3
<1> HIDE DEF g
<1>5. Discharging(g, base, Parts(S, n + 1))
  BY <1>4 DEF Discharging
<1> QED BY <1>5

LEMMA DischargingExists ==
  ASSUME NEW S, IsFiniteSet(S), NEW base
  PROVE  \E f : Discharging(f, base, SUBSET S)
<1> DEFINE P(n) == \E f : Discharging(f, base, Parts(S, n))
           T == {n \in Nat : ~P(n)}
<1>1. P(0)
  <2>1. Parts(S, 0) = {{}}
    <3>1. \A s \in SUBSET S : IsFiniteSet(s) /\ Cardinality(s) \in Nat
      BY FS_Subset, FS_CardinalityType
    <3>2. \A s \in SUBSET S : Cardinality(s) <= 0 <=> s = {}
      BY <3>1, FS_EmptySet
    <3> QED BY <3>2 DEF Parts
  <2>2. Discharging([s \in {{}} |-> base], base, {{}})
    BY DEF Discharging
  <2> QED BY <2>1, <2>2
<1>2. ASSUME NEW n \in Nat, P(n) PROVE P(n + 1)
  BY <1>2, DischargingNext
<1> HIDE DEF P
<1>3. T = {}
  <2> SUFFICES ASSUME T # {} PROVE FALSE
    OBVIOUS
  <2>1. PICK m \in T : \A n \in T : m <= n
    BY SmallestNumber
  <2>2. m # 0 /\ m - 1 \in Nat /\ m - 1 \notin T
    BY <1>1, <2>1
  <2>3. P(m - 1) /\ (m - 1) + 1 = m
    BY <2>2
  <2> QED BY <1>2, <2>2, <2>3
<1>4. Cardinality(S) \in Nat /\ Parts(S, Cardinality(S)) = SUBSET S
  BY FS_CardinalityType, FS_Subset DEF Parts
<1>5. P(Cardinality(S))
  BY <1>3, <1>4
<1> QED BY <1>4, <1>5 DEF P

(***************************************************************************)
(* So there is a table of what is left after each part of the members, of  *)
(* which the fold is the last entry.                                       *)
(***************************************************************************)
Folded(f, base, S) ==
  /\ f[S] = Discharged(base, S)
  /\ f[{}] = base
  /\ \A s \in SUBSET S : s # {} =>
       Pick(s) \in s /\ f[s] = Discharge(Pick(s), f[s \ {Pick(s)}])

LEMMA DischargeFold ==
  ASSUME NEW S, IsFiniteSet(S), NEW base
  PROVE  \E f : Folded(f, base, S)
<1> DEFINE f == CHOOSE h : Discharging(h, base, SUBSET S)
<1>1. f[S] = Discharged(base, S)
  BY DEF Discharged, FoldSet, MapThenFoldSet, Discharging, Pick
<1>2. Discharging(f, base, SUBSET S)
  BY DischargingExists
<1> HIDE DEF f
<1>3. f[{}] = base /\ \A s \in SUBSET S : s # {} => f[s] = Discharge(Pick(s), f[s \ {Pick(s)}])
  BY <1>2 DEF Discharging
<1>4. \A s \in SUBSET S : s # {} => Pick(s) \in s
  BY DEF Pick
<1>5. Folded(f, base, S)
  BY <1>1, <1>3, <1>4 DEF Folded
<1> QED BY <1>5

\* Who leaves for nowhere is off the list of any ordinary domain.
LEMMA LeftIsUnlisted ==
  ASSUME NEW b, Core(b), ~b.error, NEW w \in DOMAIN b.wizards,
         NEW d \in DOMAIN b.domains \ {WIZARD_DOMAIN}
  PROVE  LET c == AddToDomain(b, NoDomain, w) IN
         /\ DOMAIN c.wizards = DOMAIN b.wizards /\ DOMAIN c.domains = DOMAIN b.domains
         /\ ~c.error => c.domains[d].members = b.domains[d].members \ {w}
<1> DEFINE from == b.wizards[w].dom
           to == Destination(b, NoDomain, w)
           c == AddToDomain(b, NoDomain, w)
<1>1. b \in Books /\ WIZARD_DOMAIN \in DOMAIN b.domains
  BY DEF Core
<1>2. /\ Rehoused(b, c, to, w)
      /\ ~c.error =>
           \A x \in DOMAIN b.domains :
             c.domains[x].members =
               (b.domains[x].members \ (IF x = from THEN {w} ELSE {}))
                 \cup (IF x = to THEN {w} ELSE {})
  BY <1>1, AddToDomainFacts
<1>3. d # to
  BY <1>1, BookFields, NoDomainIsNone DEF Destination
<1>4. w \in b.domains[d].members => d = from
  BY <1>1, BookFields DEF Core, Listed, DomOf
<1> HIDE DEF from, to, c
<1>5. DOMAIN c.wizards = DOMAIN b.wizards /\ DOMAIN c.domains = DOMAIN b.domains
  BY <1>2 DEF Rehoused
<1>6. ~c.error => c.domains[d].members = b.domains[d].members \ {w}
  BY <1>2, <1>3, <1>4
<1> QED BY <1>5, <1>6 DEF c

LEMMA DischargeSound ==
  ASSUME NEW b, Sound(b), NEW w \in DOMAIN b.wizards,
         NEW d \in DOMAIN b.domains \ {WIZARD_DOMAIN}
  PROVE  LET c == Discharge(w, b) IN
         /\ Sound(c)
         /\ DOMAIN c.wizards = DOMAIN b.wizards /\ DOMAIN c.domains = DOMAIN b.domains
         /\ ~c.error => /\ ~b.error
                        /\ c.domains[d].members = b.domains[d].members \ {w}
<1> DEFINE c == Discharge(w, b)
<1>1. b \in Books /\ w \in Names /\ b.wizards[w].rank \in Ranks
      /\ RankOf(b, w) = b.wizards[w].rank
  BY BookFields DEF Sound, Core, Entry, RankOf
<1>2. CASE b.wizards[w].rank \in {MAGE, ARCH, KEEPER}
  <2>1. c = AddToDomain(b, NoDomain, w)
    BY <1>2 DEF Discharge
  <2> HIDE DEF c
  <2>2. CASE b.error
    <3>1. c = b
      BY <2>1, <2>2 DEF AddToDomain
    <3> QED BY <2>2, <3>1 DEF c
  <2>3. CASE ~b.error
    <3>1. RankOf(b, w) \notin {LORD, STEWARD} /\ ~(RankOf(b, w) < NORMAL)
      BY <1>1, <1>2 DEF MAGE, ARCH, KEEPER, LORD, STEWARD, NORMAL
    <3>2. Sound(c)
      BY <1>1, <2>1, <2>3, <3>1, AddToDomainSound DEF Sound
    <3>3. /\ DOMAIN c.wizards = DOMAIN b.wizards /\ DOMAIN c.domains = DOMAIN b.domains
          /\ ~c.error => c.domains[d].members = b.domains[d].members \ {w}
      BY <2>1, <2>3, LeftIsUnlisted DEF Sound
    <3> QED BY <2>3, <3>2, <3>3 DEF c
  <2> QED BY <2>2, <2>3 DEF c
<1>3. CASE b.wizards[w].rank \notin {MAGE, ARCH, KEEPER}
  <2> DEFINE k == ChangeRank(b, w, APPRENTICE)
  <2>1. c = Dismissed(b, w, APPRENTICE) /\ c = AddToDomain(k, NoDomain, w)
    BY <1>3 DEF Discharge, Dismissed
  <2>2. Sound(c)
    BY <2>1, DismissedSound
  <2>3. APPRENTICE \in Ranks
    BY RankFacts
  <2>4. /\ Core(k) /\ (~k.error => ~b.error)
        /\ DOMAIN k.wizards = DOMAIN b.wizards /\ DOMAIN k.domains = DOMAIN b.domains
    BY <2>3, ChangeRankOfSound
  <2>5. k.domains[d].members = b.domains[d].members
    BY <1>1, <2>3, ChangeRankFacts DEF Reranked
  <2> HIDE DEF c, k
  <2>6. CASE k.error
    <3>1. c = k
      BY <2>1, <2>6 DEF AddToDomain
    <3> QED BY <2>2, <2>4, <2>6, <3>1 DEF c
  <2>7. CASE ~k.error
    <3>1. /\ DOMAIN c.wizards = DOMAIN k.wizards /\ DOMAIN c.domains = DOMAIN k.domains
          /\ ~c.error => c.domains[d].members = k.domains[d].members \ {w}
      BY <2>1, <2>4, <2>7, LeftIsUnlisted
    <3> QED BY <2>2, <2>4, <2>5, <2>7, <3>1 DEF c
  <2> QED BY <2>6, <2>7
<1> QED BY <1>2, <1>3

\* A domain without members may be taken out of the table.
LEMMA DissolvedSound ==
  ASSUME NEW b, Sound(b), NEW d \in DOMAIN b.domains \ {WIZARD_DOMAIN},
         b.domains[d].members = {}
  PROVE  Sound([b EXCEPT !.domains = Restrict(@, DOMAIN @ \ {d})])
<1> DEFINE t == Restrict(b.domains, DOMAIN b.domains \ {d})
           c == [b EXCEPT !.domains = Restrict(@, DOMAIN @ \ {d})]
<1>1. b \in Books
  BY DEF Sound, Core
<1>2. c = [wizards |-> b.wizards, domains |-> t,
           applications |-> b.applications, error |-> b.error]
  BY <1>1, BookFields
<1>3. /\ t \in [DOMAIN t -> Ledger] /\ DOMAIN t = DOMAIN b.domains \ {d}
      /\ DOMAIN t \subseteq DomainNames
      /\ \A x \in DOMAIN t : t[x] = b.domains[x]
  BY <1>1, BookFields DEF Restrict
<1> HIDE DEF c, t
<1>4. /\ c = [wizards |-> c.wizards, domains |-> c.domains,
              applications |-> c.applications, error |-> c.error]
      /\ c.wizards = b.wizards /\ c.domains = t
      /\ c.applications = b.applications /\ c.error = b.error
  BY <1>2
<1>5. c \in Books
  BY <1>1, <1>3, <1>4, BookFields, BookMade
<1>6. \A x : RankOf(c, x) = RankOf(b, x) /\ DomOf(c, x) = DomOf(b, x)
  BY <1>4 DEF RankOf, DomOf
<1>7. Listed(c)
  BY <1>3, <1>4, <1>6 DEF Sound, Core, Listed
<1>8. Uncrowded(c)
  BY <1>3, <1>4 DEF Sound, Core, Uncrowded
<1>9. Applied(c)
  BY <1>4, <1>6 DEF Sound, Core, Applied
<1>10. Core(c)
  BY <1>3, <1>4, <1>5, <1>7, <1>8, <1>9 DEF Sound, Core
<1>11. Titled(c) /\ \A x \in Names : Homeless(c, x)
  BY <1>6 DEF Sound, Titled, Homeless
<1> QED BY <1>10, <1>11 DEF Sound, c

\* What holds of no part taken, and of one more, holds of them all.
LEMMA DischargingInduction ==
  ASSUME NEW S, IsFiniteSet(S), NEW X \in SUBSET (SUBSET S), {} \notin X,
         \A s \in X : Pick(s) \in s /\ s \ {Pick(s)} \in X
  PROVE  X = {}
<1> SUFFICES ASSUME X # {} PROVE FALSE
  OBVIOUS
<1>1. PICK s \in X : \A x \in s : s \ {x} \notin X
  BY SmallestSet
<1> QED BY <1>1

LEMMA RemoveDomainInv ==
  ASSUME IInv, NEW d \in DomainNames, NEW renamed \in BOOLEAN, RemoveDomain(d, renamed)
  PROVE  IInv'
<1> DEFINE S == Members(d)
           b == Discharged(Tables, S)
           e == IF renamed /\ ~b.error
                THEN [b EXCEPT !.domains = Restrict(@, DOMAIN @ \ {d})] ELSE b
<1>1. d \in DOMAIN Tables.domains \ {WIZARD_DOMAIN} /\ S = Tables.domains[d].members
  BY TablesFields DEF RemoveDomain, Members
<1>2. IsFiniteSet(S) /\ S \subseteq Names
  BY <1>1, BookFields DEF IInv, Sound, Core, Ledger
<1>3. S \subseteq DOMAIN Tables.wizards
  <2>1. \A x \in S : DomOf(Tables, x) = d
    BY <1>1, <1>2 DEF IInv, Sound, Core, Listed
  <2> QED BY <2>1, NoDomainIsNone DEF DomOf
<1> HIDE DEF S
<1>4. PICK f : Folded(f, Tables, S)
  BY <1>2, DischargeFold, Zenon
<1>5. /\ f[S] = b
      /\ f[{}] = Tables
      /\ \A s \in SUBSET S : s # {} =>
           Pick(s) \in s /\ f[s] = Discharge(Pick(s), f[s \ {Pick(s)}])
  BY <1>4 DEF Folded
<1> DEFINE Q(s) == /\ Sound(f[s])
                   /\ DOMAIN f[s].wizards = DOMAIN Tables.wizards
                   /\ DOMAIN f[s].domains = DOMAIN Tables.domains
                   /\ ~f[s].error => f[s].domains[d].members = S \ s
           X == {s \in SUBSET S : ~Q(s)}
<1>6. Q({})
  BY <1>1, <1>5 DEF IInv
<1>7. ASSUME NEW s \in SUBSET S, s # {}, Q(s \ {Pick(s)})
      PROVE  Q(s)
  <2> DEFINE w == Pick(s)
             k == f[s \ {w}]
  <2>1. w \in s /\ f[s] = Discharge(w, k)
    BY <1>5, <1>7
  <2>2. /\ Sound(k) /\ DOMAIN k.wizards = DOMAIN Tables.wizards
        /\ DOMAIN k.domains = DOMAIN Tables.domains
        /\ ~k.error => k.domains[d].members = S \ (s \ {w})
    BY <1>7
  <2> HIDE DEF w, k
  <2>3. w \in DOMAIN k.wizards /\ d \in DOMAIN k.domains \ {WIZARD_DOMAIN}
    BY <1>1, <1>3, <2>1, <2>2
  <2>4. LET c == Discharge(w, k) IN
        /\ Sound(c)
        /\ DOMAIN c.wizards = DOMAIN k.wizards /\ DOMAIN c.domains = DOMAIN k.domains
        /\ ~c.error => /\ ~k.error
                       /\ c.domains[d].members = k.domains[d].members \ {w}
    BY <2>2, <2>3, DischargeSound
  <2>5. (S \ (s \ {w})) \ {w} = S \ s
    BY <2>1
  <2> QED BY <2>1, <2>2, <2>4, <2>5
<1> HIDE DEF Q
<1>8. X = {}
  <2>1. {} \notin X /\ \A s \in X : Pick(s) \in s /\ s \ {Pick(s)} \in X
    BY <1>5, <1>6, <1>7
  <2>2. X \in SUBSET (SUBSET S)
    OBVIOUS
  <2> HIDE DEF X
  <2> QED BY <1>2, <2>1, <2>2, DischargingInduction
<1>9. Q(S)
  BY <1>8
<1> HIDE DEF b
<1>10. Sound(b) /\ d \in DOMAIN b.domains /\ (~b.error => b.domains[d].members = {})
  BY <1>1, <1>5, <1>9 DEF Q
<1>11. Sound(e)
  BY <1>1, <1>10, DissolvedSound
<1>12. Commit(e)
  BY DEF RemoveDomain, Discharged, b, S
<1> HIDE DEF e
<1> QED BY <1>11, <1>12, CommitSound
-----------------------------------------------------------------------------
\* Another table of applications, of people who are free to apply.
LEMMA ApplicationsInv ==
  ASSUME IInv, UNCHANGED <<m_wizards, m_domains>>,
         m_applications' \in [DOMAIN m_applications' -> (SUBSET Names) \ {{}}],
         DOMAIN m_applications' \subseteq DomainNames,
         \A d \in DOMAIN m_applications' : \A x \in m_applications'[d] :
           Dom(x) \in {NoDomain, WIZARD_DOMAIN}
  PROVE  IInv'
<1> DEFINE b == Tables
           c == Tables'
<1>1. /\ c = [wizards |-> c.wizards, domains |-> c.domains,
              applications |-> c.applications, error |-> c.error]
      /\ c.wizards = b.wizards /\ c.domains = b.domains
      /\ c.applications = m_applications' /\ c.error \in BOOLEAN
  BY DEF Tables
<1>2. b \in Books /\ Sound(b) /\ \A x : DomOf(b, x) = Dom(x)
  BY TablesFields DEF IInv, Sound, Core
<1> HIDE DEF b, c
<1>3. c \in Books
  BY <1>1, <1>2, BookFields, BookMade
<1>4. \A x : RankOf(c, x) = RankOf(b, x) /\ DomOf(c, x) = DomOf(b, x)
  BY <1>1 DEF RankOf, DomOf
<1>5. Listed(c) /\ Uncrowded(c) /\ Applied(c)
  BY <1>1, <1>2, <1>4 DEF Sound, Core, Listed, Uncrowded, Applied
<1>6. Core(c)
  BY <1>1, <1>2, <1>3, <1>5 DEF Sound, Core
<1>7. Titled(c) /\ \A x \in Names : Homeless(c, x)
  BY <1>2, <1>4 DEF Sound, Titled, Homeless
<1> QED BY <1>6, <1>7 DEF Sound, IInv, c

\* what the invariant says of the applications there are
LEMMA ApplicationFacts ==
  ASSUME IInv
  PROVE  /\ m_applications \in [DOMAIN m_applications -> (SUBSET Names) \ {{}}]
         /\ DOMAIN m_applications \subseteq DomainNames
         /\ DOMAIN m_domains \subseteq DomainNames
         /\ \A d \in DOMAIN m_applications : \A x \in m_applications[d] :
              Dom(x) \in {NoDomain, WIZARD_DOMAIN}
<1>1. Tables \in Books /\ Applied(Tables)
  BY DEF IInv, Sound, Core
<1> QED BY <1>1, BookFields, TablesFields DEF Applied

LEMMA ApplyInv ==
  ASSUME IInv, NEW w \in Names, NEW d, Apply(w, d)
  PROVE  IInv'
<1>1. m_applications' = Added(m_applications, d, {w}) /\ d \in DomainNames
  BY ApplicationFacts DEF Apply
<1>2. Dom(w) \in {NoDomain, WIZARD_DOMAIN}
  BY DEF Apply
<1>3. /\ DOMAIN m_applications' = DOMAIN m_applications \cup {d}
      /\ \A x \in DOMAIN m_applications' :
           m_applications'[x] = IF x = d THEN {w} ELSE m_applications[x]
      /\ m_applications' \in [DOMAIN m_applications' -> (SUBSET Names) \ {{}}]
  BY <1>1, ApplicationFacts DEF Added
<1>4. UNCHANGED <<m_wizards, m_domains>>
  BY DEF Apply
<1>5. \A x \in DOMAIN m_applications' : \A y \in m_applications'[x] :
         Dom(y) \in {NoDomain, WIZARD_DOMAIN}
  BY <1>2, <1>3, ApplicationFacts
<1> QED BY <1>1, <1>3, <1>4, <1>5, ApplicationFacts, ApplicationsInv

LEMMA ClearDomainInv ==
  ASSUME IInv, NEW d, ClearDomain(d)
  PROVE  IInv'
<1>1. /\ DOMAIN m_applications' = DOMAIN m_applications \ {d}
      /\ \A x \in DOMAIN m_applications' : m_applications'[x] = m_applications[x]
      /\ m_applications' \in [DOMAIN m_applications' -> (SUBSET Names) \ {{}}]
      /\ UNCHANGED <<m_wizards, m_domains>>
  BY ApplicationFacts DEF ClearDomain, Restrict
<1> QED BY <1>1, ApplicationFacts, ApplicationsInv

LEMMA ClearWizardInv ==
  ASSUME IInv, NEW w, ClearWizard(w)
  PROVE  IInv'
<1>1. m_applications' = Withdrawn(m_applications, w) /\ UNCHANGED <<m_wizards, m_domains>>
  BY DEF ClearWizard
<1>2. /\ DOMAIN m_applications' \subseteq DOMAIN m_applications
      /\ \A x \in DOMAIN m_applications' : m_applications'[x] \subseteq m_applications[x]
      /\ m_applications' \in [DOMAIN m_applications' -> (SUBSET Names) \ {{}}]
  BY <1>1, ApplicationFacts, WithdrawnFacts
<1>3. \A x \in DOMAIN m_applications' : \A y \in m_applications'[x] :
         Dom(y) \in {NoDomain, WIZARD_DOMAIN}
  BY <1>2, ApplicationFacts
<1> QED BY <1>1, <1>2, <1>3, ApplicationFacts, ApplicationsInv

LEMMA SetLimitInv ==
  ASSUME IInv, NEW d, NEW max \in Limits, SetLimit(d, max)
  PROVE  IInv'
<1> DEFINE b == Tables
           c == Tables'
           l == b.domains[d]
           n == [lord |-> l.lord, steward |-> l.steward, members |-> l.members,
                 max |-> max]
<1>1. b \in Books /\ Sound(b) /\ d \in DOMAIN b.domains
  BY TablesFields DEF IInv, Sound, Core, SetLimit
<1>2. /\ n \in Ledger /\ l \in Ledger /\ n.members = l.members /\ n.max = max
      /\ [l EXCEPT !.max = max] = n
  <2>1. max \in Nat
    BY ConstantsAssumption
  <2> HIDE DEF b
  <2>2. l \in Ledger
    BY <1>1, BookFields
  <2> HIDE DEF l
  <2> QED BY <2>1, <2>2 DEF Ledger
<1>3. Cardinality(l.members) <= max
  BY TablesFields DEF SetLimit, Members
<1>4. m_domains' = [b.domains EXCEPT ![d] = n]
  BY <1>1, <1>2, TablesFields DEF SetLimit
<1>5. /\ c = [wizards |-> c.wizards, domains |-> c.domains,
              applications |-> c.applications, error |-> c.error]
      /\ c.wizards = b.wizards /\ c.domains = [b.domains EXCEPT ![d] = n]
      /\ c.applications = b.applications /\ c.error \in BOOLEAN
  BY <1>4 DEF Tables, SetLimit
<1> HIDE DEF b, c, n
<1>6. /\ DOMAIN c.domains = DOMAIN b.domains
      /\ \A x \in DOMAIN b.domains :
           /\ c.domains[x].members = b.domains[x].members
           /\ x # d => c.domains[x].max = b.domains[x].max
      /\ c.domains[d].max = max
      /\ c.domains \in [DOMAIN c.domains -> Ledger]
  BY <1>1, <1>2, <1>5, BookFields
<1>7. c \in Books
  BY <1>1, <1>5, <1>6, BookFields, BookMade
<1>8. \A x : RankOf(c, x) = RankOf(b, x) /\ DomOf(c, x) = DomOf(b, x)
  BY <1>5 DEF RankOf, DomOf
<1>9. Listed(c)
  BY <1>1, <1>6, <1>8 DEF Sound, Core, Listed
<1>10. Applied(c)
  BY <1>1, <1>5, <1>8 DEF Sound, Core, Applied
<1>11. Uncrowded(c)
  BY <1>1, <1>3, <1>6 DEF Sound, Core, Uncrowded
<1>12. Core(c)
  BY <1>1, <1>6, <1>7, <1>9, <1>10, <1>11 DEF Sound, Core
<1>13. Titled(c) /\ \A x \in Names : Homeless(c, x)
  BY <1>1, <1>8 DEF Sound, Titled, Homeless
<1> QED BY <1>12, <1>13 DEF Sound, IInv, c

LEMMA InitInv == Init => IInv
<1> SUFFICES ASSUME Init PROVE Sound(Tables)
  BY DEF IInv
<1> DEFINE b == Tables
<1>1. /\ b = [wizards |-> b.wizards, domains |-> b.domains,
              applications |-> b.applications, error |-> b.error]
      /\ b.wizards = DEFAULT_WIZARDS /\ b.domains = DEFAULT_DOMAINS
      /\ b.applications = <<>> /\ b.error \in BOOLEAN
  BY DEF Init, Tables
<1> HIDE DEF b
<1>2. /\ DOMAIN DEFAULT_WIZARDS = {"root", "danne", "wiz"}
      /\ DEFAULT_WIZARDS["wiz"].rank = LORD /\ DEFAULT_WIZARDS["wiz"].dom = WIZARD_DOMAIN
      /\ \A x \in {"root", "danne"} : /\ DEFAULT_WIZARDS[x].rank = KEEPER
                                     /\ DEFAULT_WIZARDS[x].dom = "Standard"
      /\ DEFAULT_WIZARDS \in [{"root", "danne", "wiz"} -> Entry]
  BY DEF DEFAULT_WIZARDS, Entry, DomainNames, Ranks, MORTAL, KEEPER, LORD
<1>3. /\ DOMAIN DEFAULT_DOMAINS = {"Standard", WIZARD_DOMAIN}
      /\ DEFAULT_DOMAINS["Standard"].members = {"root"}
      /\ DEFAULT_DOMAINS[WIZARD_DOMAIN].members = {"wiz"}
      /\ DEFAULT_DOMAINS["Standard"].max = 1
      /\ DEFAULT_DOMAINS \in [{"Standard", WIZARD_DOMAIN} -> Ledger]
  BY DEF DEFAULT_DOMAINS, Ledger, Names, WIZARD_DOMAIN
<1>4. b \in Books
  <2>1. <<>> \in [DOMAIN <<>> -> (SUBSET Names) \ {{}}] /\ DOMAIN <<>> = {}
    OBVIOUS
  <2> QED BY <1>1, <1>2, <1>3, <2>1, BookMade DEF Names, DomainNames
<1>5. IsFiniteSet({"root"}) /\ IsFiniteSet({"wiz"}) /\ Cardinality({"root"}) = 1
  BY FS_Singleton, Zenon
<1>6. Listed(b)
  BY <1>1, <1>2, <1>3 DEF Listed, DomOf, WIZARD_DOMAIN, NoDomain
<1>7. Uncrowded(b)
  <2>1. \A d \in DOMAIN b.domains \ {WIZARD_DOMAIN} : d = "Standard"
    BY <1>1, <1>3
  <2>2. Cardinality(b.domains["Standard"].members) <= b.domains["Standard"].max
    BY <1>1, <1>3, <1>5
  <2> QED BY <2>1, <2>2 DEF Uncrowded
<1>8. Applied(b)
  BY <1>1 DEF Applied
<1>9. Core(b)
  <2>1. \A d \in DOMAIN b.domains : d \in {"Standard", WIZARD_DOMAIN}
    BY <1>1, <1>3
  <2>2. \A d \in DOMAIN b.domains : IsFiniteSet(b.domains[d].members)
    BY <1>1, <1>3, <1>5, <2>1
  <2>3. WIZARD_DOMAIN \in DOMAIN b.domains
    BY <1>1, <1>3
  <2> QED BY <1>4, <1>6, <1>7, <1>8, <2>2, <2>3 DEF Core
<1>10. Titled(b)
  <2>1. \A x : RankOf(b, x) \in {LORD, KEEPER, MORTAL}
    BY <1>1, <1>2 DEF RankOf
  <2>2. \A x : RankOf(b, x) = LORD => x = "wiz"
    BY <1>1, <1>2 DEF RankOf, LORD, KEEPER, MORTAL
  <2>3. DomOf(b, "wiz") # NoDomain
    BY <1>1, <1>2 DEF DomOf, WIZARD_DOMAIN, NoDomain
  <2> QED BY <2>1, <2>2, <2>3 DEF Titled, LORD, STEWARD, KEEPER, MORTAL
<1>11. \A x \in Names : Homeless(b, x)
  BY <1>1, <1>2 DEF Homeless, RankOf, DomOf, LORD, NORMAL, KEEPER
<1> QED BY <1>9, <1>10, <1>11 DEF Sound, b

LEMMA NextInv == IInv /\ [Next]_vars => IInv'
<1> SUFFICES ASSUME IInv, [Next]_vars PROVE IInv'
  OBVIOUS
<1>1. ASSUME NEW w \in Handled, Leave(w) PROVE IInv'
  BY <1>1, LeaveInv
<1>2. ASSUME NEW w \in Handled, Retire(w) PROVE IInv'
  BY <1>2, RetireInv
<1>3. ASSUME NEW w \in Handled, Expel(w) PROVE IInv'
  BY <1>3, ExpelInv
<1>4. ASSUME NEW w \in Handled, SetKeeper(w) PROVE IInv'
  BY <1>4, SetKeeperInv
<1>5. ASSUME NEW w \in Handled, ClearWizard(w) PROVE IInv'
  BY <1>5, ClearWizardInv
<1>6. ASSUME NEW w \in Handled, NEW r \in Titles, WizardChangeRank(w, r) PROVE IInv'
  BY <1>6, WizardChangeRankInv
<1>7. ASSUME NEW w \in Handled, NEW d \in Asked, Apply(w, d) PROVE IInv'
  BY <1>7, ApplyInv, ConstantsAssumption DEF Names
<1>8. ASSUME NEW w \in Handled, NEW d \in DomainNames, MakeDomain(d, w) PROVE IInv'
  BY <1>8, MakeDomainInv
<1>9. ASSUME NEW w \in Handled, NEW d \in DomainNames, Draft(d, w) PROVE IInv'
  BY <1>9, DraftInv
<1>10. ASSUME NEW d \in DomainNames, ClearDomain(d) PROVE IInv'
  BY <1>10, ClearDomainInv
<1>11. ASSUME NEW d \in DomainNames, NEW renamed \in BOOLEAN, RemoveDomain(d, renamed)
       PROVE  IInv'
  BY <1>11, RemoveDomainInv
<1>12. ASSUME NEW d \in DomainNames, NEW max \in Limits, SetLimit(d, max) PROVE IInv'
  BY <1>12, SetLimitInv
<1>13. CASE UNCHANGED vars
  BY <1>13 DEF vars, IInv, Tables
<1> QED BY <1>1, <1>2, <1>3, <1>4, <1>5, <1>6, <1>7, <1>8, <1>9, <1>10, <1>11, <1>12,
           <1>13 DEF Next

LEMMA IInvImplies == IInv => TypeOK /\ MembersAgree /\ NoCrowding /\ ApplicantsAreFree
<1> SUFFICES ASSUME IInv PROVE TypeOK /\ MembersAgree /\ NoCrowding /\ ApplicantsAreFree
  OBVIOUS
<1>1. Tables \in Books /\ Sound(Tables)
  BY DEF IInv, Sound, Core
<1>2. /\ m_wizards \in [DOMAIN m_wizards -> Entry] /\ DOMAIN m_wizards \subseteq Names
      /\ m_domains \in [DOMAIN m_domains -> Ledger] /\ DOMAIN m_domains \subseteq DomainNames
      /\ m_applications \in [DOMAIN m_applications -> (SUBSET Names) \ {{}}]
      /\ DOMAIN m_applications \subseteq DomainNames
  BY <1>1, BookFields, TablesFields
<1>3. \A w \in Names : w # "danne" /\ Rank(w) < NORMAL => Dom(w) = NoDomain
  BY <1>1, TablesFields DEF Sound, Homeless
<1>4. WIZARD_DOMAIN \in DOMAIN m_domains
  BY <1>1, TablesFields DEF Sound, Core
<1>5. TypeOK
  BY <1>2, <1>3, <1>4 DEF TypeOK, Entry, Ledger
<1>6. MembersAgree
  BY <1>1, TablesFields DEF Sound, Core, Listed, MembersAgree, Members
<1>7. NoCrowding
  BY <1>1, TablesFields DEF Sound, Core, Uncrowded, NoCrowding, Members
<1>8. ApplicantsAreFree
  BY <1>1, TablesFields DEF Sound, Core, Applied, ApplicantsAreFree
<1> QED BY <1>5, <1>6, <1>7, <1>8

(***************************************************************************)
(* The tables of fob.c stay well formed: nobody below a normal wizard is   *)
(* in a domain, and WIZARD_DOMAIN is never removed.                        *)
(***************************************************************************)
THEOREM DomainsTypes == Spec => []TypeOK
<1>1. Spec => []IInv
  BY InitInv, NextInv, PTL DEF Spec
<1> QED BY <1>1, IInvImplies, PTL

(***************************************************************************)
(* Every wizard but danne is a member of exactly the domain his entry      *)
(* names, after any commands, those that ended in an error among them.     *)
(***************************************************************************)
THEOREM MembersAgreeAlways == Spec => []MembersAgree
<1>1. Spec => []IInv
  BY InitInv, NextInv, PTL DEF Spec
<1> QED BY <1>1, IInvImplies, PTL

(***************************************************************************)
(* No domain but WIZARD_DOMAIN is over its limit, whatever the order of    *)
(* drafts, foundings, removals and new limits.                             *)
(***************************************************************************)
THEOREM NoCrowdingAlways == Spec => []NoCrowding
<1>1. Spec => []IInv
  BY InitInv, NextInv, PTL DEF Spec
<1> QED BY <1>1, IInvImplies, PTL

(***************************************************************************)
(* Who is in a domain of his own has no application left.                  *)
(***************************************************************************)
THEOREM ApplicantsAreFreeAlways == Spec => []ApplicantsAreFree
<1>1. Spec => []IInv
  BY InitInv, NextInv, PTL DEF Spec
<1> QED BY <1>1, IInvImplies, PTL
-----------------------------------------------------------------------------
(***************************************************************************)
(* The offices.                                                            *)
(***************************************************************************)
Holder(b, d, r) == b.domains[d][Office[r]]
Agree(b, d) ==
  \A r \in {LORD, STEWARD}, w \in Names :
    Holder(b, d, r) = w <=> RankOf(b, w) = r /\ DomOf(b, w) = d

LEMMA HolderFacts ==
  ASSUME NEW b, NEW d
  PROVE  /\ Holder(b, d, LORD) = b.domains[d].lord
         /\ Holder(b, d, STEWARD) = b.domains[d].steward
         /\ LORD # STEWARD /\ Nobody \notin Names
         /\ LORD # MORTAL /\ STEWARD # MORTAL
         /\ NORMAL \notin {LORD, STEWARD}
<1>1. Holder(b, d, LORD) = b.domains[d].lord /\ Holder(b, d, STEWARD) = b.domains[d].steward
  BY OfficeFacts DEF Holder
<1>2. LORD # STEWARD /\ LORD # MORTAL /\ STEWARD # MORTAL /\ NORMAL \notin {LORD, STEWARD}
  BY DEF LORD, STEWARD, MORTAL, NORMAL
<1>3. Nobody \notin Names
  BY ConstantsAssumption DEF Nobody, Names
<1> QED BY <1>1, <1>2, <1>3

LEMMA AppointedHolder ==
  ASSUME NEW b, NEW c, NEW d, NEW r \in {LORD, STEWARD}, NEW w, Appointed(b, c, d, r, w),
         NEW x \in DOMAIN b.domains, NEW q \in {LORD, STEWARD}
  PROVE  Holder(c, x, q) = IF x = d /\ q = r THEN w ELSE Holder(b, x, q)
<1>1. CASE q = LORD
  BY <1>1, HolderFacts DEF Appointed
<1>2. CASE q = STEWARD
  BY <1>2, HolderFacts DEF Appointed
<1> QED BY <1>1, <1>2

LEMMA VacateHolder ==
  ASSUME NEW b \in Books, ~b.error, NEW w \in DOMAIN b.wizards
  PROVE  LET c == Vacate(b, w) IN
         /\ ~c.error => \A x \in DOMAIN b.domains, q \in {LORD, STEWARD} :
              Holder(c, x, q) = IF RankOf(b, w) = q /\ DomOf(b, w) = x
                                THEN Nobody ELSE Holder(b, x, q)
         /\ c.error => RankOf(b, w) \in {LORD, STEWARD} /\ DomOf(b, w) \notin DOMAIN b.domains
<1> DEFINE r == b.wizards[w].rank
           d == b.wizards[w].dom
           e == [b EXCEPT !.domains[d][Office[r]] = Nobody]
           c == Vacate(b, w)
<1>1. RankOf(b, w) = r /\ DomOf(b, w) = d
  BY DEF RankOf, DomOf
<1>2. CASE r \notin DOMAIN Office
  <2>1. c = b
    BY <1>2 DEF Vacate
  <2> HIDE DEF c
  <2> QED BY <1>1, <1>2, <2>1, OfficeFacts DEF c
<1>3. CASE r \in DOMAIN Office /\ d \notin DOMAIN b.domains
  <2>1. c = Fail(b) /\ Fail(b).error
    BY <1>3, FailFacts DEF Vacate
  <2> HIDE DEF c
  <2> QED BY <1>1, <1>3, <2>1, OfficeFacts DEF c
<1>4. CASE r \in DOMAIN Office /\ d \in DOMAIN b.domains
  <2>1. c = e
    BY <1>4 DEF Vacate
  <2>2. r \in {LORD, STEWARD}
    BY <1>4, OfficeFacts
  <2> HIDE DEF c, r, d
  <2>3. Appointed(b, e, d, r, Nobody)
    BY <1>4, <2>2, AppointFacts
  <2> HIDE DEF e
  <2>4. ~c.error
    BY <2>1, <2>3 DEF Appointed
  <2>5. \A x \in DOMAIN b.domains, q \in {LORD, STEWARD} :
          Holder(e, x, q) = IF x = d /\ q = r THEN Nobody ELSE Holder(b, x, q)
    BY <2>2, <2>3, AppointedHolder
  <2> QED BY <1>1, <2>1, <2>4, <2>5 DEF c
<1> QED BY <1>2, <1>3, <1>4

\* Somebody who gets a rank without an office leaves the offices in order.
LEMMA PlainRankAgree ==
  ASSUME NEW b \in Books, ~b.error, NEW w \in DOMAIN b.wizards,
         NEW r \in Ranks \ {LORD, STEWARD},
         NEW d \in DOMAIN b.domains, Agree(b, d)
  PROVE  Agree(SetRank(Vacate(b, w), w, r), d)
<1> DEFINE v == Vacate(b, w)
           c == SetRank(v, w, r)
<1>1. Reranked(b, v) /\ v.wizards = b.wizards /\ (v.error => v.domains = b.domains)
  BY VacateFacts
<1>2. ~v.error => \A q \in {LORD, STEWARD} :
         Holder(v, d, q) = IF RankOf(b, w) = q /\ DomOf(b, w) = d
                           THEN Nobody ELSE Holder(b, d, q)
  BY VacateHolder
<1> HIDE DEF v
<1>3. /\ Reranked(v, c) /\ c.error = v.error /\ c.domains = v.domains
      /\ \A x \in DOMAIN v.wizards :
           c.wizards[x].rank = IF x = w /\ ~v.error THEN r ELSE v.wizards[x].rank
  BY <1>1, SetRankKeeps DEF Reranked
<1> HIDE DEF c
<1>4. /\ \A x : DomOf(c, x) = DomOf(b, x)
      /\ \A x : RankOf(c, x) = IF x = w /\ ~v.error THEN r ELSE RankOf(b, x)
      /\ w \in Names
  BY <1>1, <1>3, BookFields DEF Reranked, RankOf, DomOf
<1>5. \A q : Holder(c, d, q) = Holder(v, d, q)
  BY <1>3 DEF Holder
<1>6. ASSUME v.error PROVE Agree(c, d)
  BY <1>1, <1>3, <1>4, <1>6 DEF Agree, Holder
<1>7. ASSUME ~v.error PROVE Agree(c, d)
  <2> SUFFICES ASSUME NEW q \in {LORD, STEWARD}, NEW x \in Names
               PROVE  Holder(c, d, q) = x <=> RankOf(c, x) = q /\ DomOf(c, x) = d
    BY DEF Agree
  <2>1. /\ Holder(b, d, q) = x <=> RankOf(b, x) = q /\ DomOf(b, x) = d
        /\ Holder(b, d, q) = w <=> RankOf(b, w) = q /\ DomOf(b, w) = d
    BY <1>4 DEF Agree
  <2>2. /\ Holder(c, d, q) = IF RankOf(b, w) = q /\ DomOf(b, w) = d
                             THEN Nobody ELSE Holder(b, d, q)
        /\ RankOf(c, x) = (IF x = w THEN r ELSE RankOf(b, x))
        /\ DomOf(c, x) = DomOf(b, x) /\ r # q /\ Nobody # x
    BY <1>2, <1>4, <1>5, <1>7, HolderFacts
  <2> QED BY <2>1, <2>2
<1> QED BY <1>6, <1>7 DEF c, v

(***************************************************************************)
(* Seat and SetRank together, after w has given up what he had: u is what  *)
(* the books were before that.  The old holder gives up his office before  *)
(* w is put in, so that no second office is left with a wrong name.        *)
(***************************************************************************)
LEMMA OfficeRankAgree ==
  ASSUME NEW u \in Books, ~u.error, NEW w \in DOMAIN u.wizards,
         NEW r \in {LORD, STEWARD}, NEW d \in DOMAIN u.domains, Agree(u, d)
  PROVE  Agree(SetRank(Seat(Vacate(u, w), w, r), w, r), d)
<1> DEFINE v == Vacate(u, w)
           s == Seat(v, w, r)
           c == SetRank(s, w, r)
           h == u.wizards[w].dom
           old == Holder(v, h, r)
           k == IF old = Nobody THEN v ELSE SetRank(Vacate(v, old), old, NORMAL)
           e == [k EXCEPT !.domains[h][Office[r]] = w]
<1>1. Reranked(u, v) /\ v.wizards = u.wizards /\ (v.error => v.domains = u.domains)
  BY VacateFacts
<1>2. ~v.error => \A x \in DOMAIN u.domains, q \in {LORD, STEWARD} :
         Holder(v, x, q) = IF RankOf(u, w) = q /\ DomOf(u, w) = x
                           THEN Nobody ELSE Holder(u, x, q)
  BY VacateHolder
<1>3. /\ v \in Books /\ w \in DOMAIN v.wizards /\ w \in Names
      /\ DOMAIN v.domains = DOMAIN u.domains
      /\ RankOf(u, w) = u.wizards[w].rank /\ DomOf(u, w) = h
      /\ \A x : RankOf(v, x) = RankOf(u, x) /\ DomOf(v, x) = DomOf(u, x)
  BY <1>1, BookFields DEF Reranked, RankOf, DomOf
<1>4. s = IF v.error \/ h \notin DOMAIN v.domains THEN Fail(v)
          ELSE IF k.error THEN k ELSE e
  BY <1>1, OfficeFacts DEF Seat, Holder
<1> HIDE DEF v, h, s
<1>5. CASE v.error \/ h \notin DOMAIN v.domains
  <2>1. s = Fail(v) /\ s \in Books /\ s.error /\ c = s
    BY <1>3, <1>4, <1>5, FailFacts DEF Reranked, SetRank
  <2>2. c.wizards = v.wizards /\ c.domains = v.domains
    BY <1>3, <2>1, FailFacts
  <2> HIDE DEF c
  <2>3. \A x : RankOf(c, x) = RankOf(u, x) /\ DomOf(c, x) = DomOf(u, x)
    BY <1>1, <2>2 DEF RankOf, DomOf
  <2>4. \A q \in {LORD, STEWARD} : Holder(c, d, q) = Holder(u, d, q)
    <3>1. CASE v.error
      BY <1>1, <2>2, <3>1 DEF Holder
    <3>2. CASE ~v.error
      BY <1>2, <1>3, <1>5, <2>2, <3>2 DEF Holder
    <3> QED BY <3>1, <3>2
  <2> QED BY <2>3, <2>4 DEF Agree, c, s, v
<1>6. CASE ~v.error /\ h \in DOMAIN v.domains
  <2> DEFINE Moved(x, q) == RankOf(u, old) = q /\ DomOf(u, old) = x /\ old # Nobody
  <2>1. /\ k \in Books /\ DOMAIN k.domains = DOMAIN u.domains
        /\ DOMAIN k.wizards = DOMAIN u.wizards
        /\ \A x : DomOf(k, x) = DomOf(u, x)
        /\ ~k.error =>
             /\ \A x : RankOf(k, x) = IF x = old /\ old # Nobody THEN NORMAL ELSE RankOf(u, x)
             /\ \A x \in DOMAIN u.domains, q \in {LORD, STEWARD} :
                  Holder(k, x, q) = IF Moved(x, q) THEN Nobody ELSE Holder(v, x, q)
        /\ k.error => /\ \A x : RankOf(k, x) = RankOf(u, x)
                      /\ k.domains = v.domains
                      /\ old # Nobody
                      /\ \/ old \notin DOMAIN u.wizards
                         \/ DomOf(u, old) \notin DOMAIN u.domains
    <3> HIDE DEF old
    <3>1. CASE old = Nobody
      <4>1. k = v
        BY <3>1
      <4> HIDE DEF k
      <4> QED BY <1>3, <1>6, <3>1, <4>1, <1>1
    <3>2. CASE old # Nobody
      <4> DEFINE y == Vacate(v, old)
      <4>1. k = SetRank(y, old, NORMAL)
        BY <3>2
      <4> HIDE DEF k
      <4>2. /\ Reranked(v, y) /\ y.wizards = v.wizards
            /\ y.error => y.domains = v.domains
            /\ ~y.error => old \in DOMAIN v.wizards
        BY <1>3, VacateFacts
      <4>3. CASE y.error
        <5>1. k = y
          BY <4>1, <4>3 DEF SetRank
        <5>2. old \in DOMAIN v.wizards => DomOf(v, old) \notin DOMAIN v.domains
          BY <1>3, <1>6, <4>3, VacateHolder
        <5> HIDE DEF y
        <5> QED BY <1>1, <1>3, <3>2, <4>2, <4>3, <5>1, <5>2 DEF Reranked, RankOf, DomOf
      <4>4. CASE ~y.error
        <5>1. old \in DOMAIN v.wizards
          BY <4>2, <4>4
        <5>2. \A x \in DOMAIN v.domains, q \in {LORD, STEWARD} :
                Holder(y, x, q) = IF RankOf(v, old) = q /\ DomOf(v, old) = x
                                  THEN Nobody ELSE Holder(v, x, q)
          BY <1>3, <1>6, <4>4, <5>1, VacateHolder
        <5> HIDE DEF y
        <5>3. /\ Reranked(y, k) /\ k.error = y.error /\ k.domains = y.domains
              /\ \A x \in DOMAIN y.wizards :
                   k.wizards[x].rank = IF x = old /\ ~y.error THEN NORMAL ELSE y.wizards[x].rank
          BY <4>1, <4>2, <5>1, RankFacts, SetRankKeeps DEF Reranked
        <5>4. /\ k \in Books /\ DOMAIN k.domains = DOMAIN u.domains
              /\ DOMAIN k.wizards = DOMAIN u.wizards /\ ~k.error
          BY <1>1, <4>2, <4>4, <5>3 DEF Reranked
        <5>5. \A x : DomOf(k, x) = DomOf(u, x)
          BY <1>1, <4>2, <5>3 DEF Reranked, DomOf
        <5>6. \A x : RankOf(k, x) = IF x = old /\ old # Nobody THEN NORMAL ELSE RankOf(u, x)
          BY <1>1, <3>2, <4>2, <4>4, <5>1, <5>3 DEF Reranked, RankOf
        <5>7. \A x \in DOMAIN u.domains, q \in {LORD, STEWARD} :
                Holder(k, x, q) = IF Moved(x, q) THEN Nobody ELSE Holder(v, x, q)
          BY <1>3, <3>2, <5>2, <5>3 DEF Holder
        <5> HIDE DEF Moved
        <5> QED BY <5>4, <5>5, <5>6, <5>7
      <4> QED BY <4>3, <4>4
    <3> QED BY <3>1, <3>2
  <2>2. /\ old \in Names \cup {Nobody}
        /\ \A q \in {LORD, STEWARD} :
             Holder(v, d, q) = IF RankOf(u, w) = q /\ h = d THEN Nobody ELSE Holder(u, d, q)
        /\ old = IF RankOf(u, w) = r THEN Nobody ELSE Holder(u, h, r)
    <3>1. v.domains[h] \in Ledger
      BY <1>3, <1>6, BookFields
    <3>2. old \in Names \cup {Nobody}
      BY <3>1, HolderFacts DEF Ledger
    <3> QED BY <1>2, <1>3, <1>6, <3>2
  <2>3. ASSUME NEW q \in {LORD, STEWARD}, NEW x \in Names
        PROVE  Holder(u, d, q) = x <=> RankOf(u, x) = q /\ DomOf(u, x) = d
    BY DEF Agree
  <2> HIDE DEF k, old
  <2>4. ASSUME k.error PROVE Agree(c, d)
    <3>1. s = k /\ c = k
      BY <1>4, <1>6, <2>4 DEF SetRank
    <3> HIDE DEF c
    <3>2. d # h
      <4> SUFFICES ASSUME d = h PROVE FALSE
        OBVIOUS
      <4>1. old \in Names /\ Holder(u, d, r) = old
        BY <2>1, <2>2, <2>4
      <4>2. RankOf(u, old) = r /\ DomOf(u, old) = d
        BY <2>3, <4>1
      <4> QED BY <2>1, <2>4, <4>2, HolderFacts DEF RankOf
    <3>3. \A q \in {LORD, STEWARD} : Holder(c, d, q) = Holder(u, d, q)
      BY <2>1, <2>2, <2>4, <3>1, <3>2 DEF Holder
    <3> QED BY <2>1, <2>4, <3>1, <3>3 DEF Agree
  <2>5. ASSUME ~k.error PROVE Agree(c, d)
    <3>1. s = e
      BY <1>4, <1>6, <2>5
    <3>2. Appointed(k, e, h, r, w)
      BY <1>3, <1>6, <2>1, <2>5, AppointFacts
    <3> HIDE DEF e
    <3>3. /\ e \in Books /\ e.wizards = k.wizards /\ ~e.error
          /\ w \in DOMAIN e.wizards /\ r \in Ranks
      BY <1>3, <2>1, <2>5, <3>2 DEF Appointed, Ranks, LORD, STEWARD, MORTAL, KEEPER
    <3>4. /\ Reranked(e, c) /\ c.domains = e.domains
          /\ \A x \in DOMAIN e.wizards :
               c.wizards[x].rank = IF x = w THEN r ELSE e.wizards[x].rank
      BY <3>1, <3>3, SetRankKeeps
    <3> HIDE DEF c
    <3>5. /\ \A x : RankOf(c, x) = IF x = w THEN r ELSE RankOf(k, x)
          /\ \A x : DomOf(c, x) = DomOf(k, x)
      BY <3>3, <3>4 DEF RankOf, DomOf, Reranked
    <3>6. \A q \in {LORD, STEWARD} :
            Holder(e, d, q) = IF d = h /\ q = r THEN w ELSE Holder(k, d, q)
      <4> SUFFICES ASSUME NEW q \in {LORD, STEWARD}
                   PROVE  Holder(e, d, q) = IF d = h /\ q = r THEN w ELSE Holder(k, d, q)
        OBVIOUS
      <4>1. CASE q = LORD
        BY <2>1, <3>2, <4>1, HolderFacts DEF Appointed
      <4>2. CASE q = STEWARD
        BY <2>1, <3>2, <4>2, HolderFacts DEF Appointed
      <4> QED BY <4>1, <4>2
    <3>7. \A q : Holder(c, d, q) = Holder(e, d, q)
      BY <3>4 DEF Holder
    <3> SUFFICES ASSUME NEW q \in {LORD, STEWARD}, NEW x \in Names
                 PROVE  Holder(c, d, q) = x <=> RankOf(c, x) = q /\ DomOf(c, x) = d
      BY DEF Agree
    <3>8. /\ RankOf(c, x) = IF x = w THEN r
                            ELSE IF x = old THEN NORMAL ELSE RankOf(u, x)
          /\ DomOf(c, x) = DomOf(u, x)
          /\ Nobody # x /\ NORMAL # q
      BY <2>1, <2>5, <3>5, HolderFacts
    <3>9. /\ Holder(c, d, q) = IF d = h /\ q = r THEN w
               ELSE IF RankOf(u, old) = q /\ DomOf(u, old) = d /\ old # Nobody THEN Nobody
               ELSE IF RankOf(u, w) = q /\ h = d THEN Nobody ELSE Holder(u, d, q)
      BY <2>1, <2>2, <2>5, <3>6, <3>7
    <3>10. /\ Holder(u, d, q) = x <=> RankOf(u, x) = q /\ DomOf(u, x) = d
           /\ Holder(u, d, q) = w <=> RankOf(u, w) = q /\ DomOf(u, w) = d
           /\ Holder(u, d, r) = x <=> RankOf(u, x) = r /\ DomOf(u, x) = d
           /\ Holder(u, d, r) = w <=> RankOf(u, w) = r /\ DomOf(u, w) = d
           /\ old # Nobody => /\ Holder(u, d, q) = old <=> RankOf(u, old) = q /\ DomOf(u, old) = d
                              /\ Holder(u, d, r) = old <=> RankOf(u, old) = r /\ DomOf(u, old) = d
      BY <1>3, <2>2, <2>3
    <3>11. CASE d = h
      BY <1>3, <2>2, <3>8, <3>9, <3>10, <3>11
    <3>12. CASE d # h
      BY <1>3, <2>2, <3>8, <3>9, <3>10, <3>12
    <3> QED BY <3>11, <3>12
  <2> QED BY <2>4, <2>5 DEF c, s, v
<1> QED BY <1>5, <1>6

LEMMA ChangeRankAgree ==
  ASSUME NEW b \in Books, NEW w \in DOMAIN b.wizards, NEW r \in Ranks,
         NEW d \in DOMAIN b.domains, Agree(b, d)
  PROVE  Agree(ChangeRank(b, w, r), d)
<1> DEFINE c == ChangeRank(b, w, r)
<1>1. CASE b.error
  <2>1. Vacate(b, w) = Fail(b)
    BY <1>1 DEF Vacate
  <2>2. Fail(b).error /\ Fail(b).wizards = b.wizards /\ Fail(b).domains = b.domains
        /\ Fail(b) \in Books
    BY FailFacts DEF Reranked
  <2>3. Fail(Fail(b)).error /\ Fail(Fail(b)).wizards = b.wizards
        /\ Fail(Fail(b)).domains = b.domains
    BY <2>2, FailFacts DEF Reranked
  <2>4. c.wizards = b.wizards /\ c.domains = b.domains
    BY <2>1, <2>2, <2>3 DEF ChangeRank, Seat, SetRank
  <2> HIDE DEF c
  <2>5. /\ \A x : RankOf(c, x) = RankOf(b, x) /\ DomOf(c, x) = DomOf(b, x)
        /\ \A q : Holder(c, d, q) = Holder(b, d, q)
    BY <2>4 DEF RankOf, DomOf, Holder
  <2> QED BY <2>5 DEF Agree, c
<1>2. CASE ~b.error /\ r \in {LORD, STEWARD}
  <2>1. c = SetRank(Seat(Vacate(b, w), w, r), w, r)
    BY <1>2, OfficeFacts DEF ChangeRank
  <2> QED BY <1>2, <2>1, OfficeRankAgree
<1>3. CASE ~b.error /\ r \notin {LORD, STEWARD}
  <2>1. c = SetRank(Vacate(b, w), w, r)
    BY <1>3, OfficeFacts DEF ChangeRank
  <2> QED BY <1>3, <2>1, PlainRankAgree
<1> QED BY <1>1, <1>2, <1>3

(***************************************************************************)
(* Books that say the same of a domain and of everybody's rank, and of     *)
(* everybody's domain as far as that one and the holders of an office are  *)
(* concerned, agree on its offices alike.                                  *)
(***************************************************************************)
LEMMA SameOfficesAgree ==
  ASSUME NEW b, NEW c, NEW d, Agree(b, d),
         c.domains[d].lord = b.domains[d].lord,
         c.domains[d].steward = b.domains[d].steward,
         \A x \in Names : RankOf(c, x) = RankOf(b, x),
         \A x \in Names : RankOf(b, x) \in {LORD, STEWARD} =>
           (DomOf(c, x) = d <=> DomOf(b, x) = d)
  PROVE  Agree(c, d)
<1>1. \A q \in {LORD, STEWARD} : Holder(c, d, q) = Holder(b, d, q)
  BY HolderFacts
<1> QED BY <1>1 DEF Agree

\* A move of somebody without an office.
LEMMA AddToDomainAgree ==
  ASSUME NEW b \in Books, WIZARD_DOMAIN \in DOMAIN b.domains, NEW w \in DOMAIN b.wizards,
         ~b.error => RankOf(b, w) \notin {LORD, STEWARD},
         NEW dname \in DOMAIN b.domains \cup {NoDomain},
         NEW d \in DOMAIN b.domains, Agree(b, d)
  PROVE  Agree(AddToDomain(b, dname, w), d)
<1> DEFINE to == Destination(b, dname, w)
           c == AddToDomain(b, dname, w)
<1>1. CASE b.error
  BY <1>1 DEF AddToDomain
<1>2. CASE ~b.error
  <2>1. Rehoused(b, c, to, w)
    BY <1>2, AddToDomainFacts
  <2> HIDE DEF to, c
  <2>2. /\ \A x : RankOf(c, x) = RankOf(b, x)
        /\ \A x : x # w => DomOf(c, x) = DomOf(b, x)
    BY <2>1, RehousedNames
  <2>3. Agree(c, d)
    BY <1>2, <2>1, <2>2, SameOfficesAgree DEF Rehoused
  <2> QED BY <2>3 DEF c
<1> QED BY <1>1, <1>2

LEMMA DismissedAgree ==
  ASSUME NEW b, Sound(b), NEW w \in DOMAIN b.wizards,
         NEW r \in {MORTAL, APPRENTICE, PILGRIM, RETIRED},
         NEW d \in DOMAIN b.domains, Agree(b, d)
  PROVE  Agree(Dismissed(b, w, r), d)
<1> DEFINE c == ChangeRank(b, w, r)
<1>1. r \in Ranks /\ r \notin {LORD, STEWARD} /\ b \in Books
  BY RankFacts DEF Sound, Core
<1>2. /\ Core(c)
      /\ ~c.error => RankOf(c, w) = r
      /\ DOMAIN c.wizards = DOMAIN b.wizards /\ DOMAIN c.domains = DOMAIN b.domains
  BY <1>1, ChangeRankOfSound
<1>3. Agree(c, d)
  BY <1>1, ChangeRankAgree
<1> HIDE DEF c
<1>4. Agree(AddToDomain(c, NoDomain, w), d)
  BY <1>1, <1>2, <1>3, AddToDomainAgree DEF Core
<1> QED BY <1>4 DEF Dismissed, c

LEMMA DischargeAgree ==
  ASSUME NEW b, Sound(b), NEW w \in DOMAIN b.wizards,
         NEW d \in DOMAIN b.domains, Agree(b, d)
  PROVE  Agree(Discharge(w, b), d)
<1>1. b \in Books /\ WIZARD_DOMAIN \in DOMAIN b.domains
  BY DEF Sound, Core
<1>2. CASE b.wizards[w].rank \in {MAGE, ARCH, KEEPER}
  <2>1. RankOf(b, w) \notin {LORD, STEWARD}
    BY <1>2 DEF RankOf, MAGE, ARCH, KEEPER, LORD, STEWARD
  <2>2. Agree(AddToDomain(b, NoDomain, w), d)
    BY <1>1, <2>1, AddToDomainAgree
  <2> QED BY <1>2, <2>2 DEF Discharge
<1>3. CASE b.wizards[w].rank \notin {MAGE, ARCH, KEEPER}
  <2>1. Agree(Dismissed(b, w, APPRENTICE), d)
    BY DismissedAgree
  <2> QED BY <1>3, <2>1 DEF Discharge, Dismissed
<1> QED BY <1>2, <1>3

LEMMA OfficesOfTables ==
  ASSUME NEW d
  PROVE  OfficesAgree(d) <=> Agree(Tables, d)
BY TablesFields DEF OfficesAgree, Agree, Holder

LEMMA CommitAgree ==
  ASSUME NEW b, Commit(b), NEW d, Agree(b, d)
  PROVE  OfficesAgree(d)'
<1>1. /\ m_domains' = b.domains
      /\ \A x : Rank(x)' = RankOf(b, x) /\ Dom(x)' = DomOf(b, x)
  BY DEF Commit, Rank, Dom, RankOf, DomOf
<1> QED BY <1>1 DEF OfficesAgree, Agree, Holder

\* what the steps below start from
LEMMA SoundStart ==
  ASSUME IInv, NEW d \in DOMAIN m_domains, OfficesAgree(d)
  PROVE  /\ Tables \in Books /\ WIZARD_DOMAIN \in DOMAIN Tables.domains
         /\ d \in DOMAIN Tables.domains /\ Agree(Tables, d)
         /\ \A w : Rank(w) \in Ranks
BY TablesFields, OfficesOfTables, RankOfType DEF IInv, Sound, Core

LEMMA SetKeeperAgree ==
  ASSUME IInv, NEW d \in DOMAIN m_domains, OfficesAgree(d), NEW w, SetKeeper(w)
  PROVE  OfficesAgree(d)'
<1> DEFINE r == IF Rank(w) = ARCH THEN KEEPER ELSE ARCH
<1>1. w \in DOMAIN Tables.wizards
  BY RankedIsWizard, TablesFields DEF SetKeeper, ARCH, KEEPER, MORTAL
<1>2. r \in Ranks
  BY DEF Ranks, ARCH, KEEPER, MORTAL
<1>3. Commit(ChangeRank(Tables, w, r))
  BY DEF SetKeeper
<1> HIDE DEF r
<1> QED BY <1>1, <1>2, <1>3, SoundStart, ChangeRankAgree, CommitAgree

LEMMA DismissalAgree ==
  ASSUME IInv, NEW d \in DOMAIN m_domains, OfficesAgree(d), NEW w \in DOMAIN m_wizards,
         NEW r \in {MORTAL, APPRENTICE, PILGRIM, RETIRED},
         Commit(AddToDomain(ChangeRank(Tables, w, r), NoDomain, w))
  PROVE  OfficesAgree(d)'
<1>1. Agree(Dismissed(Tables, w, r), d)
  BY SoundStart, DismissedAgree, TablesFields DEF IInv
<1> QED BY <1>1, CommitAgree DEF Dismissed

LEMMA TransferAgree ==
  ASSUME IInv, NEW d \in DOMAIN m_domains, OfficesAgree(d), NEW w \in DOMAIN m_wizards,
         Rank(w) \notin {LORD, STEWARD}, NEW dname \in DOMAIN m_domains \cup {NoDomain},
         Commit(AddToDomain(Tables, dname, w))
  PROVE  OfficesAgree(d)'
<1>1. Agree(AddToDomain(Tables, dname, w), d)
  BY SoundStart, AddToDomainAgree, TablesFields
<1> QED BY <1>1, CommitAgree

LEMMA DeparturesAgree ==
  ASSUME IInv, NEW d \in DOMAIN m_domains, OfficesAgree(d), NEW w,
         Retire(w) \/ Leave(w) \/ Expel(w)
  PROVE  OfficesAgree(d)'
<1>1. w \in DOMAIN m_wizards
  BY RankedIsWizard DEF Retire, Leave, Expel, NORMAL, LORD, MORTAL
<1>2. Lasting(Rank(w)) => Rank(w) \notin {LORD, STEWARD}
  BY SoundStart, RankFacts
<1>3. WIZARD_DOMAIN \in DOMAIN m_domains
  BY SoundStart, TablesFields
<1>4. CASE Retire(w)
  BY <1>1, <1>4, DismissalAgree DEF Retire
<1>5. CASE Leave(w)
  BY <1>1, <1>2, <1>5, DismissalAgree, TransferAgree DEF Leave
<1>6. CASE Expel(w)
  BY <1>1, <1>2, <1>3, <1>6, DismissalAgree, TransferAgree DEF Expel
<1> QED BY <1>4, <1>5, <1>6

\* The founder becomes liege of the new domain; no other is concerned.
LEMMA MakeDomainAgree ==
  ASSUME IInv, NEW d \in DOMAIN m_domains, OfficesAgree(d),
         NEW nd \in DomainNames, NEW w, MakeDomain(nd, w)
  PROVE  OfficesAgree(d)'
<1> DEFINE m == Made(Tables, nd, w)
           a == AddToDomain(m, nd, w)
<1>1. w \in DOMAIN Tables.wizards /\ w \in Names /\ nd \in DomainNames \ DOMAIN Tables.domains
  BY RankedIsWizard, TablesFields, BookFields, SoundStart
     DEF MakeDomain, APPRENTICE, MORTAL
<1>2. /\ m \in Books /\ m.wizards = Tables.wizards /\ ~m.error
      /\ DOMAIN m.domains = DOMAIN Tables.domains \cup {nd}
      /\ \A x \in DOMAIN Tables.domains : m.domains[x] = Tables.domains[x]
  BY <1>1, MadeFacts, TablesFields, SoundStart
<1> HIDE DEF m
<1>3. \A x : RankOf(m, x) = RankOf(Tables, x) /\ DomOf(m, x) = DomOf(Tables, x)
  BY <1>2 DEF RankOf, DomOf
<1>4. Agree(m, d)
  BY <1>2, <1>3, SoundStart, SameOfficesAgree
<1>5. RankOf(m, w) \notin {LORD, STEWARD}
  BY <1>3, TablesFields DEF MakeDomain, APPRENTICE, LORD, STEWARD
<1>6. nd \in DOMAIN m.domains /\ d \in DOMAIN m.domains /\ w \in DOMAIN m.wizards
      /\ WIZARD_DOMAIN \in DOMAIN m.domains
  BY <1>1, <1>2, SoundStart
<1>7. Agree(a, d)
  BY <1>2, <1>4, <1>5, <1>6, AddToDomainAgree
<1>8. Rehoused(m, a, Destination(m, nd, w), w)
  BY <1>2, <1>6, AddToDomainFacts
<1> HIDE DEF a
<1>9. a \in Books /\ w \in DOMAIN a.wizards /\ d \in DOMAIN a.domains
  BY <1>6, <1>8 DEF Rehoused
<1>10. Agree(ChangeRank(a, w, LORD), d)
  BY <1>7, <1>9, RankFacts, ChangeRankAgree
<1>11. Commit(ChangeRank(a, w, LORD))
  BY DEF MakeDomain, m, a
<1> QED BY <1>10, <1>11, CommitAgree

LEMMA RemoveDomainAgree ==
  ASSUME IInv, NEW d \in DOMAIN m_domains, OfficesAgree(d),
         NEW rd \in DomainNames, NEW renamed \in BOOLEAN, RemoveDomain(rd, renamed),
         d \in DOMAIN m_domains'
  PROVE  OfficesAgree(d)'
<1> DEFINE S == Members(rd)
           b == Discharged(Tables, S)
           e == IF renamed /\ ~b.error
                THEN [b EXCEPT !.domains = Restrict(@, DOMAIN @ \ {rd})] ELSE b
<1>1. rd \in DOMAIN Tables.domains \ {WIZARD_DOMAIN} /\ S = Tables.domains[rd].members
  BY TablesFields DEF RemoveDomain, Members
<1>2. IsFiniteSet(S) /\ S \subseteq Names
  BY <1>1, BookFields DEF IInv, Sound, Core, Ledger
<1>3. S \subseteq DOMAIN Tables.wizards
  <2>1. \A x \in S : DomOf(Tables, x) = rd
    BY <1>1, <1>2 DEF IInv, Sound, Core, Listed
  <2> QED BY <2>1, NoDomainIsNone DEF DomOf
<1> HIDE DEF S
<1>4. PICK f : Folded(f, Tables, S)
  BY <1>2, DischargeFold, Zenon
<1>5. /\ f[S] = b
      /\ f[{}] = Tables
      /\ \A s \in SUBSET S : s # {} =>
           Pick(s) \in s /\ f[s] = Discharge(Pick(s), f[s \ {Pick(s)}])
  BY <1>4 DEF Folded
<1> DEFINE Q(s) == /\ Sound(f[s]) /\ Agree(f[s], d)
                   /\ DOMAIN f[s].wizards = DOMAIN Tables.wizards
                   /\ DOMAIN f[s].domains = DOMAIN Tables.domains
           X == {s \in SUBSET S : ~Q(s)}
<1>6. Q({})
  BY <1>5, SoundStart DEF IInv
<1>7. ASSUME NEW s \in SUBSET S, s # {}, Q(s \ {Pick(s)})
      PROVE  Q(s)
  <2> DEFINE w == Pick(s)
             k == f[s \ {w}]
  <2>1. w \in s /\ f[s] = Discharge(w, k)
    BY <1>5, <1>7
  <2>2. /\ Sound(k) /\ Agree(k, d) /\ DOMAIN k.wizards = DOMAIN Tables.wizards
        /\ DOMAIN k.domains = DOMAIN Tables.domains
    BY <1>7
  <2> HIDE DEF w, k
  <2>3. /\ w \in DOMAIN k.wizards /\ rd \in DOMAIN k.domains \ {WIZARD_DOMAIN}
        /\ d \in DOMAIN k.domains
    BY <1>1, <1>3, <2>1, <2>2, SoundStart
  <2>4. LET c == Discharge(w, k) IN
        /\ Sound(c)
        /\ DOMAIN c.wizards = DOMAIN k.wizards /\ DOMAIN c.domains = DOMAIN k.domains
    BY <2>2, <2>3, DischargeSound
  <2>5. Agree(Discharge(w, k), d)
    BY <2>2, <2>3, DischargeAgree
  <2> QED BY <2>1, <2>2, <2>4, <2>5
<1> HIDE DEF Q
<1>8. X = {}
  <2>1. {} \notin X /\ \A s \in X : Pick(s) \in s /\ s \ {Pick(s)} \in X
    BY <1>5, <1>6, <1>7
  <2>2. X \in SUBSET (SUBSET S)
    OBVIOUS
  <2> HIDE DEF X
  <2> QED BY <1>2, <2>1, <2>2, DischargingInduction
<1>9. Q(S)
  BY <1>8
<1> HIDE DEF b
<1>10. b \in Books /\ Agree(b, d)
  BY <1>5, <1>9 DEF Q, Sound, Core
<1>11. Commit(e)
  BY DEF RemoveDomain, Discharged, b, S
<1>12. d \in DOMAIN e.domains
  BY <1>11 DEF Commit
<1>13. Agree(e, d)
  <2>1. CASE renamed /\ ~b.error
    <3> DEFINE t == Restrict(b.domains, DOMAIN b.domains \ {rd})
    <3>1. e = [wizards |-> b.wizards, domains |-> t,
               applications |-> b.applications, error |-> b.error]
      BY <1>10, <2>1, BookFields
    <3>2. \A x \in DOMAIN t : t[x] = b.domains[x]
      BY DEF Restrict
    <3> HIDE DEF t
    <3>3. e.wizards = b.wizards /\ e.domains = t
      BY <3>1
    <3> HIDE DEF e
    <3>4. \A x : RankOf(e, x) = RankOf(b, x) /\ DomOf(e, x) = DomOf(b, x)
      BY <3>3 DEF RankOf, DomOf
    <3>5. e.domains[d] = b.domains[d]
      BY <1>12, <3>2, <3>3
    <3> QED BY <1>10, <3>4, <3>5, SameOfficesAgree
  <2>2. CASE ~(renamed /\ ~b.error)
    BY <1>10, <2>2
  <2> QED BY <2>1, <2>2
<1> HIDE DEF e
<1> QED BY <1>11, <1>13, CommitAgree

LEMMA WizardChangeRankAgree ==
  ASSUME IInv, NEW d \in DOMAIN m_domains, OfficesAgree(d),
         NEW w \in Handled, NEW r \in Titles, WizardChangeRank(w, r)
  PROVE  OfficesAgree(d)'
<1> DEFINE e == Entered(Tables, w)
           c == ChangeRank(e, w, r)
           left == IF r < NORMAL /\ Dom(w) # NoDomain THEN AddToDomain(c, NoDomain, w)
                   ELSE c
           s == Settled(c, w, r)
<1>1. w \in Names /\ r \in Ranks
  BY ConstantsAssumption DEF Names
<1>2. /\ Sound(e) /\ w \in DOMAIN e.wizards
      /\ \A x : RankOf(e, x) = RankOf(Tables, x) /\ DomOf(e, x) = DomOf(Tables, x)
  BY <1>1, EnteredSound DEF IInv
<1>3. e.domains = Tables.domains
  <2>1. CASE w \in DOMAIN Tables.wizards
    BY <2>1 DEF Entered
  <2>2. CASE w \notin DOMAIN Tables.wizards
    BY <2>2, SoundStart, BookFields DEF Entered
  <2> QED BY <2>1, <2>2
<1>4. Sound(left) /\ (r = MORTAL /\ ~left.error => RankOf(left, w) = MORTAL)
  BY <1>1, LeftFacts
<1> HIDE DEF e
<1>5. e \in Books /\ d \in DOMAIN e.domains /\ Agree(e, d)
  BY <1>2, <1>3, SoundStart, SameOfficesAgree DEF Sound, Core
<1>6. Agree(left, d)
  <2>1. CASE r < NORMAL /\ Dom(w) # NoDomain
    <3>1. r \in {MORTAL, APPRENTICE, PILGRIM, RETIRED}
      BY <1>1, <2>1, RankFacts
    <3>2. left = Dismissed(e, w, r)
      BY <2>1 DEF Dismissed
    <3> QED BY <1>2, <1>5, <3>1, <3>2, DismissedAgree
  <2>2. CASE ~(r < NORMAL /\ Dom(w) # NoDomain)
    BY <1>1, <1>2, <1>5, <2>2, ChangeRankAgree
  <2> QED BY <2>1, <2>2
<1>7. s = IF r = MORTAL /\ ~left.error
          THEN [left EXCEPT !.wizards = Restrict(@, DOMAIN @ \ {w})] ELSE left
  BY DEF Settled
<1>8. Commit(s)
  BY DEF WizardChangeRank, e
<1> HIDE DEF left, c
<1>9. Agree(s, d)
  <2>1. CASE r = MORTAL /\ ~left.error
    <3> DEFINE t == Restrict(left.wizards, DOMAIN left.wizards \ {w})
    <3>1. s = [wizards |-> t, domains |-> left.domains,
               applications |-> left.applications, error |-> left.error]
      BY <1>4, <1>7, <2>1, BookFields DEF Sound, Core
    <3>2. DOMAIN t = DOMAIN left.wizards \ {w} /\ \A x \in DOMAIN t : t[x] = left.wizards[x]
      BY DEF Restrict
    <3> HIDE DEF t
    <3>3. s.wizards = t /\ s.domains = left.domains
      BY <3>1
    <3> HIDE DEF s
    <3>4. /\ \A x : RankOf(s, x) = RankOf(left, x)
          /\ \A x : x # w => DomOf(s, x) = DomOf(left, x)
      BY <1>4, <2>1, <3>2, <3>3 DEF RankOf, DomOf
    <3>5. RankOf(left, w) \notin {LORD, STEWARD}
      BY <1>4, <2>1, HolderFacts
    <3> QED BY <1>6, <3>3, <3>4, <3>5, SameOfficesAgree
  <2>2. CASE ~(r = MORTAL /\ ~left.error)
    BY <1>6, <1>7, <2>2
  <2> QED BY <2>1, <2>2
<1> QED BY <1>8, <1>9, CommitAgree

(***************************************************************************)
(* The draft: whoever was promoted to normal has no office, and whoever    *)
(* has one comes from WIZARD_DOMAIN with it.                               *)
(***************************************************************************)
LEMMA DraftAgree ==
  ASSUME IInv, NEW d \in DOMAIN m_domains, OfficesAgree(d),
         NEW nd \in DomainNames, NEW w, Draft(nd, w)
  PROVE  \/ OfficesAgree(d)'
         \/ w \in Names /\ TitledDraft(w) /\ d \in {WIZARD_DOMAIN, Dom(w)'}
<1>1. /\ w \in DOMAIN Tables.wizards /\ w \in Names /\ nd \in DOMAIN Tables.domains
      /\ w \in DOMAIN m_wizards /\ nd # NoDomain
  BY RankedIsWizard, TablesFields, BookFields, SoundStart, NoDomainIsNone
     DEF Draft, APPRENTICE, MORTAL, NORMAL
<1>2. CASE Rank(w) = APPRENTICE
  <2> DEFINE c == ChangeRank(Tables, w, NORMAL)
  <2>1. /\ Core(c)
        /\ ~c.error => RankOf(c, w) = NORMAL
        /\ DOMAIN c.wizards = DOMAIN Tables.wizards /\ DOMAIN c.domains = DOMAIN Tables.domains
    BY <1>1, RankFacts, ChangeRankOfSound DEF IInv
  <2>2. Agree(c, d)
    BY <1>1, RankFacts, SoundStart, ChangeRankAgree
  <2>3. Commit(AddToDomain(c, nd, w))
    BY <1>2 DEF Draft
  <2> HIDE DEF c
  <2>4. Agree(AddToDomain(c, nd, w), d)
    BY <1>1, <2>1, <2>2, SoundStart, RankFacts, AddToDomainAgree DEF Core
  <2> QED BY <2>3, <2>4, CommitAgree
<1>3. CASE Rank(w) # APPRENTICE /\ Rank(w) \notin {LORD, STEWARD}
  BY <1>1, <1>3, TablesFields, TransferAgree DEF Draft
<1>4. CASE Rank(w) \in {LORD, STEWARD}
  <2> DEFINE c == AddToDomain(Tables, nd, w)
  <2>1. Dom(w) = WIZARD_DOMAIN
    BY <1>1, <1>4, TablesFields DEF Draft, IInv, Sound, Titled
  <2>2. Destination(Tables, nd, w) = nd
    BY <1>1 DEF Destination
  <2>3. Commit(c)
    BY <1>4 DEF Draft, APPRENTICE, LORD, STEWARD
  <2>4. Rehoused(Tables, c, nd, w)
    BY <1>1, <2>2, SoundStart, TablesFields, AddToDomainFacts
  <2> HIDE DEF c
  <2>5. /\ \A x : RankOf(c, x) = Rank(x)
        /\ \A x : x # w => DomOf(c, x) = Dom(x)
        /\ DomOf(c, w) = nd
    BY <1>1, <2>4, RehousedNames, TablesFields
  <2>6. Rank(w)' = RankOf(c, w) /\ Dom(w)' = DomOf(c, w)
    BY <2>3 DEF Commit, Rank, Dom, RankOf, DomOf
  <2>7. CASE nd = WIZARD_DOMAIN \/ d \notin {WIZARD_DOMAIN, nd}
    <3>1. \A x : DomOf(c, x) = d <=> DomOf(Tables, x) = d
      BY <2>1, <2>5, <2>7, TablesFields
    <3>2. \A x : RankOf(c, x) = RankOf(Tables, x)
      BY <2>5, TablesFields
    <3>3. Agree(c, d)
      BY <2>4, <3>1, <3>2, SoundStart, SameOfficesAgree DEF Rehoused
    <3> QED BY <2>3, <3>3, CommitAgree
  <2>8. CASE nd # WIZARD_DOMAIN /\ d \in {WIZARD_DOMAIN, nd}
    <3>1. TitledDraft(w)
      BY <1>4, <2>1, <2>5, <2>6, <2>8, OfficeFacts DEF TitledDraft
    <3> QED BY <1>1, <2>5, <2>6, <2>8, <3>1
  <2> QED BY <2>7, <2>8
<1> QED BY <1>2, <1>3, <1>4

LEMMA SetLimitAgree ==
  ASSUME IInv, NEW d \in DOMAIN m_domains, OfficesAgree(d),
         NEW x \in DomainNames, NEW max \in Limits, SetLimit(x, max)
  PROVE  OfficesAgree(d)'
<1>1. /\ m_wizards' = m_wizards
      /\ m_domains' = [m_domains EXCEPT ![x].max = max]
  BY DEF SetLimit
<1>2. m_domains \in [DOMAIN m_domains -> Ledger]
  BY SoundStart, BookFields, TablesFields
<1>3. m_domains[d] \in Ledger
  BY <1>2
<1>4. m_domains'[d].lord = m_domains[d].lord /\ m_domains'[d].steward = m_domains[d].steward
  BY <1>1, <1>2, <1>3 DEF Ledger
<1>5. \A r \in {LORD, STEWARD} : m_domains'[d][Office[r]] = m_domains[d][Office[r]]
  BY <1>4, OfficeFacts
<1> QED BY <1>1, <1>5, OfficeFacts DEF OfficesAgree, Rank, Dom

LEMMA SameTablesAgree ==
  ASSUME NEW d, OfficesAgree(d), UNCHANGED <<m_wizards, m_domains>>
  PROVE  OfficesAgree(d)'
BY DEF OfficesAgree, Rank, Dom

Drift(d) == \E w \in Names : TitledDraft(w) /\ d \in {WIZARD_DOMAIN, Dom(w)'}

LEMMA OfficesStep ==
  ASSUME IInv, [Next]_vars,
         NEW d \in DOMAIN m_domains, OfficesAgree(d), d \in DOMAIN m_domains'
  PROVE  OfficesAgree(d)' \/ Drift(d)
<1>1. ASSUME NEW w \in Handled, Leave(w) \/ Retire(w) \/ Expel(w) PROVE OfficesAgree(d)'
  BY <1>1, DeparturesAgree
<1>2. ASSUME NEW w \in Handled, SetKeeper(w) PROVE OfficesAgree(d)'
  BY <1>2, SetKeeperAgree
<1>3. ASSUME NEW w \in Handled, ClearWizard(w) PROVE OfficesAgree(d)'
  BY <1>3, SameTablesAgree DEF ClearWizard
<1>4. ASSUME NEW w \in Handled, NEW r \in Titles, WizardChangeRank(w, r)
      PROVE  OfficesAgree(d)'
  BY <1>4, WizardChangeRankAgree
<1>5. ASSUME NEW w \in Handled, NEW x \in Asked, Apply(w, x) PROVE OfficesAgree(d)'
  BY <1>5, SameTablesAgree DEF Apply
<1>6. ASSUME NEW w \in Handled, NEW x \in DomainNames, MakeDomain(x, w)
      PROVE  OfficesAgree(d)'
  BY <1>6, MakeDomainAgree
<1>7. ASSUME NEW w \in Handled, NEW x \in DomainNames, Draft(x, w)
      PROVE  OfficesAgree(d)' \/ Drift(d)
  BY <1>7, DraftAgree DEF Drift
<1>8. ASSUME NEW x \in DomainNames, ClearDomain(x) PROVE OfficesAgree(d)'
  BY <1>8, SameTablesAgree DEF ClearDomain
<1>9. ASSUME NEW x \in DomainNames, NEW renamed \in BOOLEAN, RemoveDomain(x, renamed)
      PROVE  OfficesAgree(d)'
  BY <1>9, RemoveDomainAgree
<1>10. ASSUME NEW x \in DomainNames, NEW max \in Limits, SetLimit(x, max)
       PROVE  OfficesAgree(d)'
  BY <1>10, SetLimitAgree
<1>11. ASSUME UNCHANGED vars PROVE OfficesAgree(d)'
  BY <1>11, SameTablesAgree DEF vars
<1> QED BY <1>1, <1>2, <1>3, <1>4, <1>5, <1>6, <1>7, <1>8, <1>9, <1>10, <1>11 DEF Next

(***************************************************************************)
(* Offices and ranks that agree go on agreeing, through every promotion,   *)
(* departure, founding and removal, finished or cut short by an error: the *)
(* draft of a liege or steward of WIZARD_DOMAIN, with the rank he keeps,   *)
(* is the one exception.                                                   *)
(***************************************************************************)
THEOREM OfficesDriftByDraftAlways == Spec => OfficesDriftByDraft
<1>1. Spec => []IInv
  BY InitInv, NextInv, PTL DEF Spec
<1>2. IInv /\ [Next]_vars =>
        [\A d \in DOMAIN m_domains :
           OfficesAgree(d) /\ d \in DOMAIN m_domains' /\ ~OfficesAgree(d)' =>
             \E w \in Names : TitledDraft(w) /\ d \in {WIZARD_DOMAIN, Dom(w)'}]_vars
  BY OfficesStep DEF Drift
<1> QED BY <1>1, <1>2, PTL DEF Spec, OfficesDriftByDraft
=============================================================================
