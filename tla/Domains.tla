------------------------------ MODULE Domains ------------------------------
(***************************************************************************)
(* The administration of wizards and domains: src/secure/master/fob.c,     *)
(* with the checks of the souls that call it (src/std/cmd/wiz/lord.c,      *)
(* arch.c, normal.c, keeper.c).  m_wizards holds the rank of each wizard   *)
(* and the domain he is in; m_domains holds, for each domain, its liege,   *)
(* its steward, the list of its members and the limit on their number;     *)
(* m_applications holds who asked to join.  Every fact is kept twice, and  *)
(* every command changes both copies in several steps, any of which may    *)
(* end in a runtime error that leaves the earlier ones done.               *)
(***************************************************************************)
EXTENDS Integers, FiniteSets, FiniteSetsExt, Functions

CONSTANTS Players,        \* the names that are not wizards at installation
          NewDomains,     \* the names of domains that may be made
          Handled,        \* the wizards that commands are about
          Asked,          \* the domains that are applied to
          Limits,         \* the limits a liege may set
          DOMAIN_MAX,     \* the limit of a new domain
          Titles          \* the ranks that promote and demote are asked for

MORTAL == 0
APPRENTICE == 1
PILGRIM == 2
RETIRED == 3
NORMAL == 4
MAGE == 5
STEWARD == 6
LORD == 7
ARCH == 8
KEEPER == 9
Ranks == MORTAL .. KEEPER

ASSUME ConstantsAssumption ==
  /\ Players \cap {"root", "danne", "wiz", ""} = {}
  /\ NewDomains \cap {"Standard", "Wiz", ""} = {}
  /\ Handled \subseteq Players \cup {"root", "danne", "wiz"}
  /\ Asked \subseteq NewDomains \cup {"Standard", "Wiz"}
  /\ Limits \subseteq Nat
  /\ DOMAIN_MAX \in Nat \ {0}
  /\ Titles \subseteq Ranks

Names == Players \cup {"root", "danne", "wiz"}
WIZARD_DOMAIN == "Wiz"
DomainNames == NewDomains \cup {"Standard", WIZARD_DOMAIN}
Nobody == ""
NoDomain == ""

(***************************************************************************)
(* The ranks one can be promoted or demoted to with the commands of a      *)
(* liege; keepers are made and unmade by a command of their own.           *)
(***************************************************************************)
Full == {NORMAL, MAGE, STEWARD, LORD, ARCH}
PossibleChange(r) ==
  CASE r = MORTAL -> {APPRENTICE}
    [] r = APPRENTICE -> {MORTAL, PILGRIM, RETIRED, NORMAL}
    [] r \in {PILGRIM, RETIRED} -> {MORTAL, APPRENTICE}
    [] r \in Full -> ({MORTAL, APPRENTICE, RETIRED} \cup Full) \ {r}
    [] r = KEEPER -> {}

\* the office in the domain that goes with a rank
Office == [r \in {LORD, STEWARD} |-> IF r = LORD THEN "lord" ELSE "steward"]

\* those whom a domain cannot demote, and who cannot be in none
Lasting(r) == r = MAGE \/ r >= ARCH

\* an entry is made in a table
Added(f, k, v) == [x \in DOMAIN f \cup {k} |-> IF x = k THEN v ELSE f[x]]

VARIABLES m_wizards,       \* the rank and the domain of each wizard
          m_domains,       \* liege, steward, members and limit of each domain
          m_applications   \* who asked to join, for each domain with any

vars == <<m_wizards, m_domains, m_applications>>

\* what is in the save file of the master before the first wizard logs in
DEFAULT_WIZARDS ==
  [w \in {"root", "danne", "wiz"} |->
     IF w = "wiz" THEN [rank |-> LORD, dom |-> WIZARD_DOMAIN]
                  ELSE [rank |-> KEEPER, dom |-> "Standard"]]
DEFAULT_DOMAINS ==
  [d \in {"Standard", WIZARD_DOMAIN} |->
     LET w == IF d = "Standard" THEN "root" ELSE "wiz" IN
     [lord |-> w, steward |-> Nobody, members |-> {w}, max |-> 1]]

Init == /\ m_wizards = DEFAULT_WIZARDS
        /\ m_domains = DEFAULT_DOMAINS
        /\ m_applications = <<>>

Rank(w) == IF w \in DOMAIN m_wizards THEN m_wizards[w].rank ELSE MORTAL
Dom(w) == IF w \in DOMAIN m_wizards THEN m_wizards[w].dom ELSE NoDomain
Members(d) == m_domains[d].members

(***************************************************************************)
(* What a command does depends on who gives it only in that he may: it is  *)
(* enough that there is somebody who may.                                  *)
(***************************************************************************)
Allowed(Who(_)) == {c \in Names : Who(c)} # {}
ByAnArch == Allowed(LAMBDA c : Rank(c) >= ARCH)

-----------------------------------------------------------------------------
(***************************************************************************)
(* The steps commands are made of work on the three tables together.  A    *)
(* step that ends in a runtime error leaves what was done before it, and   *)
(* nothing of the command is done after it.                                *)
(***************************************************************************)
Tables == [wizards |-> m_wizards, domains |-> m_domains,
           applications |-> m_applications, error |-> FALSE]
Fail(b) == [b EXCEPT !.error = TRUE]

Commit(b) == /\ m_wizards' = b.wizards
             /\ m_domains' = b.domains
             /\ m_applications' = b.applications

\* a liege or steward who gets another rank gives up his office
Vacate(b, w) ==
  IF b.error \/ w \notin DOMAIN b.wizards THEN Fail(b)
  ELSE LET r == b.wizards[w].rank
           d == b.wizards[w].dom IN
       CASE r \notin DOMAIN Office -> b
         [] r \in DOMAIN Office /\ d \notin DOMAIN b.domains -> Fail(b)
         [] OTHER -> [b EXCEPT !.domains[d][Office[r]] = Nobody]

SetRank(b, w, r) == IF b.error THEN b ELSE [b EXCEPT !.wizards[w].rank = r]

\* mutant of Seat: the old holder is demoted after the new one is put in
SeatLate(b, w, r) ==
  IF b.error \/ b.wizards[w].dom \notin DOMAIN b.domains THEN Fail(b)
  ELSE LET d == b.wizards[w].dom
           old == b.domains[d][Office[r]]
           c == [b EXCEPT !.domains[d][Office[r]] = w]
       IN IF old = Nobody THEN c ELSE SetRank(Vacate(c, old), old, NORMAL)

\* whoever held the office of w's domain is demoted before w is put in it
Seat(b, w, r) ==
  IF b.error \/ b.wizards[w].dom \notin DOMAIN b.domains THEN Fail(b)
  ELSE LET d == b.wizards[w].dom
           old == b.domains[d][Office[r]]
           c == IF old = Nobody THEN b ELSE SetRank(Vacate(b, old), old, NORMAL)
       IN IF c.error THEN c ELSE [c EXCEPT !.domains[d][Office[r]] = w]

ChangeRank(b, w, r) ==
  LET v == Vacate(b, w) IN
  SetRank(IF r \in DOMAIN Office THEN Seat(v, w, r) ELSE v, w, r)

\* mutant of Withdrawn: joining a domain withdraws nothing
WithdrawnNever(apps, w) == apps

\* all applications of w are withdrawn; a domain with none has no entry
Withdrawn(apps, w) ==
  LET left == {d \in DOMAIN apps : apps[d] # {w}} IN
  [d \in left |-> apps[d] \ {w}]

\* mages, arches and keepers who would be in no domain go to WIZARD_DOMAIN
AddToDomain(b, dname, w) ==
  IF b.error THEN b
  ELSE LET from == b.wizards[w].dom
           to == IF dname = NoDomain /\ Lasting(b.wizards[w].rank)
                 THEN WIZARD_DOMAIN ELSE dname
           moved == [b EXCEPT !.wizards[w].dom = to]
           gone == IF from = NoDomain THEN moved
                   ELSE [moved EXCEPT !.domains[from].members = @ \ {w}]
       IN IF from # NoDomain /\ from \notin DOMAIN b.domains THEN Fail(moved)
          ELSE IF to = NoDomain THEN gone
          ELSE [gone EXCEPT !.domains[to].members = @ \cup {w},
                            !.applications = Withdrawn(@, w)]

-----------------------------------------------------------------------------
(***************************************************************************)
(* Applications.  A second application to a domain, and every accept, deny *)
(* and regret where there is an application, calls member() with its       *)
(* arguments the wrong way round and ends in an error before any change.   *)
(***************************************************************************)
Apply(w, d) ==
  /\ Rank(w) >= APPRENTICE /\ Rank(w) # PILGRIM
  /\ Dom(w) = IF Lasting(Rank(w)) THEN WIZARD_DOMAIN ELSE NoDomain
  /\ d \in DOMAIN m_domains \ DOMAIN m_applications
  /\ m_applications' = Added(m_applications, d, {w})
  /\ UNCHANGED <<m_wizards, m_domains>>

ClearDomain(d) ==
  /\ ByAnArch
  /\ d \in DOMAIN m_domains \cap DOMAIN m_applications
  /\ m_applications' = Restrict(m_applications, DOMAIN m_applications \ {d})
  /\ UNCHANGED <<m_wizards, m_domains>>

ClearWizard(w) ==
  /\ ByAnArch
  /\ m_applications' = Withdrawn(m_applications, w)
  /\ UNCHANGED <<m_wizards, m_domains>>

-----------------------------------------------------------------------------
(***************************************************************************)
(* Domains.                                                                *)
(***************************************************************************)
Made(b, d, w) ==
  [b EXCEPT !.domains = Added(@, d, [lord |-> w, steward |-> Nobody,
                                     members |-> {}, max |-> DOMAIN_MAX])]

\* the directory of the domain could be made, found or taken up again
MakeDomain(d, w) ==
  /\ ByAnArch
  /\ d \notin DOMAIN m_domains
  /\ Rank(w) = APPRENTICE
  /\ Commit(ChangeRank(AddToDomain(Made(Tables, d, w), d, w), w, LORD))

\* mutant of Discharge: those who cannot be demoted are left where they are
DischargeDemoted(w, b) ==
  IF Lasting(b.wizards[w].rank) THEN b
  ELSE AddToDomain(ChangeRank(b, w, APPRENTICE), NoDomain, w)

Discharge(w, b) ==
  AddToDomain(IF b.wizards[w].rank \in {MAGE, ARCH, KEEPER} THEN b
              ELSE ChangeRank(b, w, APPRENTICE), NoDomain, w)

\* the directory is moved last: without that the emptied domain stays
RemoveDomain(d, renamed) ==
  /\ ByAnArch
  /\ d \in DOMAIN m_domains \ {WIZARD_DOMAIN}
  /\ LET b == FoldSet(Discharge, Tables, Members(d)) IN
     Commit(IF renamed /\ ~b.error
            THEN [b EXCEPT !.domains = Restrict(@, DOMAIN @ \ {d})] ELSE b)

MayLimit(c, d, max) ==
  \/ Rank(c) = LORD /\ d = Dom(c) /\ max <= Max({m_domains[d].max, DOMAIN_MAX})
  \/ Rank(c) >= ARCH

SetLimit(d, max) ==
  /\ d \in DOMAIN m_domains
  /\ Allowed(LAMBDA c : MayLimit(c, d, max))
  /\ Cardinality(Members(d)) <= max
  /\ m_domains' = [m_domains EXCEPT ![d].max = max]
  /\ UNCHANGED <<m_wizards, m_applications>>

-----------------------------------------------------------------------------
(***************************************************************************)
(* Wizards.                                                                *)
(***************************************************************************)
\* mutant of Draft: one more than the limit
DraftOneMore(d, w) ==
  /\ ByAnArch
  /\ d \in DOMAIN m_domains
  /\ Cardinality(Members(d)) <= m_domains[d].max
  /\ Dom(w) \in {NoDomain, WIZARD_DOMAIN}
  /\ Rank(w) = APPRENTICE \/ Rank(w) >= NORMAL
  /\ Commit(AddToDomain(IF Rank(w) = APPRENTICE
                        THEN ChangeRank(Tables, w, NORMAL) ELSE Tables, d, w))

Draft(d, w) ==
  /\ ByAnArch
  /\ d \in DOMAIN m_domains
  /\ Cardinality(Members(d)) < m_domains[d].max
  /\ Dom(w) \in {NoDomain, WIZARD_DOMAIN}
  /\ Rank(w) = APPRENTICE \/ Rank(w) >= NORMAL
  /\ Commit(AddToDomain(IF Rank(w) = APPRENTICE
                        THEN ChangeRank(Tables, w, NORMAL) ELSE Tables, d, w))

\* stewards and lieges expel from their own domain, a steward not his liege
MayExpel(c, w) ==
  /\ Rank(c) >= STEWARD
  /\ ~(Rank(w) = LORD /\ Rank(c) = STEWARD)
  /\ Rank(c) <= LORD => Dom(w) = Dom(c)

Expel(w) ==
  /\ Dom(w) # NoDomain
  /\ Allowed(LAMBDA c : MayExpel(c, w))
  /\ \/ /\ Lasting(Rank(w)) /\ Dom(w) # WIZARD_DOMAIN
        /\ Commit(AddToDomain(Tables, WIZARD_DOMAIN, w))
     \/ /\ ~Lasting(Rank(w))
        /\ Commit(AddToDomain(ChangeRank(Tables, w, APPRENTICE), NoDomain, w))

Leave(w) ==
  /\ Rank(w) >= NORMAL
  /\ Dom(w) # NoDomain
  /\ ~(Dom(w) = WIZARD_DOMAIN /\ Lasting(Rank(w)))
  /\ Commit(AddToDomain(IF Lasting(Rank(w)) THEN Tables
                        ELSE ChangeRank(Tables, w, APPRENTICE), NoDomain, w))

Retire(w) ==
  /\ Rank(w) \in NORMAL .. LORD
  /\ Commit(AddToDomain(ChangeRank(Tables, w, RETIRED), NoDomain, w))

(***************************************************************************)
(* Promotions and demotions.  A liege may only turn his steward into a     *)
(* normal wizard, and arches leave their equals alone.                     *)
(***************************************************************************)
MayRank(c, w, r) ==
  /\ Rank(c) >= LORD
  /\ Rank(c) = LORD => /\ w \in DOMAIN m_wizards /\ Dom(w) = Dom(c)
                       /\ Rank(w) = STEWARD /\ r = NORMAL
  /\ Rank(c) > LORD /\ Rank(w) >= Rank(c) => c = w /\ r = MAGE

\* a mortal gets an entry first
Entered(b, w) ==
  IF w \in DOMAIN b.wizards THEN b
  ELSE [b EXCEPT !.wizards = Added(@, w, [rank |-> MORTAL, dom |-> NoDomain])]

\* mutant of Settled: the domain is left only on the way to mortal
SettledMortal(b, w, r) ==
  IF r = MORTAL THEN [b EXCEPT !.wizards = Restrict(@, DOMAIN @ \ {w})] ELSE b

\* below a full wizard one is in no domain, and a mortal is not listed at all
Settled(b, w, r) ==
  LET left == IF r < NORMAL /\ Dom(w) # NoDomain
              THEN AddToDomain(b, NoDomain, w) ELSE b
  IN IF r = MORTAL /\ ~left.error
     THEN [left EXCEPT !.wizards = Restrict(@, DOMAIN @ \ {w})] ELSE left

WizardChangeRank(w, r) ==
  /\ r \in PossibleChange(Rank(w))
  /\ Allowed(LAMBDA c : MayRank(c, w, r))
  /\ Commit(Settled(ChangeRank(Entered(Tables, w), w, r), w, r))

SetKeeper(w) ==
  /\ Allowed(LAMBDA c : Rank(c) = KEEPER)
  /\ Rank(w) \in {ARCH, KEEPER}
  /\ Commit(ChangeRank(Tables, w, IF Rank(w) = ARCH THEN KEEPER ELSE ARCH))

Next ==
  \/ \E w \in Handled :
       \/ Leave(w)
       \/ Retire(w)
       \/ Expel(w)
       \/ SetKeeper(w)
       \/ ClearWizard(w)
       \/ \E r \in Titles : WizardChangeRank(w, r)
       \/ \E d \in Asked : Apply(w, d)
       \/ \E d \in DomainNames : MakeDomain(d, w) \/ Draft(d, w)
  \/ \E d \in DomainNames :
       \/ ClearDomain(d)
       \/ \E renamed \in BOOLEAN : RemoveDomain(d, renamed)
       \/ \E max \in Limits : SetLimit(d, max)

Spec == Init /\ [][Next]_vars
-----------------------------------------------------------------------------
(***************************************************************************)
(* The tables are well formed; a wizard who is not a full wizard is in no  *)
(* domain (all but danne, whose case MembersAgree explains).               *)
(***************************************************************************)
TypeOK ==
  /\ DOMAIN m_wizards \subseteq Names
  /\ \A w \in DOMAIN m_wizards :
       /\ m_wizards[w] \in [rank : Ranks, dom : DomainNames \cup {NoDomain}]
       /\ w # "danne" /\ Rank(w) < NORMAL => Dom(w) = NoDomain
  /\ WIZARD_DOMAIN \in DOMAIN m_domains /\ DOMAIN m_domains \subseteq DomainNames
  /\ \A d \in DOMAIN m_domains :
       m_domains[d] \in [lord : Names \cup {Nobody}, steward : Names \cup {Nobody},
                        members : SUBSET Names, max : Nat]
  /\ \A d \in DOMAIN m_applications :
       d \in DomainNames /\ m_applications[d] \in (SUBSET Names) \ {{}}

(***************************************************************************)
(* A wizard is listed as a member of exactly the domain his own entry      *)
(* names, and that domain exists.  danne is the exception: the defaults    *)
(* put him into Standard without listing him there, so that he stays       *)
(* behind when that domain is removed.                                     *)
(***************************************************************************)
MembersAgree ==
  \A w \in Names :
    /\ \A d \in DOMAIN m_domains : w \in Members(d) => Dom(w) = d
    /\ Dom(w) = NoDomain \/ w = "danne"
       \/ (Dom(w) \in DOMAIN m_domains /\ w \in Members(Dom(w)))

(***************************************************************************)
(* No domain but WIZARD_DOMAIN, where the homeless are put without asking, *)
(* has more members than its limit: neither drafts nor a lowered limit nor *)
(* the founding of a domain with its liege crowd it.                       *)
(***************************************************************************)
NoCrowding ==
  \A d \in DOMAIN m_domains \ {WIZARD_DOMAIN} :
    Cardinality(Members(d)) <= m_domains[d].max

(***************************************************************************)
(* Who has joined a domain has no application left, by whatever way he     *)
(* joined: an application is never answered after it has lost its point.   *)
(***************************************************************************)
ApplicantsAreFree ==
  \A d \in DOMAIN m_applications :
    \A w \in m_applications[d] : Dom(w) \in {NoDomain, WIZARD_DOMAIN}

(***************************************************************************)
(* The office of liege or steward of a domain is held by w exactly if w    *)
(* has that rank and is in that domain.                                    *)
(***************************************************************************)
OfficesAgree(d) ==
  \A r \in {LORD, STEWARD}, w \in Names :
    m_domains[d][Office[r]] = w <=> Rank(w) = r /\ Dom(w) = d

\* a liege or steward of WIZARD_DOMAIN is drafted and keeps his rank
TitledDraft(w) == /\ Rank(w) \in DOMAIN Office /\ Rank(w)' = Rank(w)
                  /\ Dom(w) = WIZARD_DOMAIN /\ Dom(w)' # WIZARD_DOMAIN

(***************************************************************************)
(* Once the offices of a domain agree with the ranks they go on doing so,  *)
(* through promotions that demote the holder before, expulsions and        *)
(* removals that stop half way: only the draft of a liege or steward of    *)
(* WIZARD_DOMAIN, who keeps a rank and leaves its office behind, breaks    *)
(* it, there and in the domain he is drafted to.                           *)
(***************************************************************************)
OfficesDriftByDraft ==
  [][\A d \in DOMAIN m_domains :
       OfficesAgree(d) /\ d \in DOMAIN m_domains' /\ ~OfficesAgree(d)' =>
         \E w \in Names : TitledDraft(w) /\ d \in {WIZARD_DOMAIN, Dom(w)'}]_vars
=============================================================================
