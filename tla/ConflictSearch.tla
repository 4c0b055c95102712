--------------------------- MODULE ConflictSearch ---------------------------
(***************************************************************************)
(* What a conflict check finds and what it makes of it                     *)
(* (src/src/engines/conflict-check/matching.ts, nameRules.ts, coreCheck.ts,*)
(* ruleTable.ts, runConflictCheck of checks.ts).  The check searches the   *)
(* index for a person, folds merged records, compares names and contact    *)
(* details, follows the links between organisations, and weighs the hits   *)
(* against the rule table and the role that is sought.                     *)
(*                                                                         *)
(* A name is a sequence of parts without suffixes and particles; what two  *)
(* parts have in common is given by constants.  Strengths are hundredths.  *)
(* What a record shares with the person searched for beside a name is kept *)
(* as a flag, which says where the index holds it: the search looks at     *)
(* fewer places than the comparison that follows it, and stops at a limit. *)
(* PartyIndex has the races of merges; here one goes through.              *)
(***************************************************************************)
EXTENDS Naturals, FiniteSets, Sequences, SequencesExt, FiniteSetsExt

CONSTANTS
    Parties, MaxMerges, Hops, \* of PartyIndex
    Nicknames,  \* the groups of given names that are one name
    Sounds,     \* the groups of parts with one phonetic key
    Initials,   \* the pairs {a, b} of an initial and a part that begins with it
    Misspelt,   \* the pairs {a, b} of parts a typing error apart
    Fragments,  \* the pairs <<a, b>> of parts, b holding the first or last three letters of a
    Letters,    \* the parts of one letter, which nobody is searched by
    Facts,      \* what may be known of a record
    Searches,   \* whom a check may be for
    Affiliates, \* the pairs of records that may be linked as organisations
    LinkDepth,  \* how many links a check follows
    LoadLimit   \* the records one search of the index loads at most (5000 in the code)

VARIABLES
    indexed, merges, \* of PartyIndex
    facts,    \* what is known of each record of the index
    keyed,    \* the records whose phonetic and nickname keys are stored
    linked,   \* the pairs linked as organisations
    applied   \* the conflict rules are approved

vars == <<indexed, merges, facts, keyed, linked, applied>>

INDEX == INSTANCE PartyIndex WITH Alike <- {}, People <- {}, suggestions <- <<>>, confirming <- <<>>

InvolvementType ==
    [kind : {"matter", "inquiry"}, here : BOOLEAN, role : STRING, adverse : BOOLEAN,
     status : {"current", "former", "prospective"}]

SearchAssumption ==
    /\ Parties \subseteq Nat /\ MaxMerges \in Nat /\ Hops \in Nat \ {0} /\ LinkDepth \in Nat
    /\ LoadLimit \in Nat \ {0}
    /\ Affiliates \subseteq Parties \X Parties
    /\ \A f \in Facts :
          /\ DOMAIN f = {"names", "email", "phone", "address", "birth", "involved"}
          /\ f.email \in {"none", "listed", "capitals"} /\ f.phone \in {"none", "primary", "further"}
          /\ f.birth \in {"unknown", "same", "other"} /\ f.involved \subseteq InvolvementType
    /\ \A s \in Searches : DOMAIN s = {"name", "role", "sought"} /\ s.name # <<>>

Init ==
    /\ indexed = {} /\ merges = <<>>
    /\ facts = <<>> /\ keyed = {}
    /\ linked = {}
    /\ applied \in BOOLEAN

-----------------------------------------------------------------------------
(* Comparing two names.                                                    *)

SameGiven(a, b) == a # b /\ \E group \in Nicknames : {a, b} \subseteq group
SoundAlike(a, b) == \E group \in Sounds : {a, b} \subseteq group

Exact == 4
Nickname == 3
Phonetic == 2
Fuzzy == 1
LinkTokens(a, b) ==
    CASE a = b -> Exact
      [] a # b /\ SameGiven(a, b) -> Nickname
      [] a # b /\ ~SameGiven(a, b) /\ SoundAlike(a, b) -> Phonetic
      [] OTHER -> IF {a, b} \in Misspelt THEN Fuzzy ELSE 0

\* alignTokens: each part takes the best part that is left, in order.
AlignTokens(short, long) ==
    LET after[i \in 0..Len(short)] ==
            IF i = 0 THEN [used |-> {}, pairs |-> <<>>]
            ELSE LET left == DOMAIN long \ after[i - 1].used
                     best == Max({LinkTokens(short[i], long[j]) : j \in left} \cup {0})
                 IN  IF best = 0 THEN after[i - 1]
                     ELSE [used |-> after[i - 1].used \cup
                                       {Min({j \in left : LinkTokens(short[i], long[j]) = best})},
                           pairs |-> Append(after[i - 1].pairs, best)]
    IN  after[Len(short)].pairs

SameParts(a, b) == \E order \in SetToSeqs(DOMAIN b) : a = [i \in DOMAIN order |-> b[order[i]]]
\* One part is a typing error away, the others are the same: similar as a whole.
SimilarSpelling(a, b) ==
    /\ Len(a) = Len(b)
    /\ \E i \in DOMAIN a : {a[i], b[i]} \in Misspelt /\ \A j \in DOMAIN a \ {i} : a[j] = b[j]

SpeltAlike(a, b) ==
    Len(a) = Len(b) /\ Len(a) >= 2 /\ \A i \in DOMAIN a : a[i] = b[i] \/ {a[i], b[i]} \in Misspelt
SameSurname(a, b) == Len(a) >= 2 /\ Len(b) >= 2 /\ Last(a) = Last(b)

\* compareNames: the strength of the first rule that applies, 0 where none does.
CompareNames(a, b) ==
    LET shorter == IF Len(a) <= Len(b) THEN a ELSE b
        longer == IF Len(a) <= Len(b) THEN b ELSE a
        pairs == AlignTokens(shorter, longer)
        allAligned == Len(pairs) = Len(shorter)
        onlyStrong == \A i \in DOMAIN pairs : pairs[i] >= Nickname
    IN  CASE a = b -> 100
          [] a # b /\ SameParts(a, b) -> 95
          [] OTHER ->
                IF allAligned /\ onlyStrong /\ Len(a) = Len(b) THEN 85
                ELSE IF allAligned /\ onlyStrong /\ Len(shorter) >= 2 THEN 80
                ELSE IF SameSurname(a, b) /\ {a[1], b[1]} \in Initials THEN 60
                ELSE IF SimilarSpelling(a, b) THEN 80
                ELSE IF allAligned /\ Len(shorter) >= 2 THEN IF Len(a) = Len(b) THEN 70 ELSE 62
                ELSE IF SpeltAlike(a, b) THEN 56
                ELSE IF Len(a) = 1 /\ \E i \in DOMAIN b : LinkTokens(a[1], b[i]) >= Nickname THEN 40
                ELSE 0

-----------------------------------------------------------------------------
(* Comparing the person with the index.                                    *)

\* candidateFilter: letters in common with a name, a stored key, the primary
\* telephone number, or an email address, a further one only as it is spelt in
\* small letters.  An address or a further number finds nobody.
ByLetters(a, b) == a \notin Letters /\ (a = b \/ <<a, b>> \in Fragments)
ByKey(a, b) == {a, b} \cap Letters = {} /\ LinkTokens(a, b) >= Phonetic
CandidatesFor(s) ==
    {p \in indexed :
        \/ facts[p].email = "listed" \/ facts[p].phone = "primary"
        \/ \E n \in facts[p].names : \E i \in DOMAIN s.name, j \in DOMAIN n :
              \/ ByLetters(s.name[i], n[j])
              \/ p \in keyed /\ ByKey(s.name[i], n[j])}

\* loadIndexEntries: a limit and no order, so any of them may be left out.
Loads(ids) == kSubset(Min({LoadLimit, Cardinality(ids)}), ids)

\* buildPartyEntries: the records of one chain of merges as one entry; the
\* survivor's date of birth, or any where it has none.
Entry(e) ==
    LET survivor == INDEX!Survivor(CHOOSE p \in e : TRUE)
        births == {p \in e : facts[p].birth # "unknown"}
    IN  [party |-> survivor,
         names |-> UNION {facts[p].names : p \in e},
         email |-> \E p \in e : facts[p].email # "none",
         phone |-> \E p \in e : facts[p].phone # "none",
         address |-> \E p \in e : facts[p].address,
         birth |-> IF births = {} THEN "unknown"
                   ELSE facts[IF survivor \in births THEN survivor ELSE Min(births)].birth,
         involved |-> {i \in UNION {facts[p].involved : p \in e} : ~i.here}]
EntriesOf(ids) == {Entry(e) : e \in INDEX!Entries(ids)}

\* The candidates for the kind of a hit, the first of the strongest winning.
Evidence(s, e) ==
    LET byName == Max({CompareNames(s.name, n) : n \in e.names} \cup {0})
        sameBirth == e.birth = "same"
        surname == sameBirth /\ \E n \in e.names : Contains(n, Last(s.name))
        given == /\ sameBirth /\ ~surname /\ Len(s.name) >= 2
                 /\ \E n \in e.names : Len(n) >= 2 /\ LinkTokens(n[1], s.name[1]) >= Nickname
    IN  <<[kind |-> "name", strength |-> byName],
          [kind |-> "email", strength |-> IF e.email THEN 90 ELSE 0],
          [kind |-> "phone", strength |-> IF e.phone THEN 85 ELSE 0],
          [kind |-> "birth", strength |-> CASE surname -> 85 [] given -> 75 [] OTHER -> 0],
          [kind |-> "address", strength |-> IF e.address THEN 50 ELSE 0]>>

MinStrength == 40
Capped(strength) == Min({99, strength})
\* matchIndex: the other details raise the strength, and another date of birth
\* lowers it, never below what is shown.
Weighed(found, e) ==
    LET top == Max({found[i].strength : i \in DOMAIN found})
        best == found[Min({i \in DOMAIN found : found[i].strength = top})]
        named == best.kind = "name"
        born == CASE named /\ e.birth = "same" -> Capped(top + 15)
                  [] named /\ e.birth = "other" -> Max({MinStrength, (top * 3 + 2) \div 4})
                  [] OTHER -> top
        housed == IF e.address /\ best.kind # "address" THEN Capped(born + 5) ELSE born
        reached == /\ e.email \/ e.phone
                   /\ best.kind \notin {"email", "phone"}
    IN  CASE top = 0 -> 0
          [] top > 0 /\ reached -> Capped(Max({housed, 90}))
          [] OTHER -> housed
Strength(s, e) == Weighed(Evidence(s, e), e)

\* A record known from the matter being checked alone is no hit against itself.
DirectHits(s, load) ==
    {[party |-> e.party, strength |-> Strength(s, e), direct |-> TRUE, involved |-> e.involved] :
        e \in {x \in EntriesOf(load) : x.involved # {} /\ Strength(s, x) >= MinStrength}}

\* relatedOrgParties, expandOrgLinkHits: by the ids the links were made with.
RelatedOrgs(p) ==
    LET within[d \in 0..LinkDepth] ==
            IF d = 0 THEN {p}
            ELSE within[d - 1] \cup {q \in Parties : \E r \in within[d - 1] : {<<q, r>>, <<r, q>>} \cap linked # {}}
    IN  within[LinkDepth] \ {p}
LinkEnds == UNION {{l[1], l[2]} : l \in linked}
LinkedHits(hits, neighbours) ==
    {[party |-> e.party, strength |-> 0, direct |-> FALSE, involved |-> e.involved] :
        e \in {x \in EntriesOf(neighbours) :
                 /\ x.involved # {} /\ \A h \in hits : h.party # x.party
                 /\ \E h \in hits : x.party \in RelatedOrgs(h.party)}}
WithLinked(hits, neighbours) == hits \cup LinkedHits(hits, neighbours)
Hits(s, load, neighbours) == WithLinked(DirectHits(s, load), neighbours)

-----------------------------------------------------------------------------
(* What the hits amount to.                                                *)

CallerRoles == {"caller", "prospective_client", "client", "co_party"}
OpposingRoles == {"opposing_party", "co_defendant", "insurer", "respondent"}
ClientRoles == {"client", "caller", "former_client", "co_party"}
AdverseRoles == {"opposing_party", "opposing_counsel", "co_defendant", "insurer"}

\* situationForHit: the one situation of the draft table that makes a check definite.
AdverseToCurrentClient(s, inv) ==
    /\ inv.kind = "matter" /\ inv.status = "current"
    /\ IF s.role \in AdverseRoles THEN inv.role \in ClientRoles
       ELSE inv.role \in AdverseRoles \/ inv.adverse
DefiniteByTable(s, hits) == \E h \in hits : \E inv \in h.involved : AdverseToCurrentClient(s, inv)

Represented(inv) == inv.kind = "matter" /\ inv.status # "prospective" /\ inv.role \in ClientRoles
Consulted(inv) ==
    /\ inv.role \in {"prospective_client", "client"}
    /\ inv.kind = "inquiry" \/ inv.status = "prospective"
\* conditionsFor: what an involvement bars, by the side the person is on.
ConditionsFor(s, inv) ==
    LET opposing == s.role \in OpposingRoles
        on(condition, sides) == {<<condition, side>> : side \in sides}
        sides == IF opposing THEN {"opposing_party", "either_party"} ELSE {"either_party"}
    IN  IF ~opposing /\ s.role \notin CallerRoles THEN {}
        ELSE (IF Represented(inv) THEN on("prior_representation", sides) ELSE {})
             \cup (IF Consulted(inv) THEN on("prior_consultation", sides)
                                          \cup {<<"prior_initial_meeting", "either_party">>} ELSE {})
RoleMatrix ==
    [representation |-> {"prior_representation", "prior_consultation"} \X {"opposing_party"},
     mediation |-> {"prior_initial_meeting", "prior_representation", "prior_consultation"}
                       \X {"either_party"}]
\* A role the matrix does not know is evaluated against every row.
Evaluated(sought) ==
    IF sought \in DOMAIN RoleMatrix THEN RoleMatrix[sought]
    ELSE UNION {RoleMatrix[r] : r \in DOMAIN RoleMatrix}
DefiniteMinStrength == 90
BarredByRole(s, hits) ==
    \E h \in hits : h.direct /\ h.strength >= DefiniteMinStrength
        /\ \E inv \in h.involved : ConditionsFor(s, inv) \cap Evaluated(s.sought) # {}

\* classifyOutcome, all names being known and the firm's history imported.
Classified(s, hits) ==
    CASE hits = {} -> "clear"
      [] hits # {} /\ applied /\ (DefiniteByTable(s, hits) \/ BarredByRole(s, hits)) -> "definite"
      [] OTHER -> "possible"
Outcome(s, load, neighbours) == Classified(s, Hits(s, load, neighbours))

-----------------------------------------------------------------------------
(* The index grows.                                                        *)

\* Ids are given in order.
NewRecord(p, f) ==
    /\ p \notin indexed /\ \A q \in Parties : q < p => q \in indexed
    /\ indexed' = indexed \cup {p}
    /\ facts' = [q \in indexed' |-> IF q = p THEN f ELSE facts[q]]
    /\ UNCHANGED <<merges, linked, applied>>

IndexParty(p, f) == NewRecord(p, f) /\ keyed' = keyed \cup {p}

\* Written by another engine, a record has its name alone to be found by.
AddedElsewhere(p, f) == NewRecord(p, f) /\ UNCHANGED keyed

BackfillMatchKeys(p) ==
    /\ p \in indexed \ keyed
    /\ keyed' = keyed \cup {p}
    /\ UNCHANGED <<indexed, merges, facts, linked, applied>>

MergeParties(survivor, merged) ==
    /\ {survivor, merged} \subseteq indexed /\ survivor # merged
    /\ INDEX!Survivor(survivor) # merged /\ merged \notin DOMAIN INDEX!Direct
    /\ Len(merges) < MaxMerges
    /\ merges' = Append(merges, INDEX!Merge(survivor, merged))
    /\ UNCHANGED <<indexed, facts, keyed, linked, applied>>

AddOrgLink(pair) ==
    /\ {pair[1], pair[2]} \subseteq indexed /\ pair \notin linked
    /\ linked' = linked \cup {pair}
    /\ UNCHANGED <<indexed, merges, facts, keyed, applied>>

Next ==
    \/ \E p \in Parties, f \in Facts : IndexParty(p, f) \/ AddedElsewhere(p, f)
    \/ \E p \in Parties : BackfillMatchKeys(p)
    \/ \E p, q \in Parties : MergeParties(p, q)
    \/ \E pair \in Affiliates : AddOrgLink(pair)

Spec == Init /\ [][Next]_vars

-----------------------------------------------------------------------------
(* A plain definition of who is surely the same: the same parts in any     *)
(* order, all parts of the shorter name, or a nickname for the given name. *)
SamePerson(a, b) ==
    \/ SameParts(a, b)
    \/ \E x, y \in {a, b} : x # y /\ Len(x) >= 2 /\ ToSet(x) \subseteq ToSet(y) /\ IsInjective(x)
    \/ Len(a) = Len(b) /\ SameGiven(a[1], b[1]) /\ Tail(a) = Tail(b)
SamePersonIn(s, p) == {n \in facts[p].names : SamePerson(s.name, n)}
Recognised(s, p) ==
    facts[p].email # "none" \/ facts[p].phone # "none" \/ SamePersonIn(s, p) # {}
\* What the index can be searched by: not a further number, nor an address
\* spelt with capitals, nor a nickname alone before the worker stored its key.
Findable(s, p) ==
    \/ facts[p].email = "listed" \/ facts[p].phone = "primary"
    \/ \E n \in SamePersonIn(s, p) : p \in keyed \/ (ToSet(s.name) \cap ToSet(n)) \ Letters # {}
Elsewhere(p) == {inv \in facts[p].involved : ~inv.here}

\* Whoever can be found, where no limit cut the search short, or was found
\* anyhow, and is surely the person searched for, keeps the check from being
\* clear by another matter or inquiry, and as a client of a current matter on
\* the other side makes it definite where the rules apply: however records
\* were merged and whatever else they hold (runConflictCheck).
NothingKnownIsMissed ==
    \A s \in Searches : \A load \in Loads(CandidatesFor(s)), neighbours \in Loads(LinkEnds) :
        LET outcome == Outcome(s, load, neighbours)
            known == {p \in indexed : IF p \in load THEN Recognised(s, p)
                                      ELSE Cardinality(CandidatesFor(s)) <= LoadLimit /\ Findable(s, p)}
            adverse == {p \in known : \E inv \in Elsewhere(p) : AdverseToCurrentClient(s, inv)}
        IN  /\ outcome = "clear" => \A p \in known : Elsewhere(p) = {}
            /\ applied /\ outcome # "definite" => adverse = {}
=============================================================================
