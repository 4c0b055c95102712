---------------------------- MODULE FirmTemplates ----------------------------
(***************************************************************************)
(* The versions of one of the firm's setups: a folder template, a document *)
(* checklist, a task list, the stages of a practice area, a court-rule set *)
(* (src/src/engines/document/folders, document/checklist,                  *)
(* calendar-core/templates, calendar-core/deadlines).                      *)
(*                                                                         *)
(* The five services share one scheme.  A save is a new draft; somebody    *)
(* reviews a draft and puts it in force, which retires the version before; *)
(* matters are set up from the version in force.  They differ in one thing *)
(* that shows: folder templates and checklists lock the draft they         *)
(* activate, the others read it and write later, but number their versions *)
(* uniquely.                                                               *)
(***************************************************************************)
EXTENDS Naturals, FiniteSets, Sequences, FiniteSetsExt

CONSTANTS
    Managers,   \* the people whose calls may overlap
    MaxVersions \* bound: versions ever saved

TemplatesAssumption == MaxVersions \in Nat \ {0}

VARIABLES
    locks,    \* whether this setup locks the draft being activated (fixed)
    versions, \* the rows, oldest first
    used,     \* the versions matters were set up from
    call      \* per manager, the save or activation that has read and not committed

vars == <<locks, versions, used, call>>

Idle == [op |-> "none"]
Draft(n) == [number |-> n, status |-> "draft", activatedAt |-> FALSE, retiredAt |-> FALSE]

Init ==
    /\ locks \in BOOLEAN
    /\ versions = <<>>
    /\ used = {}
    /\ call = [u \in Managers |-> Idle]

WithStatus(status) == {i \in DOMAIN versions : versions[i].status = status}
InForce == WithStatus("active")
Numbers == {versions[i].number : i \in DOMAIN versions}

-----------------------------------------------------------------------------
(* Saving a draft: the next number is read first.                          *)

ReadForSave(u) ==
    /\ call[u] = Idle /\ Len(versions) < MaxVersions
    /\ call' = [call EXCEPT ![u] = [op |-> "save", number |-> Max(Numbers \cup {0}) + 1]]
    /\ UNCHANGED <<locks, versions, used>>

\* A number taken meanwhile fails the save where an index covers it.
CommitSave(u) ==
    /\ call[u].op = "save" /\ Len(versions) < MaxVersions
    /\ versions' = IF ~locks /\ call[u].number \in Numbers THEN versions
                   ELSE Append(versions, Draft(call[u].number))
    /\ call' = [call EXCEPT ![u] = Idle]
    /\ UNCHANGED <<locks, used>>

-----------------------------------------------------------------------------
(* Putting a draft in force.                                               *)

LockedDraft(i) == locks /\ \E u \in Managers : call[u].op = "activate" /\ call[u].version = i

\* The draft is checked, and the versions in force now will be retired.
ReadForActivate(u, i) ==
    /\ call[u] = Idle /\ versions[i].status = "draft" /\ ~LockedDraft(i)
    /\ call' = [call EXCEPT ![u] = [op |-> "activate", version |-> i, retiring |-> InForce]]
    /\ UNCHANGED <<locks, versions, used>>

\* Seeded bug: no index keeps a second version of the setup out of force.
SecondInForceAllowed(i, retiring) == FALSE

\* A version that came into force meanwhile is not in what was read.
SecondInForce(i, retiring) == InForce \ (retiring \cup {i}) # {}

CommitActivate(u) ==
    LET c == call[u] IN
    /\ c.op = "activate"
    /\ call' = [call EXCEPT ![u] = Idle]
    /\ versions' = IF SecondInForce(c.version, c.retiring) THEN versions
                   ELSE [i \in DOMAIN versions |->
                            IF i = c.version THEN [versions[i] EXCEPT !.status = "active", !.activatedAt = TRUE]
                            ELSE IF i \in c.retiring \cap InForce
                            THEN [versions[i] EXCEPT !.status = "retired", !.retiredAt = TRUE]
                            ELSE versions[i]]
    /\ UNCHANGED <<locks, used>>

\* Retiring looks at no status; it waits for whoever holds the draft's lock.
Retire(i) ==
    /\ ~LockedDraft(i)
    /\ versions' = [versions EXCEPT ![i].status = "retired", ![i].retiredAt = TRUE]
    /\ UNCHANGED <<locks, used, call>>

-----------------------------------------------------------------------------
\* Provisioning folders, seeding a checklist, starting a run or a lifecycle,
\* calculating deadlines: from the version in force, if there is one.
SetUpMatter ==
    \E i \in InForce :
        /\ used' = used \cup {i}
        /\ UNCHANGED <<locks, versions, call>>

Next ==
    \/ \E u \in Managers :
          \/ ReadForSave(u) \/ CommitSave(u) \/ CommitActivate(u)
          \/ \E i \in DOMAIN versions : ReadForActivate(u, i)
    \/ \E i \in DOMAIN versions : Retire(i)
    \/ SetUpMatter

Spec == Init /\ [][Next]_vars

-----------------------------------------------------------------------------
TypeOK ==
    /\ locks \in BOOLEAN
    /\ \A i \in DOMAIN versions :
          versions[i] \in [number : 1..MaxVersions, status : {"draft", "active", "retired"},
                           activatedAt : BOOLEAN, retiredAt : BOOLEAN]
    /\ used \subseteq DOMAIN versions
    /\ \A u \in Managers : call[u].op \in {"none", "save", "activate"}

\* Two people activating different drafts at once never put two versions in
\* force: which folders, stages or court rules a matter gets is never chance.
OneInForce == Cardinality(InForce) <= 1

\* No matter was ever set up from a version nobody put in force, drafts
\* shipped with the product included.
OnlyReviewedIsUsed == \A i \in used : versions[i].activatedAt

\* Where the draft is locked, a version retired by one person is not put in
\* force by another whose review overlapped the retirement.
RetiredStaysRetired == locks => \A i \in DOMAIN versions : versions[i].retiredAt => versions[i].status = "retired"

\* Where an index covers them, no two versions have one number.
NumbersAreDistinct == ~locks => Cardinality(Numbers) = Len(versions)

SetupsAreReviewed == OneInForce /\ OnlyReviewedIsUsed /\ RetiredStaysRetired /\ NumbersAreDistinct
=============================================================================
