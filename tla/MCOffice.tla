------------------------------ MODULE MCOffice ------------------------------
(***************************************************************************)
(* One instance of each component in which people change the firm's own    *)
(* records over one another: the trust books, their months that are        *)
(* reconciled with the bank, the party index, the calendar, the rights,    *)
(* the documents a matter needs, the firm's templates, the stages of a     *)
(* matter, letters and court email.                                        *)
(* A behaviour is one component's, chosen in the initial state: they       *)
(* share no state in these models.                                         *)
(***************************************************************************)
EXTENDS TrustLedger

CONSTANTS
    People, Parties, Alike, MaxMerges, Hops,   \* of PartyIndex
    Attorneys, Clerks, EventDays, MaxAttempts, \* of MatterCalendar
    Court, Triggers,
    Users, BaseRoles, FirstOwners, FirstRows,  \* of Permissions
    Screened, MatterStaff,
    Members, MaxRows, MaxAsks,                 \* of DocumentRequests and, the people, MatterLifecycle
    Managers, MaxVersions,                     \* of FirmTemplates
    Stages, MaxClosings,                       \* of MatterLifecycle
    Lawyers, MaxProblems,                      \* of NonEngagementLetter and, the lawyers, CourtNotice
    Readers, Matters, Mails,                   \* of CourtNotice
    MonthLedgers, Postings, Statements, NoReference, MonthLength, Early, \* of Reconciliation
    DepositDays, WithdrawalDays, MaxListed, LastMonth, MaxPostings

VARIABLES
    focus, \* the component this behaviour is about
    indexed, merges, suggestions, confirming,
    event, deadlineTask, moves, approved, connected, link, copy, pushing, vouched, seen, overtaken, loose,
    overrides, rolesGiven, access,
    papers, delivery, questions, paperCall,
    locks, versions, used, edit,
    lifecycle, transition, closings, checklists, workOpen, closed, change,
    firm, wording, safe, letter, approval, problems, made, mail, posted, dropped, letterAsks,
    named, notice, courtAlerts, late, suggestion, events, courtAsks,
    postings, inForce, prepared, closes

partyVars == <<indexed, merges, suggestions, confirming>>
calendarVars == <<event, deadlineTask, moves, approved, connected, link, copy, pushing, vouched, seen,
                  overtaken, loose>>
rightsVars == <<overrides, rolesGiven, access>>
requestVars == <<papers, delivery, questions, paperCall>>
templateVars == <<locks, versions, used, edit>>
lifecycleVars == <<lifecycle, transition, closings, checklists, workOpen, closed, change>>
letterVars == <<firm, wording, safe, letter, approval, problems, made, mail, posted, dropped, letterAsks>>
courtVars == <<named, notice, courtAlerts, late, suggestion, events, courtAsks>>
monthVars == <<postings, inForce, prepared, closes>>

\* What the runs give the constants.
\* Two matters of one client and one of another.
MattersOf == [m1 |-> "c1", m2 |-> "c1", m3 |-> "c2"]
\* Three records of which the middle one looks like both others.
LikeTheMiddle == {<<1, 2>>, <<2, 3>>}
FirmRoles == [ada |-> {"admin"}, lee |-> {"lawyer"}, bo |-> {"bookkeeper"}]
\* An override of a time when the rules were others, one that closes the firm's
\* matters to lawyers, and one nobody may make.
SavedRows == {[role |-> "admin", right |-> "decideConflict", effect |-> "grant"],
              [role |-> "lawyer", right |-> "accessAll", effect |-> "deny"],
              [role |-> "owner", right |-> "manage", effect |-> "deny"]}
\* A court's email about a matter with a date in it.
CourtMails == {[source |-> "mailbox", trusted |-> TRUE, dmarc |-> TRUE, dkimAligned |-> FALSE, spf |-> TRUE,
                lookalike |-> FALSE, causes |-> Matters, names |-> {}, date |-> TRUE]}
\* A court closed on two days of the week and on one holiday; a paper served by
\* mail, and one handed over late on the day before.
CourtRules ==
    [weekend |-> {5, 6}, holidays |-> {7}, lateMethods |-> {"e_service"}, shift |-> 1,
     rules |-> {<<[op |-> "calendar_days", amount |-> 1], [op |-> "service", method |-> "mail", amount |-> 3],
                  [op |-> "roll", amount |-> 1]>>,
                <<[op |-> "next_weekday", amount |-> 1], [op |-> "court_days", amount |-> -1]>>}]
SomeTriggers == {[day |-> 0, method |-> "e_service", late |-> TRUE], [day |-> -2, method |-> "mail", late |-> FALSE]}
\* Two months of two days.  The bank sends the first month's statement in one of
\* two forms, and people post two deposits, a payment and a transfer.
BankLine(amount, day, reference, iolta) ==
    [amount |-> amount, day |-> day, reference |-> reference, iolta |-> iolta]
Statement(month, opening, closing, lines) ==
    [month |-> month, opening |-> opening, closing |-> closing, lines |-> lines]
SomeStatements == {
    Statement(1, 0, 0, <<BankLine(1, 2, "none", FALSE), BankLine(-1, 1, "r", FALSE)>>),
    Statement(1, 0, 1, <<BankLine(1, 2, "none", FALSE),
                         BankLine(1, 1, "none", TRUE), BankLine(-1, 2, "none", TRUE)>>),
    Statement(2, 0, 2, <<BankLine(2, 3, "none", FALSE)>>)}
Posting(date, a, b, reference) ==
    [date |-> date, lines |-> [l \in MonthLedgers |-> IF l = "a" THEN a ELSE b], reference |-> reference]
SomePostings == {Posting(2, 1, 0, "none"), Posting(3, 0, 1, "r"), Posting(2, -1, 0, "r"),
                 Posting(2, -1, 1, "none")}

PARTIES == INSTANCE PartyIndex
CAL == INSTANCE MatterCalendar WITH Lawyers <- Attorneys, Days <- EventDays,
           task <- deadlineTask, asks <- moves
RIGHTS == INSTANCE Permissions WITH assigned <- rolesGiven
REQ == INSTANCE DocumentRequests WITH Staff <- Members, rows <- papers, call <- paperCall
SETUP == INSTANCE FirmTemplates WITH call <- edit
LIFE == INSTANCE MatterLifecycle WITH Staff <- Members, call <- change
LETTER == INSTANCE NonEngagementLetter WITH task <- approval, asks <- letterAsks
COURT == INSTANCE CourtNotice WITH Staff <- Readers, alerts <- courtAlerts, asks <- courtAsks
MONTH == INSTANCE Reconciliation WITH Ledgers <- MonthLedgers, MaxEntries <- MaxPostings,
             journal <- postings

ASSUME OfficeAssumption ==
    /\ PARTIES!PartyAssumption /\ CAL!CalendarAssumption /\ RIGHTS!PermissionsAssumption
    /\ REQ!DocumentRequestsAssumption /\ SETUP!TemplatesAssumption /\ LIFE!LifecycleAssumption
    /\ COURT!MailAssumption /\ MONTH!ReconciliationAssumption /\ IsFiniteSet(Users)

ASSUME CAL!CourtDaysAreCounted(0 .. 21, 1 .. 12)

\* One state of the components a behaviour is not about is enough.
OfficeInit ==
    /\ focus \in {"books", "parties", "calendar", "copy", "rights", "requests", "templates", "lifecycle", "letters", "court", "months"}
    /\ Init /\ (focus # "books" => cushionApproved)
    /\ PARTIES!Init
    /\ CAL!Init /\ (focus # "copy" => approved)
    /\ RIGHTS!Init
    /\ focus # "rights" => overrides = {} /\ \A u \in FirstOwners : rolesGiven[u] = {}
    /\ REQ!Init
    /\ SETUP!Init /\ (focus # "templates" => locks)
    /\ LIFE!Init /\ (focus # "lifecycle" => ~workOpen)
    /\ LETTER!Init /\ firm.auto \in {{}, {"conflict", "not_eligible"}}
    /\ focus # "letters" => firm.auto = {} /\ firm.letterForDidNotHire /\ wording /\ safe
    /\ COURT!Init /\ named = [lawyers |-> Matters, backup |-> TRUE]
    /\ MONTH!Init

\* The calendar is checked with people who overlap and no calendar connected, and
\* with its copy kept while one person at a time changes the entry.
OneAtTheEntry ==
    \A u, v \in CAL!Staff : moves[u] # CAL!NoAsk /\ moves[v] # CAL!NoAsk => u = v

\* The checklist and the question about a file share nothing but the people: a
\* behaviour has one of them.
OneKindOfPaper ==
    \/ papers = <<>>
    \/ /\ questions = <<>> /\ delivery = "not_yet"
       /\ \A u \in Members : paperCall[u].op \notin {"ask", "answer"}

OfficeNext ==
    \/ /\ focus = "books" /\ Next
       /\ UNCHANGED <<focus, partyVars, calendarVars, rightsVars, requestVars, templateVars,
                      lifecycleVars, letterVars, courtVars, monthVars>>
    \/ /\ focus = "parties" /\ PARTIES!Next
       /\ UNCHANGED <<focus, vars, calendarVars, rightsVars, requestVars, templateVars,
                      lifecycleVars, letterVars, courtVars, monthVars>>
    \/ /\ CAL!Next
       /\ \/ focus = "calendar" /\ ~connected'
          \/ focus = "copy" /\ OneAtTheEntry'
       /\ UNCHANGED <<focus, vars, partyVars, rightsVars, requestVars, templateVars,
                      lifecycleVars, letterVars, courtVars, monthVars>>
    \/ /\ focus = "rights" /\ RIGHTS!Next
       /\ UNCHANGED <<focus, vars, partyVars, calendarVars, requestVars, templateVars,
                      lifecycleVars, letterVars, courtVars, monthVars>>
    \/ /\ focus = "requests" /\ REQ!Next /\ OneKindOfPaper'
       /\ UNCHANGED <<focus, vars, partyVars, calendarVars, rightsVars, templateVars,
                      lifecycleVars, letterVars, courtVars, monthVars>>
    \/ /\ focus = "templates" /\ SETUP!Next
       /\ UNCHANGED <<focus, vars, partyVars, calendarVars, rightsVars, requestVars,
                      lifecycleVars, letterVars, courtVars, monthVars>>
    \/ /\ focus = "lifecycle" /\ LIFE!Next
       /\ UNCHANGED <<focus, vars, partyVars, calendarVars, rightsVars, requestVars,
                      templateVars, letterVars, courtVars, monthVars>>
    \/ /\ focus = "letters" /\ LETTER!Next
       /\ UNCHANGED <<focus, vars, partyVars, calendarVars, rightsVars, requestVars,
                      templateVars, lifecycleVars, courtVars, monthVars>>
    \/ /\ focus = "court" /\ COURT!Next
       /\ UNCHANGED <<focus, vars, partyVars, calendarVars, rightsVars, requestVars,
                      templateVars, lifecycleVars, letterVars, monthVars>>
    \/ /\ focus = "months" /\ MONTH!Next
       /\ UNCHANGED <<focus, vars, partyVars, calendarVars, rightsVars, requestVars,
                      templateVars, lifecycleVars, letterVars, courtVars>>

officeVars == <<focus, vars, partyVars, calendarVars, rightsVars, requestVars,
          templateVars, lifecycleVars, letterVars, courtVars, monthVars>>
OfficeSpec == OfficeInit /\ [][OfficeNext]_officeVars

-----------------------------------------------------------------------------
(* The properties of the components, under the names the .cfg lists, beside *)
(* ClosedBooksFrozen of the books; the condition on focus only spares TLC   *)
(* what cannot change.                                                     *)

\* A confirmed duplicate was merged, and the records of one chain are found together.
DuplicatesAreFoundTogether == focus = "parties" => PARTIES!ConfirmedWasMerged /\ PARTIES!FoundInOneEntry
\* A confirmed deadline is on a day a lawyer put their name to and its reminder is
\* not later, and a date confirmed from a court's email stays confirmed.
ConfirmedDatesStand ==
    /\ [](focus \in {"calendar", "copy"} => CAL!ReminderNeverSlips)
    /\ COURT!ConfirmedStands
\* No override gets around the fixed rules, no role around a screen or a
\* restriction, a restriction shuts out nobody of the team, and somebody can
\* manage the rights.
RightsKeepTheirFloor == focus = "rights" => RIGHTS!RightsAreSound
\* A requested document is owed, or its chase was closed, and an open question asked.
RequestsAreFollowedUp == focus = "requests" => REQ!RequestsAreFollowedUp
\* One reviewed version of a setup is in force.
SetupsAreReviewed == focus = "templates" => SETUP!SetupsAreReviewed
\* A closed matter was closed properly.
LifecycleIsSound == focus = "lifecycle" => LIFE!LifecycleIsSound
\* A declined prospect's letter is read where it must be and gets to them or to a person.
LettersAreSound == focus = "letters" => LETTER!LettersAreSound
\* The entry of a check holds every record folded into it.
FoldedEntryIsComplete == focus = "parties" => PARTIES!FoldedEntryIsComplete
\* The closed months tie to the bank, each line is explained once and no entry
\* clears twice.
MonthsTieToTheBank ==
    focus = "months" => MONTH!ClosedMonthsTieToTheBank /\ MONTH!EveryCentClearsOnce
\* What an earlier closed month cleared is not cleared again.
ClearedMonthsApart == focus = "months" => MONTH!ClearedMonthsApart
=============================================================================
