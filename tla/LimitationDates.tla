-------------------------- MODULE LimitationDates --------------------------
(***************************************************************************)
(* The limitation dates of one matter                                      *)
(* (src/src/engines/calendar-core/limitations/service.ts): a lawyer enters *)
(* a date, a second person works it out blind and so verifies or disputes  *)
(* it, a lawyer changes or closes it, and the worker's daily scans flag    *)
(* what is unverified, due or undecided.                                   *)
(*                                                                         *)
(* A request reads the date's row without a lock and writes later.  From   *)
(* its UPDATE of the row to its commit it holds the row's lock, under      *)
(* which every writer of the date's tasks and calendar entry works, so     *)
(* that part is one step; what was read before, tx[p].was, may be stale.   *)
(***************************************************************************)
EXTENDS Integers, Sequences, FiniteSets, FiniteSetsExt

CONSTANTS
    Requests,         \* people's requests in progress at a time
    Lawyers,
    Trained,          \* staff the firm lists as trained to verify
    Dates,            \* days a limitation date may name
    Outcomes,         \* ways a date may be closed
    Thresholds,       \* days before the date at which a reminder is due
    Nobody,           \* stands for a null user
    LastDay,          \* bound: the days of a behaviour are 1 .. LastDay
    MaxRows,          \* bound: limitation dates entered
    MaxVersion,       \* bound: versions of one date
    MaxVerifications  \* bound: verifications, those in progress included

LimitationAssumption ==
    /\ Nobody \notin Lawyers \cup Trained
    /\ Dates \subseteq Nat /\ Thresholds \subseteq Nat
    /\ Outcomes \subseteq {"satisfied", "withdrawn"}
    /\ LastDay \in Nat \ {0} /\ MaxRows \in Nat /\ MaxVersion \in Nat \ {0}
    /\ MaxVerifications \in Nat

ASSUME ConstantsHold == LimitationAssumption

VARIABLES
    rows,          \* the limitation dates, in the order they were entered
    tasks,         \* open tasks: filing of a date, verification of a version
    flags,         \* open flags
    verifications, \* every verification made
    changes,       \* every change made
    reminders,     \* reminders recorded, sent or skipped
    profile,       \* whether a lawyer said that a limitation date applies
    today,
    tx,            \* the transaction of each request
    scan           \* the worker's transaction

vars == <<rows, tasks, flags, verifications, changes, reminders, profile,
          today, tx, scan>>

People == Lawyers \cup Trained
Open == {"unverified", "verified", "disputed"}
NeedsVerification == {"unverified", "disputed"}

\* The calendar entry of a date is one with it: its time is the date.
RowType == [date : Dates, version : Nat, status : Open \cup Outcomes,
            enteredBy : Lawyers, changedBy : Lawyers \cup {Nobody},
            event : {"proposed", "confirmed", "cancelled"}]

\* A flag's key within its type and date: a day, a version, or a version and
\* a threshold.  A flag about the matter names row 0.
FlagTypes == {"unverified", "passed", "disputed", "reminder"}
MatterFlags == [type : {"decision_needed", "intake_risk"}, row : {0}, key : {<<>>}]

Idle == [op |-> "idle"]

Init ==
    /\ rows = <<>>
    /\ tasks = {}
    /\ flags = {}
    /\ verifications = {}
    /\ changes = {}
    /\ reminders = {}
    /\ profile = "unknown"
    /\ today = 1
    /\ tx = [p \in Requests |-> Idle]
    /\ scan = Idle

----------------------------------------------------------------------------

OpenRows == {i \in DOMAIN rows : rows[i].status \in Open}

\* checkVerifierIndependence, and the check of the table on a verified row.
Independent(who, row) == who # row.enteredBy /\ who # row.changedBy

Flag(type, i, key) == [type |-> type, row |-> i, key |-> key]
FlagsOf(i, types) == {f \in flags : f.row = i /\ f.type \in types}

FilingTask(i) == [kind |-> "filing", row |-> i, version |-> 0]
VerifyTask(i, v) == [kind |-> "verify", row |-> i, version |-> v]

Begin(p, t) == tx[p] = Idle /\ tx' = [tx EXCEPT ![p] = t]
Finish(p) == tx' = [tx EXCEPT ![p] = Idle]

Stored == <<rows, tasks, flags, verifications, changes, reminders, profile, today>>

----------------------------------------------------------------------------
(* A lawyer's entry, and whether a date applies at all.                    *)

\* Reads nothing it then relies on, so it is one step.
EnterLimitationDate(who, date) ==
    LET i == Len(rows) + 1
    IN  /\ Len(rows) < MaxRows
        /\ rows' = Append(rows, [date |-> date, version |-> 1,
                                 status |-> "unverified", enteredBy |-> who,
                                 changedBy |-> Nobody, event |-> "proposed"])
        /\ tasks' = tasks \cup {FilingTask(i), VerifyTask(i, 1)}
        /\ profile' = "applies"
        /\ flags' = flags \ MatterFlags
        /\ UNCHANGED <<verifications, changes, reminders, today, tx, scan>>

SetApplies ==
    /\ profile # "applies"
    /\ profile' = "applies"
    /\ UNCHANGED <<rows, tasks, flags, verifications, changes, reminders,
                   today, tx, scan>>

\* That none applies is refused while a date is open, as far as is committed.
AskNotApplicable(p) ==
    /\ OpenRows = {}
    /\ Begin(p, [op |-> "not_applicable"])
    /\ UNCHANGED <<Stored, scan>>

CommitNotApplicable(p) ==
    /\ tx[p].op = "not_applicable"
    /\ profile' = "not_applicable"
    /\ flags' = flags \ MatterFlags
    /\ Finish(p)
    /\ UNCHANGED <<rows, tasks, verifications, changes, reminders, today, scan>>

----------------------------------------------------------------------------
(* Verification.                                                           *)

AskVerify(p, who, i, worked) ==
    /\ Cardinality(verifications)
           + Cardinality({q \in Requests : tx[q].op = "verify"}) < MaxVerifications
    /\ rows[i].status \in NeedsVerification
    /\ Independent(who, rows[i])
    /\ Begin(p, [op |-> "verify", row |-> i, by |-> who, date |-> worked,
                 was |-> rows[i]])
    /\ UNCHANGED <<Stored, scan>>

\* Seeded bug: the UPDATE does not name the version that was read.
SameVersionUnchecked(p) == TRUE

\* The UPDATE finds the row only in the version that was read.
SameVersion(p) == rows[tx[p].row].version = tx[p].was.version

Verified(t) ==
    [row |-> t.row, version |-> t.was.version, by |-> t.by, date |-> t.date]

\* The two agree: the date is verified, whatever its status is by now, and the
\* calendar entry confirmed if it is still a proposal.
CommitMatch(p) ==
    LET t == tx[p]
    IN  /\ t.op = "verify" /\ t.date = t.was.date
        /\ SameVersion(p)
        /\ Independent(t.by, rows[t.row])
        /\ verifications' = verifications \cup {Verified(t)}
        /\ rows' = [rows EXCEPT ![t.row].status = "verified",
                                ![t.row].event = IF @ = "proposed" THEN "confirmed" ELSE @]
        /\ tasks' = tasks \ {VerifyTask(t.row, t.was.version)}
        /\ flags' = flags \ FlagsOf(t.row, {"unverified", "disputed"})
        /\ Finish(p)
        /\ UNCHANGED <<changes, reminders, profile, today, scan>>

\* They do not: the date is disputed, whatever its version and status by now.
CommitMismatch(p) ==
    LET t == tx[p]
    IN  /\ t.op = "verify" /\ t.date # t.was.date
        /\ verifications' = verifications \cup {Verified(t)}
        /\ rows' = [rows EXCEPT ![t.row].status = "disputed"]
        /\ flags' = flags \cup {Flag("disputed", t.row, <<t.was.version>>)}
        /\ Finish(p)
        /\ UNCHANGED <<tasks, changes, reminders, profile, today, scan>>

----------------------------------------------------------------------------
(* Changing and closing a date.                                            *)

AskChange(p, who, i, date) ==
    /\ rows[i].status \in Open
    /\ rows[i].version < MaxVersion
    /\ date # rows[i].date
    /\ Begin(p, [op |-> "change", row |-> i, by |-> who, date |-> date,
                 was |-> rows[i]])
    /\ UNCHANGED <<Stored, scan>>

\* Seeded bug: the calendar entry is moved and stays as it was.
ChangedOnly(row, who, date) ==
    [row EXCEPT !.date = date, !.version = @ + 1, !.status = "unverified",
                !.changedBy = who]

\* The next version of a date, its calendar entry a proposal again.
Changed(row, who, date) ==
    [row EXCEPT !.date = date, !.version = @ + 1, !.status = "unverified",
                !.changedBy = who, !.event = "proposed"]

VersionToVerify(was) == was.version + 1

CommitChange(p) ==
    LET t == tx[p]
        v == t.was.version
    IN  /\ t.op = "change"
        /\ SameVersion(p)
        /\ rows' = [rows EXCEPT ![t.row] = Changed(@, t.by, t.date)]
        /\ changes' = changes \cup {[row |-> t.row, from |-> v, by |-> t.by,
                                     old |-> t.was.date, new |-> t.date]}
        /\ tasks' = (tasks \ {VerifyTask(t.row, v)})
                        \cup {VerifyTask(t.row, VersionToVerify(t.was))}
        /\ flags' = flags \ FlagsOf(t.row, FlagTypes)
        /\ Finish(p)
        /\ UNCHANGED <<verifications, reminders, profile, today, scan>>

AskClose(p, i, outcome) ==
    /\ rows[i].status \in Open
    /\ Begin(p, [op |-> "close", row |-> i, outcome |-> outcome, was |-> rows[i]])
    /\ UNCHANGED <<Stored, scan>>

\* By the row's id alone; the tasks are those the row named when it was read.
CommitClose(p) ==
    LET t == tx[p]
    IN  /\ t.op = "close"
        /\ rows' = [rows EXCEPT ![t.row].status = t.outcome,
                                ![t.row].event = "cancelled"]
        /\ tasks' = tasks \ {FilingTask(t.row), VerifyTask(t.row, t.was.version)}
        /\ flags' = flags \ FlagsOf(t.row, FlagTypes)
        /\ Finish(p)
        /\ UNCHANGED <<verifications, changes, reminders, profile, today, scan>>

----------------------------------------------------------------------------
(* The worker's scans.                                                     *)

ScanRead ==
    /\ scan = Idle
    /\ OpenRows # {}
    /\ scan' = [op |-> "dates", day |-> today, seen |-> [i \in OpenRows |-> rows[i]]]
    /\ UNCHANGED <<Stored, tx>>

\* Thresholds crossed by version v of date i with so many days left, and not
\* recorded yet; none once the date has passed.
Crossed(i, v, days) ==
    {t \in Thresholds : /\ 0 <= days /\ days <= t
                        /\ \A r \in reminders :
                               ~(r.row = i /\ r.version = v /\ r.threshold = t)}

\* The most urgent threshold crossed is sent, the others are skipped for good.
Recorded(i, v, crossed) ==
    {[row |-> i, version |-> v, threshold |-> t, sent |-> t = Min(crossed)] : t \in crossed}

\* Seeded bug: only dates nobody has disputed are flagged again.
NeedsFlagOnce(status) == status = "unverified"
NeedsFlag(status) == status \in NeedsVerification

\* runLimitationScan: the flags today asks for, each instead of the older ones
\* of its type and date.
ScanCommit ==
    LET recorded == UNION {Recorded(i, scan.seen[i].version,
                                    Crossed(i, scan.seen[i].version,
                                            scan.seen[i].date - scan.day)) :
                              i \in DOMAIN scan.seen}
        raised ==
            {Flag("passed", i, <<scan.day>>) :
                i \in {j \in DOMAIN scan.seen : scan.seen[j].date < scan.day}}
            \cup {Flag("unverified", i, <<scan.day>>) :
                i \in {j \in DOMAIN scan.seen : NeedsFlag(scan.seen[j].status)}}
            \cup {Flag("reminder", r.row, <<r.version, r.threshold>>) :
                r \in {q \in recorded : q.sent}}
        outdated == {f \in flags : \E n \in raised : n.type = f.type /\ n.row = f.row}
    IN  /\ scan.op = "dates"
        /\ flags' = (flags \ outdated) \cup raised
        /\ reminders' = reminders \cup recorded
        /\ scan' = Idle
        /\ UNCHANGED <<rows, tasks, verifications, changes, profile, today, tx>>

\* runLimitationCoverageScan on a retained matter; whether intake noted a
\* deadline risk is an input.
Undecided == profile = "unknown" \/ (profile = "applies" /\ OpenRows = {})

CoverageRead(risk) ==
    /\ scan = Idle
    /\ Undecided
    /\ scan' = [op |-> "coverage",
                type |-> IF risk /\ OpenRows = {} THEN "intake_risk" ELSE "decision_needed"]
    /\ UNCHANGED <<Stored, tx>>

CoverageCommit ==
    /\ scan.op = "coverage"
    /\ flags' = flags \cup {Flag(scan.type, 0, <<>>)}
    /\ scan' = Idle
    /\ UNCHANGED <<rows, tasks, verifications, changes, reminders, profile, today, tx>>

----------------------------------------------------------------------------

\* A refused step or a lost connection: all the transaction did is undone.
Rollback(p) == tx[p] # Idle /\ Finish(p) /\ UNCHANGED <<Stored, scan>>
ScanFails == scan # Idle /\ scan' = Idle /\ UNCHANGED <<Stored, tx>>

NextDay ==
    /\ today < LastDay
    /\ today' = today + 1
    /\ UNCHANGED <<rows, tasks, flags, verifications, changes, reminders,
                   profile, tx, scan>>

Request(p) ==
    \/ AskNotApplicable(p)
    \/ \E i \in DOMAIN rows :
        \/ \E who \in People, d \in Dates : AskVerify(p, who, i, d)
        \/ \E who \in Lawyers, d \in Dates : AskChange(p, who, i, d)
        \/ \E outcome \in Outcomes : AskClose(p, i, outcome)
    \/ CommitNotApplicable(p)
    \/ CommitMatch(p) \/ CommitMismatch(p) \/ CommitChange(p) \/ CommitClose(p)
    \/ Rollback(p)

Next ==
    \/ \E who \in Lawyers, d \in Dates : EnterLimitationDate(who, d)
    \/ SetApplies
    \/ \E p \in Requests : Request(p)
    \/ ScanRead \/ ScanCommit
    \/ \E risk \in BOOLEAN : CoverageRead(risk)
    \/ CoverageCommit
    \/ ScanFails
    \/ NextDay

Spec == Init /\ [][Next]_vars

\* The worker runs each hook at every tick, and a hook that failed again at the
\* next; it does not fail for ever.  Nothing is assumed of people.
Fairness ==
    /\ SF_vars(ScanRead) /\ SF_vars(ScanCommit)
    /\ SF_vars(\E risk \in BOOLEAN : CoverageRead(risk)) /\ SF_vars(CoverageCommit)

FairSpec == Spec /\ Fairness

----------------------------------------------------------------------------
(* Properties.                                                             *)

Unsettled(i) == i \in DOMAIN rows /\ rows[i].status \in NeedsVerification

Agreed(i) ==
    {v \in verifications : /\ v.row = i /\ v.version = rows[i].version
                           /\ v.date = rows[i].date}

TypeOK ==
    /\ rows \in Seq(RowType)
    /\ tasks \subseteq [kind : {"filing", "verify"}, row : DOMAIN rows, version : Nat]
    /\ \A f \in flags : \/ f \in MatterFlags
                        \/ f.type \in FlagTypes /\ f.row \in DOMAIN rows
    /\ verifications \subseteq [row : DOMAIN rows, version : 1 .. MaxVersion,
                                by : People, date : Dates]
    /\ changes \subseteq [row : DOMAIN rows, from : 1 .. MaxVersion, by : Lawyers,
                          old : Dates, new : Dates]
    /\ reminders \subseteq [row : DOMAIN rows, version : 1 .. MaxVersion,
                            threshold : Thresholds, sent : BOOLEAN]
    /\ profile \in {"unknown", "applies", "not_applicable"}
    /\ today \in 1 .. LastDay

\* A date stands as verified, and its calendar entry as confirmed, only if
\* somebody who neither entered nor last changed it worked out that very date
\* for that very version, however verifications and changes overlapped.
VerifiedIndependently ==
    \A i \in DOMAIN rows :
        rows[i].status = "verified" \/ rows[i].event = "confirmed" =>
            \E v \in Agreed(i) : Independent(v.by, rows[i])

\* The logged changes are the date's whole history: one change from each
\* version to the next, each starting from the date the one before it set.
ChangesAreTheHistory ==
    \A i \in DOMAIN rows :
        LET mine == {c \in changes : c.row = i}
        IN  /\ \A v \in 1 .. (rows[i].version - 1) :
                   Cardinality({c \in mine : c.from = v}) = 1
            /\ \A c \in mine :
                   IF c.from + 1 = rows[i].version THEN c.new = rows[i].date
                   ELSE \E d \in mine : d.from = c.from + 1 /\ d.old = c.new

\* A date nobody has verified since it was set has a task open that asks for
\* the verification of that version.
UnverifiedIsAssigned ==
    \A i \in DOMAIN rows :
        rows[i].status = "unverified" => VerifyTask(i, rows[i].version) \in tasks

\* c93: each threshold fires once per version, and a less urgent one never after
\* a more urgent one.
RemindersGetMoreUrgent ==
    [][\A r \in reminders' \ reminders : r.sent =>
           \A q \in reminders : q.sent /\ q.row = r.row /\ q.version = r.version
                                    => r.threshold < q.threshold]_vars

\* A date that needs verification is flagged, on whatever day it is, unless it
\* is settled first: no change, dispute or close leaves it silently unflagged.
UnverifiedIsFlagged ==
    \A i \in 1 .. MaxRows :
        Unsettled(i) ~> ~Unsettled(i) \/ Flag("unverified", i, <<today>>) \in flags

\* A retained matter no lawyer has decided about is flagged until one does.
DecisionIsAskedFor == Undecided ~> (~Undecided \/ flags \cap MatterFlags # {})

\* rules.ts:22: a date that still needs watching has its filing task open.
WatchedDateHasFilingTask == \A i \in OpenRows : FilingTask(i) \in tasks
=============================================================================
