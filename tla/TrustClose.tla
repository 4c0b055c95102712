----------------------------- MODULE TrustClose -----------------------------
(***************************************************************************)
(* Reconciling and closing the months of one trust account while the       *)
(* account is in use (src/src/engines/billing-trust/                       *)
(* reconciliationService.ts, and the triggers of migration 0005).          *)
(*                                                                         *)
(* Each request runs in a database transaction of its own at READ          *)
(* COMMITTED: what it reads is what is committed when it reads, and what   *)
(* it writes is seen by others at its commit.  A transaction is therefore  *)
(* a reading step, that keeps in tx[p] what the code keeps in locals, and  *)
(* a writing step, that the unique indexes and the triggers may refuse.    *)
(* Only postings take the account's advisory lock; a posting and a close   *)
(* also meet on the row lock of the account's book.                        *)
(*                                                                         *)
(* What a statement's lines say, and so whether a reconciliation balances, *)
(* is an input here.                                                       *)
(***************************************************************************)
EXTENDS Integers, Sequences, FiniteSets
LOCAL INSTANCE TLC

CONSTANTS
    Staff,         \* requests in progress, each with its own transaction
    LastMonth,     \* bound: months are 1 .. LastMonth
    RequiredRoles, \* sign-off roles the firm requires
    MaxStatements, \* bound: statements, those in progress included
    MaxRecons,     \* bound: reconciliations, those in progress included
    MaxEntries     \* bound: posted entries

ASSUME RolesAssumption ==
    RequiredRoles # {} /\ RequiredRoles \subseteq {"bookkeeper", "lawyer", "owner"}
ASSUME BoundsAssumption ==
    /\ LastMonth \in Nat
    /\ MaxStatements \in Nat /\ MaxRecons \in Nat /\ MaxEntries \in Nat

VARIABLES
    statements, \* bank statements, in the order they were committed
    recons,     \* reconciliations, in the order they were committed
    signoffs,   \* sign-offs recorded
    closes,     \* month closes recorded
    entries,    \* month of each posted entry, in sequence order
    alerts,     \* open flags about a month
    tx          \* the transaction of each request

vars == <<statements, recons, signoffs, closes, entries, alerts, tx>>

Months == 1 .. LastMonth
AlertKinds == {"unbalanced", "overdue"}

\* "replaces" is the row a statement or reconciliation supersedes, 0 for none.
StatementType == [month : Months, replaces : Nat]
ReconType == [month : Months, statement : Nat, through : Nat,
              balanced : BOOLEAN, replaces : Nat]
SignoffType == [recon : Nat, role : RequiredRoles]
CloseType == [month : Months, recon : Nat]

Idle == [op |-> "idle"]
TxType ==
    {Idle}
    \cup [op : {"import"}, month : Months, replaces : Nat]
    \cup [op : {"prepare"}, month : Months, statement : Nat, through : Nat,
          balanced : BOOLEAN, replaces : Nat]
    \cup [op : {"sign"}, pc : {"checking", "writing", "locking"}, recon : Nat,
          role : RequiredRoles, closing : BOOLEAN]
    \cup [op : {"close"}, recon : Nat, role : RequiredRoles,
          found : SUBSET (AlertKinds \X Months)]
    \cup [op : {"post"}, pc : {"planned", "entered"}, month : Months]
    \cup [op : {"overdue"}, month : Months]

Init ==
    /\ statements = <<>>
    /\ recons = <<>>
    /\ signoffs = {}
    /\ closes = {}
    /\ entries = <<>>
    /\ alerts = {}
    /\ tx = [p \in Staff |-> Idle]

----------------------------------------------------------------------------
(* What a query of the committed rows answers.                             *)

\* Rows no other row of the table supersedes.
Superseded(table, i) == \E j \in DOMAIN table : table[j].replaces = i
Current(table, m) ==
    {i \in DOMAIN table : table[i].month = m /\ ~Superseded(table, i)}

Closed(m) == \E c \in closes : c.month = m

\* latestClose; 0 before the first close.
LastClosed ==
    IF closes = {} THEN 0
    ELSE CHOOSE m \in {c.month : c \in closes} : \A c \in closes : c.month <= m

RolesSigned(r) == {s.role : s \in {x \in signoffs : x.recon = r}}

\* The row lock of the book, held to the commit from an entry's insert and
\* from a close's.
BookLocked ==
    \E q \in Staff : \/ tx[q].op = "post" /\ tx[q].pc = "entered"
                     \/ tx[q].op = "close"

\* The account's advisory lock, held by a posting from its plan to its commit.
AccountLocked == \E q \in Staff : tx[q].op = "post"

InProgress(op) == Cardinality({q \in Staff : tx[q].op = op})

Begin(p, t) == tx[p] = Idle /\ tx' = [tx EXCEPT ![p] = t]
Finish(p) == tx' = [tx EXCEPT ![p] = Idle]

\* A unique index holds each row to one superseding row.
Replaceable(table, i) == i = 0 \/ ~Superseded(table, i)

----------------------------------------------------------------------------
(* Statements.                                                             *)

\* The caller names the statement it corrects; it must be the current one,
\* and none when the month has no statement yet.
ImportRead(p, m, replaces) ==
    /\ Len(statements) + InProgress("import") < MaxStatements
    /\ ~Closed(m)
    /\ IF Current(statements, m) = {} THEN replaces = 0
       ELSE replaces \in Current(statements, m)
    /\ Begin(p, [op |-> "import", month |-> m, replaces |-> replaces])
    /\ UNCHANGED <<statements, recons, signoffs, closes, entries, alerts>>

ImportCommit(p) ==
    /\ tx[p].op = "import"
    /\ Replaceable(statements, tx[p].replaces)
    /\ statements' = Append(statements, [month |-> tx[p].month,
                                         replaces |-> tx[p].replaces])
    /\ Finish(p)
    /\ UNCHANGED <<recons, signoffs, closes, entries, alerts>>

----------------------------------------------------------------------------
(* Reconciliations.                                                        *)

\* Reads the statement, the whole book, and the reconciliation it will
\* supersede (any one, when two were prepared side by side).
PrepareRead(p, m, balanced) ==
    /\ Len(recons) + InProgress("prepare") < MaxRecons
    /\ ~Closed(m)
    /\ \E s \in Current(statements, m) :
       \E r \in (IF Current(recons, m) = {} THEN {0} ELSE Current(recons, m)) :
           Begin(p, [op |-> "prepare", month |-> m, statement |-> s,
                     through |-> Len(entries), balanced |-> balanced,
                     replaces |-> r])
    /\ UNCHANGED <<statements, recons, signoffs, closes, entries, alerts>>

\* The reconciliation is stored, and a mismatch alerts the owner, at once.
PrepareCommit(p) ==
    /\ tx[p].op = "prepare"
    /\ Replaceable(recons, tx[p].replaces)
    /\ recons' = Append(recons,
                        [month |-> tx[p].month, statement |-> tx[p].statement,
                         through |-> tx[p].through, balanced |-> tx[p].balanced,
                         replaces |-> tx[p].replaces])
    /\ alerts' = IF tx[p].balanced THEN alerts
                 ELSE alerts \cup {<<"unbalanced", tx[p].month>>}
    /\ Finish(p)
    /\ UNCHANGED <<statements, signoffs, closes, entries>>

----------------------------------------------------------------------------
(* Sign-off and close.                                                     *)

\* Seeded bug: any one sign-off completes the set.
CompletesWithAny(r, role) == role \in RequiredRoles

\* Whether this sign-off completes the required set, as far as is committed.
Completes(r, role) == RequiredRoles \subseteq RolesSigned(r) \cup {role}

\* signOffReconciliation up to validateSignoff.
SignRead(p, r, role) ==
    /\ ~Superseded(recons, r)
    /\ recons[r].balanced
    /\ ~Closed(recons[r].month)
    /\ role \notin RolesSigned(r)
    /\ Begin(p, [op |-> "sign",
                 pc |-> IF Completes(r, role) THEN "checking" ELSE "writing",
                 recon |-> r, role |-> role, closing |-> Completes(r, role)])
    /\ UNCHANGED <<statements, recons, signoffs, closes, entries, alerts>>

\* Months close in order, and no entry dated through the month's end was
\* posted since the reconciliation was prepared, as far as is committed.
SignCheckBooks(p) ==
    /\ tx[p].op = "sign" /\ tx[p].pc = "checking"
    /\ LET r == recons[tx[p].recon] IN
       /\ LastClosed > 0 => r.month = LastClosed + 1
       /\ \A i \in DOMAIN entries : i > r.through => entries[i] > r.month
    /\ tx' = [tx EXCEPT ![p].pc = "writing"]
    /\ UNCHANGED <<statements, recons, signoffs, closes, entries, alerts>>

SignCommit(p) ==
    /\ tx[p].op = "sign" /\ tx[p].pc = "writing" /\ ~tx[p].closing
    /\ tx[p].role \notin RolesSigned(tx[p].recon)
    /\ signoffs' = signoffs \cup {[recon |-> tx[p].recon, role |-> tx[p].role]}
    /\ Finish(p)
    /\ UNCHANGED <<statements, recons, closes, entries, alerts>>

\* The last sign-off is inserted, and the close after it: the close trigger
\* first looks whether the reconciliation is balanced and not superseded.
SignInsert(p) ==
    /\ tx[p].op = "sign" /\ tx[p].pc = "writing" /\ tx[p].closing
    /\ tx[p].role \notin RolesSigned(tx[p].recon)
    /\ recons[tx[p].recon].balanced
    /\ ~Superseded(recons, tx[p].recon)
    /\ tx' = [tx EXCEPT ![p].pc = "locking"]
    /\ UNCHANGED <<statements, recons, signoffs, closes, entries, alerts>>

\* What the close trigger requires once it has the book's row lock: nothing at
\* or after this month is closed, and no month is skipped.
InOrder(m) == m > LastClosed /\ (LastClosed > 0 => m = LastClosed + 1)

\* The trigger's wait for the book's row and its second half; the service then
\* looks up the month's open flags.
CloseLocked(p) ==
    LET m == recons[tx[p].recon].month
    IN  /\ tx[p].op = "sign" /\ tx[p].pc = "locking"
        /\ ~BookLocked
        /\ InOrder(m)
        /\ tx' = [tx EXCEPT ![p] = [op |-> "close", recon |-> tx[p].recon,
                                    role |-> tx[p].role,
                                    found |-> {a \in alerts : a[2] = m}]]
        /\ UNCHANGED <<statements, recons, signoffs, closes, entries, alerts>>

\* Sign-off, close and resolved flags are committed together.
SignAndClose(p) ==
    LET r == tx[p].recon
    IN  /\ tx[p].op = "close"
        /\ tx[p].role \notin RolesSigned(r)
        /\ signoffs' = signoffs \cup {[recon |-> r, role |-> tx[p].role]}
        /\ closes' = closes \cup {[month |-> recons[r].month, recon |-> r]}
        /\ alerts' = alerts \ tx[p].found
        /\ Finish(p)
        /\ UNCHANGED <<statements, recons, entries>>

----------------------------------------------------------------------------
(* Postings, and the worker's overdue check.                               *)

\* Under the account's lock, the plan refuses a date in a closed month.
PostPlan(p, m) ==
    /\ Len(entries) < MaxEntries
    /\ ~AccountLocked
    /\ m > LastClosed
    /\ Begin(p, [op |-> "post", pc |-> "planned", month |-> m])
    /\ UNCHANGED <<statements, recons, signoffs, closes, entries, alerts>>

\* Seeded bug: the journal trigger relies on the plan for closed months.
EntryAcceptedAsPlanned(m) == ~BookLocked

\* The journal trigger takes the book's row lock and reads the closes again.
EntryAccepted(m) == ~BookLocked /\ m > LastClosed

PostEnter(p) ==
    /\ tx[p].op = "post" /\ tx[p].pc = "planned"
    /\ EntryAccepted(tx[p].month)
    /\ tx' = [tx EXCEPT ![p].pc = "entered"]
    /\ UNCHANGED <<statements, recons, signoffs, closes, entries, alerts>>

PostCommit(p) ==
    /\ tx[p].op = "post" /\ tx[p].pc = "entered"
    /\ entries' = Append(entries, tx[p].month)
    /\ Finish(p)
    /\ UNCHANGED <<statements, recons, signoffs, closes, alerts>>

\* The worker's hook: last month is due and has no close.
OverdueRead(p, m) ==
    /\ ~Closed(m)
    /\ Begin(p, [op |-> "overdue", month |-> m])
    /\ UNCHANGED <<statements, recons, signoffs, closes, entries, alerts>>

OverdueCommit(p) ==
    /\ tx[p].op = "overdue"
    /\ alerts' = alerts \cup {<<"overdue", tx[p].month>>}
    /\ Finish(p)
    /\ UNCHANGED <<statements, recons, signoffs, closes, entries>>

\* A refused step, a lost connection, a lock wait given up: all is undone.
Rollback(p) ==
    /\ tx[p] # Idle
    /\ Finish(p)
    /\ UNCHANGED <<statements, recons, signoffs, closes, entries, alerts>>

Step(p) ==
    \/ \E m \in Months : \E s \in {0} \cup DOMAIN statements : ImportRead(p, m, s)
    \/ ImportCommit(p)
    \/ \E m \in Months, b \in BOOLEAN : PrepareRead(p, m, b)
    \/ PrepareCommit(p)
    \/ \E r \in DOMAIN recons, role \in RequiredRoles : SignRead(p, r, role)
    \/ SignCheckBooks(p)
    \/ SignCommit(p)
    \/ SignInsert(p)
    \/ CloseLocked(p)
    \/ SignAndClose(p)
    \/ \E m \in Months : PostPlan(p, m)
    \/ PostEnter(p)
    \/ PostCommit(p)
    \/ \E m \in Months : OverdueRead(p, m)
    \/ OverdueCommit(p)
    \/ Rollback(p)

Next == \E p \in Staff : Step(p)

Spec == Init /\ [][Next]_vars

\* Requests are interchangeable.
StaffSymmetry == Permutations(Staff)

----------------------------------------------------------------------------
(* Properties.                                                             *)

TypeOK ==
    /\ statements \in Seq(StatementType)
    /\ recons \in Seq(ReconType)
    /\ signoffs \in SUBSET SignoffType
    /\ closes \in SUBSET CloseType
    /\ entries \in Seq(Months)
    /\ alerts \in SUBSET (AlertKinds \X Months)
    /\ tx \in [Staff -> TxType]

\* A month is closed only on a balanced reconciliation of that month that
\* every role the firm requires signed.
ClosesFullySigned ==
    \A c \in closes :
        /\ recons[c.recon].balanced
        /\ recons[c.recon].month = c.month
        /\ RequiredRoles \subseteq RolesSigned(c.recon)

\* The months of the account and its entries do what MonthBook promises, with
\* the plan, the triggers and the closes of other months in between: months
\* close one after another, each once and none skipped, even when two sign-offs
\* each saw the books before the other's close, and no entry is committed into
\* a month whose close is already committed.
BOOK == INSTANCE MonthBook WITH closed <- closes, posted <- entries
ImplementsMonthBook == BOOK!Spec

\* reconciliationService.ts:539: the books have not moved inside a month since
\* the reconciliation it was closed on was prepared.
CloseCoversTheMonth ==
    \A c \in closes : \A i \in DOMAIN entries :
        i > recons[c.recon].through => entries[i] > c.month

\* c76 design, section 5: a balanced reconciliation closes its month once every
\* required sign-off is recorded.
FullySignedIsClosed ==
    \A r \in DOMAIN recons :
        RequiredRoles \subseteq RolesSigned(r) => Closed(recons[r].month)
=============================================================================
