---------------------------- MODULE ConflictSync ----------------------------
(***************************************************************************)
(* How the conflict-check engine notices what other engines did to a       *)
(* matter (src/src/engines/conflict-check/sync.ts, triggers.ts): new party *)
(* links are found by a keyset cursor on (added_at, id), and a reopened    *)
(* matter by comparing its stage with what the last tick saw.              *)
(*                                                                         *)
(* added_at is the time a transaction began, by the database's clock of    *)
(* microseconds or by the program's of milliseconds; its row is seen when  *)
(* the transaction commits, which may be after a younger one was checked.  *)
(* The cursor goes through the program and keeps the milliseconds only:    *)
(* the rows of its last millisecond are read again at every sync.          *)
(***************************************************************************)
EXTENDS Naturals, FiniteSets

CONSTANTS
    Links,    \* the matter_parties rows, by id
    Batch,    \* rows one sync reads (500 in the code)
    PerMilli, \* instants of the database's clock in a millisecond (1000 in the code)
    LastTime  \* bound: the last time the model reaches

SyncAssumption ==
    Links \subseteq Nat \ {0} /\ {Batch, PerMilli} \subseteq Nat \ {0} /\ LastTime \in Nat

VARIABLES
    now,    \* the database's clock
    links,  \* per link, its state: see LinkType
    cursor, \* (added_at, id) of the last link a sync read; baselined: it exists
    sync,   \* what a running sync has read
    matter, \* the matter: see MatterType
    watch   \* what the reopen scan remembers of it

vars == <<now, links, cursor, sync, matter, watch>>

\* late: the row was committed after the sync had read past it.
LinkType == [state : {"none", "begun", "added", "checked"}, addedAt : 0..LastTime, late : BOOLEAN]
Never == [at |-> 0, id |-> 0, baselined |-> FALSE]
NoSync == [on |-> FALSE, read |-> {}]
MatterType == [closed : BOOLEAN, reopened : BOOLEAN, checked : BOOLEAN]

Init ==
    /\ now = 0
    /\ links = [l \in Links |-> [state |-> "none", addedAt |-> 0, late |-> FALSE]]
    /\ cursor = Never /\ sync = NoSync
    /\ matter = [closed |-> FALSE, reopened |-> FALSE, checked |-> FALSE]
    /\ watch = "unknown"

\* An instant as the program keeps it.
Milli(t) == t - (t % PerMilli)

\* An id of 0 stands for a cursor without an id, which takes later times only.
AfterCursor(l) ==
    \/ links[l].addedAt > cursor.at
    \/ cursor.id # 0 /\ links[l].addedAt = cursor.at /\ l > cursor.id

Before(a, b) ==
    \/ links[a].addedAt < links[b].addedAt
    \/ links[a].addedAt = links[b].addedAt /\ a <= b

-----------------------------------------------------------------------------
(* The other engines.                                                      *)

\* A transaction that adds a party to the matter begins: its now() is fixed, the
\* column's default; some engines write the program's time instead.
BeginAdding(l) ==
    /\ links[l].state = "none"
    /\ \E at \in {now, Milli(now)} :
         links' = [links EXCEPT ![l] = [state |-> "begun", addedAt |-> at, late |-> FALSE]]
    /\ UNCHANGED <<now, cursor, sync, matter, watch>>

PassedBy(l) == cursor.baselined /\ (~AfterCursor(l) \/ \E k \in sync.read : Before(l, k))

CommitAdding(l) ==
    /\ links[l].state = "begun"
    /\ links' = [links EXCEPT ![l].state = "added", ![l].late = PassedBy(l)]
    /\ UNCHANGED <<now, cursor, sync, matter, watch>>

\* The conflict engine's own page checks a party at once (groupNewLinks leaves it out).
CheckedAtOnce(l) ==
    /\ links[l].state = "added"
    /\ links' = [links EXCEPT ![l].state = "checked"]
    /\ UNCHANGED <<now, cursor, sync, matter, watch>>

CloseMatter ==
    /\ ~matter.closed
    /\ matter' = [matter EXCEPT !.closed = TRUE]
    /\ UNCHANGED <<now, links, cursor, sync, watch>>

ReopenMatter ==
    /\ matter.closed
    /\ matter' = [closed |-> FALSE, reopened |-> TRUE, checked |-> FALSE]
    /\ UNCHANGED <<now, links, cursor, sync, watch>>

TimePasses ==
    /\ now < LastTime
    /\ now' = now + 1
    /\ UNCHANGED <<links, cursor, sync, matter, watch>>

-----------------------------------------------------------------------------
(* The tick: syncMatterParties.                                            *)

\* The first sync only sets the baseline: links before it are history.
Baseline ==
    /\ ~cursor.baselined
    /\ cursor' = [at |-> Milli(now), id |-> 0, baselined |-> TRUE]
    /\ UNCHANGED <<now, links, sync, matter, watch>>

Visible == {l \in Links : links[l].state \in {"added", "checked"}}
\* ORDER BY added_at, id LIMIT batch.
FirstBatch(s) == {l \in s : Cardinality({k \in s : Before(k, l)}) <= Batch}

ReadLinks ==
    /\ cursor.baselined /\ ~sync.on
    /\ sync' = [on |-> TRUE, read |-> FirstBatch({l \in Visible : AfterCursor(l)})]
    /\ sync'.read # {}
    /\ UNCHANGED <<now, links, cursor, matter, watch>>

LastRead == CHOOSE l \in sync.read : \A k \in sync.read : Before(k, l)
\* Seeded bug: the cursor moves to the time of the last row and forgets its id.
CursorAfterTimeOnly == [at |-> Milli(links[LastRead].addedAt), id |-> 0, baselined |-> TRUE]

CursorAfter == [at |-> Milli(links[LastRead].addedAt), id |-> LastRead, baselined |-> TRUE]

\* Checks and the new cursor are one transaction.
SyncMatterParties ==
    /\ sync.on
    /\ links' = [l \in Links |-> IF l \in sync.read THEN [links[l] EXCEPT !.state = "checked"] ELSE links[l]]
    /\ cursor' = CursorAfter
    /\ sync' = NoSync
    /\ UNCHANGED <<now, matter, watch>>

SyncFails ==
    /\ sync.on
    /\ sync' = NoSync
    /\ UNCHANGED <<now, links, cursor, matter, watch>>

-----------------------------------------------------------------------------
(* The tick: detectReopenedMatters.                                        *)

RememberClosed ==
    /\ matter.closed /\ watch # "closed"
    /\ watch' = "closed"
    /\ UNCHANGED <<now, links, cursor, sync, matter>>

\* The matter was closed when last seen and is open again: all its parties are checked.
DetectReopened ==
    /\ ~matter.closed /\ watch = "closed"
    /\ watch' = "open"
    /\ matter' = [matter EXCEPT !.checked = TRUE]
    /\ UNCHANGED <<now, links, cursor, sync>>

-----------------------------------------------------------------------------
\* The two halves share no state.
NewParties ==
    \/ \E l \in Links : BeginAdding(l) \/ CommitAdding(l) \/ CheckedAtOnce(l)
    \/ TimePasses \/ Baseline \/ ReadLinks \/ SyncMatterParties \/ SyncFails
Reopenings == CloseMatter \/ ReopenMatter \/ RememberClosed \/ DetectReopened

Next == NewParties \/ Reopenings

Spec == Init /\ [][Next]_vars

\* Ticks come every minute and do not fail for ever.
Fairness ==
    /\ WF_vars(Baseline) /\ WF_vars(ReadLinks) /\ SF_vars(SyncMatterParties)
    /\ WF_vars(RememberClosed) /\ WF_vars(DetectReopened)
    /\ \A l \in Links : WF_vars(CommitAdding(l))
FairSpec == Spec /\ Fairness

-----------------------------------------------------------------------------
(* Properties.                                                             *)

TypeOK ==
    /\ now \in 0..LastTime /\ links \in [Links -> LinkType]
    /\ cursor.at \in 0..LastTime /\ cursor.id \in Links \cup {0}
    /\ sync.read \subseteq Links /\ Cardinality(sync.read) <= Batch
    /\ matter \in MatterType /\ watch \in {"unknown", "closed", "open"}

\* A batch's worth of rows of one millisecond is before this one, not all of
\* them by the program's clock: the cursor does not get past them.
Crowded(l) ==
    \E k \in Visible :
        LET same == {j \in Visible \ {l} : /\ Milli(links[j].addedAt) = Milli(links[k].addedAt)
                                           /\ Before(j, l)}
        IN /\ Cardinality(same) >= Batch
           /\ \E j \in same : links[j].addedAt # Milli(links[j].addedAt)

\* Full batches, failed syncs and rows of one instant lose nothing: a party
\* whose row is there before the sync has read past it is checked, unless a
\* full batch of one millisecond is before it (syncMatterParties).
NothingBehindTheBatchIsLost ==
    \A l \in Links :
        (links[l].state = "added" /\ cursor.baselined /\ AfterCursor(l) /\ ~links[l].late)
            ~> (links[l].state = "checked" \/ Crowded(l))

\* The step behind it: a sync moves its cursor past a party that was there in
\* time only as it checks the party, whatever commits between its read and
\* its write (syncMatterParties).
NothingIsPassedOver ==
    [][\A l \in Links :
          links[l].state = "added" /\ cursor.baselined /\ AfterCursor(l) /\ ~links[l].late
              => AfterCursor(l)' \/ links'[l].state = "checked"]_vars

\* A matter that a tick saw closed and that stays open again is checked again.
SeenReopeningIsChecked ==
    (watch = "closed" /\ ~matter.closed) ~> (matter.checked \/ matter.closed)
=============================================================================
