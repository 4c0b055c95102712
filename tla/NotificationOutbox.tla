------------------------- MODULE NotificationOutbox -------------------------
(***************************************************************************)
(* The outbox of emails (src/src/core/notify.ts) and the follow-up of what *)
(* could not be delivered (engines/calendar-alerts/delivery): a request    *)
(* queues a row, the worker's tick drains the due rows through the         *)
(* provider in one transaction, the provider reports back.                 *)
(*                                                                         *)
(* What a drain writes is seen by others only when it commits; until then  *)
(* the rows it took are locked.  What the provider accepted is not undone  *)
(* by a rollback.  Ticks may overlap, hence several workers.  A row's      *)
(* earliest time is reduced to whether it is still to come; in-app rows    *)
(* are complete when inserted and are left out.                            *)
(***************************************************************************)
EXTENDS Naturals, Sequences, FiniteSets

CONSTANTS
    Workers,     \* ticks that may be under way at a time
    Staff,       \* firm users
    Clients,     \* parties, who are written to in approved wording only
    Addresses,
    Batch,       \* rows a drain takes (100 in the code)
    WatchBatch,  \* rows the delivery watch reads (200 in the code)
    MaxAttempts, \* refusals before a row is given up (5 in the code)
    Movers,      \* bound: people whose address changes in a behaviour
    MaxRows,     \* bound: rows ever queued
    MaxLost      \* bound: copies of a row whose sending was forgotten

OutboxAssumption ==
    /\ {Batch, WatchBatch, MaxAttempts} \subseteq Nat \ {0}
    /\ MaxRows \in Nat /\ MaxLost \in Nat
    /\ Staff \cap Clients = {} /\ Movers \subseteq Staff \cup Clients

VARIABLES
    outbox,    \* rows, oldest first
    contact,   \* the address each person may be written to now, if any
    gates,     \* approvals in force: "vendor" (with a real provider), "wording"
    drain,     \* the transaction of each worker's drain
    copies,    \* copies of each row the provider accepted
    lost,      \* accepted copies the outbox has no memory of
    aged,      \* undelivered rows queued longer ago than the watch looks back
    onDuty,    \* of "admin" and "lawyer", who the firm has to tell of a failure
    followups, \* rows the delivery watch has recorded
    told       \* of these, the rows it raised a flag about

watchVars == <<onDuty, followups, told>>
vars == <<outbox, contact, gates, drain, copies, lost, aged, watchVars>>

People == Staff \cup Clients
NoAddress == "none"
\* A client turned email off, or the account of one of the staff is disabled.
TurnedOff == "off"
Contacts == Addresses \cup {NoAddress, TurnedOff}
Final == {"sent", "delivered", "bounced", "failed", "suppressed"}
RowType == [to : People, address : Contacts,
            status : Final \cup {"pending", "held"}, attempts : 0..MaxAttempts,
            waiting : BOOLEAN]
Answers == {"accepted", "refused", "unanswered"}

\* A drain under way is what it will write, row by row.
Idle == <<>>
Rows == DOMAIN outbox
Locked == UNION {DOMAIN drain[w] : w \in Workers}

Init ==
    /\ outbox = <<>>
    /\ contact \in [People -> Contacts]
    /\ \A p \in People \ Movers : contact[p] \in Addresses
    /\ gates = {}
    /\ drain = [w \in Workers |-> Idle]
    /\ copies = <<>> /\ lost = <<>>
    /\ aged = {}
    /\ onDuty \in SUBSET {"admin", "lawyer"} /\ followups = {} /\ told = {}

\* How a row starts life: suppressed when there is no address to use, the
\* reason kept in its place.
PlanDelivery(p, later) ==
    [to |-> p, address |-> contact[p], attempts |-> 0,
     status |-> IF contact[p] \in Addresses THEN "pending" ELSE "suppressed",
     waiting |-> later /\ contact[p] \in Addresses]

Enqueue(p, later) ==
    /\ Len(outbox) < MaxRows
    /\ outbox' = Append(outbox, PlanDelivery(p, later))
    /\ copies' = Append(copies, 0)
    /\ lost' = Append(lost, 0)
    /\ UNCHANGED <<contact, gates, drain, aged, watchVars>>

-----------------------------------------------------------------------------
(* The worker's drain.                                                     *)

\* Seeded bug: held rows are never tried again.
DuePendingOnly(r) == ~outbox[r].waiting /\ outbox[r].status = "pending"

\* Held rows are tried again only when the provider could take them.
Due(r) ==
    /\ ~outbox[r].waiting
    /\ \/ outbox[r].status = "pending"
       \/ outbox[r].status = "held" /\ "vendor" \in gates

\* FOR UPDATE SKIP LOCKED.
Claimable == {r \in Rows : Due(r) /\ r \notin Locked}

\* The first rows up to the batch's size, in the order they were queued.
Claimed == {r \in Claimable : Cardinality({q \in Claimable : q < r}) < Batch}

\* The checks before the provider is called, in the code's order.
Stopped(row) ==
    IF "vendor" \notin gates \/ (row.to \in Clients /\ "wording" \notin gates)
    THEN "held"
    ELSE IF row.address \in Addresses THEN "no" ELSE "suppressed"

\* A refused message is retried later, then given up; one whose answer was
\* lost cannot be told from it.
Refused(row) ==
    LET giveUp == row.attempts + 1 >= MaxAttempts
    IN [row EXCEPT !.attempts = @ + 1, !.waiting = ~giveUp,
                   !.status = IF giveUp THEN "failed" ELSE "pending"]

Processed(row, answer) ==
    IF Stopped(row) # "no" THEN [row EXCEPT !.status = Stopped(row)]
    ELSE IF answer = "accepted"
    THEN [row EXCEPT !.status = "sent", !.attempts = @ + 1]
    ELSE Refused(row)

\* A tick claims its rows and hands them to the provider one after the other.
\* The rows are locked and the approvals are those loaded at the tick's start,
\* so nothing comes between; a tick that ends before its last row is one whose
\* remaining rows were refused and which then fails.
DrainSends(w) ==
    /\ drain[w] = Idle /\ Claimed # {}
    /\ \E answer \in [Claimed -> Answers] :
         LET took(r) == r \in Claimed /\ Stopped(outbox[r]) = "no" /\ answer[r] # "refused"
             forgot(r) == took(r) /\ answer[r] = "unanswered"
         IN /\ \A r \in Claimed : Stopped(outbox[r]) # "no" => answer[r] = "refused"
            /\ \A r \in Rows : forgot(r) => lost[r] < MaxLost
            /\ drain' = [drain EXCEPT ![w] =
                           [r \in Claimed |-> Processed(outbox[r], answer[r])]]
            /\ copies' = [r \in Rows |-> copies[r] + (IF took(r) THEN 1 ELSE 0)]
            /\ lost' = [r \in Rows |-> lost[r] + (IF forgot(r) THEN 1 ELSE 0)]
    /\ UNCHANGED <<outbox, contact, gates, aged, watchVars>>

DrainCommit(w) ==
    /\ drain[w] # Idle
    /\ outbox' = [r \in Rows |-> IF r \in DOMAIN drain[w] THEN drain[w][r] ELSE outbox[r]]
    /\ drain' = [drain EXCEPT ![w] = Idle]
    /\ UNCHANGED <<contact, gates, copies, lost, aged, watchVars>>

\* The process ends, or a statement fails, before the commit.
DrainFails(w) ==
    LET sent == {r \in DOMAIN drain[w] : drain[w][r].status = "sent"}
    IN /\ drain[w] # Idle
       /\ \A r \in sent : lost[r] < MaxLost
       /\ drain' = [drain EXCEPT ![w] = Idle]
       /\ lost' = [r \in Rows |-> lost[r] + (IF r \in sent THEN 1 ELSE 0)]
       /\ UNCHANGED <<outbox, contact, gates, copies, aged, watchVars>>

-----------------------------------------------------------------------------
(* The provider, the delivery watch, and the world.                        *)

\* A report names the row and overwrites its status whatever that is.  It is
\* refused while the vendor is not approved, and waits for a drain's lock.  A
\* reported failure is stored and followed up as a bounce is.
RecordDeliveryStatus(r, s) ==
    /\ copies[r] > 0 /\ r \notin Locked /\ "vendor" \in gates
    /\ outbox' = [outbox EXCEPT ![r].status = s]
    /\ UNCHANGED <<contact, gates, drain, copies, lost, aged, watchVars>>

Undelivered == {"bounced", "failed", "suppressed"}

Unrecorded == {r \in Rows : outbox[r].status \in Undelivered /\ r \notin aged \cup followups}

\* What is a failure: mail to those who want none is not.
PlanFollowup(r) ==
    \/ outbox[r].status \in {"bounced", "failed"}
    \/ outbox[r].status = "suppressed" /\ outbox[r].address = NoAddress

\* The oldest rows without a record, those that are no failure among them.
Watched == {r \in Unrecorded : Cardinality({q \in Unrecorded : q < r}) < WatchBatch}

\* A client's address is the responsible lawyer's affair, unless there is none;
\* all else is the administrators'.
CanBeTold(r) ==
    \/ "admin" \in onDuty
    \/ "lawyer" \in onDuty /\ outbox[r].to \in Clients /\ outbox[r].status # "failed"

\* A failure is recorded, with nobody told when there is nobody.
DeliveryWatch ==
    LET planned == {r \in Watched : PlanFollowup(r)}
    IN /\ planned # {}
       /\ followups' = followups \cup planned
       /\ told' = told \cup {r \in planned : CanBeTold(r)}
       /\ UNCHANGED <<outbox, contact, gates, drain, copies, lost, aged, onDuty>>

\* The earliest times of the waiting rows come.
TimePasses ==
    /\ \E r \in Rows : outbox[r].waiting
    /\ outbox' = [r \in Rows |-> [outbox[r] EXCEPT !.waiting = FALSE]]
    /\ UNCHANGED <<contact, gates, drain, copies, lost, aged, watchVars>>

\* Growing old matters only to a row the watch has no record of.
GrowOld(r) ==
    /\ r \in Unrecorded
    /\ aged' = aged \cup {r}
    /\ UNCHANGED <<outbox, contact, gates, drain, copies, lost, watchVars>>

ChangeAddress(p, a) ==
    /\ a # contact[p]
    /\ contact' = [contact EXCEPT ![p] = a]
    /\ UNCHANGED <<outbox, gates, drain, copies, lost, aged, watchVars>>

ChangeGate(g) ==
    /\ gates' = IF g \in gates THEN gates \ {g} ELSE gates \cup {g}
    /\ UNCHANGED <<outbox, contact, drain, copies, lost, aged, watchVars>>

Drain(w) == DrainSends(w) \/ DrainCommit(w)

Next ==
    \/ \E p \in People, later \in BOOLEAN : Enqueue(p, later)
    \/ \E w \in Workers : Drain(w) \/ DrainFails(w)
    \/ \E r \in Rows : \/ \E s \in {"delivered", "bounced"} : RecordDeliveryStatus(r, s)
                       \/ GrowOld(r)
    \/ DeliveryWatch \/ TimePasses
    \/ \E p \in Movers, a \in Contacts : ChangeAddress(p, a)
    \/ \E g \in {"vendor", "wording"} : ChangeGate(g)

Spec == Init /\ [][Next]_vars

\* The worker ticks every minute, a begun drain goes on, and drains do not
\* fail for ever; a row's earliest time comes.
Fairness ==
    /\ \A w \in Workers : WF_vars(Drain(w))
    /\ <>[][\A w \in Workers : ~DrainFails(w)]_vars
    /\ WF_vars(TimePasses) /\ WF_vars(DeliveryWatch)


-----------------------------------------------------------------------------
(* Properties.                                                             *)

\* Rows, drains and the counters about them are well formed.
TypeOK ==
    /\ outbox \in Seq(RowType) /\ Len(outbox) <= MaxRows
    /\ contact \in [People -> Contacts]
    /\ gates \subseteq {"vendor", "wording"}
    /\ \A w \in Workers :
         /\ DOMAIN drain[w] \subseteq Rows /\ Cardinality(DOMAIN drain[w]) <= Batch
         /\ \A r \in DOMAIN drain[w] : drain[w][r] \in RowType
    /\ copies \in [Rows -> Nat] /\ lost \in [Rows -> 0..MaxLost]
    /\ onDuty \subseteq {"admin", "lawyer"}
    /\ aged \subseteq Rows /\ told \subseteq followups /\ followups \subseteq Rows

\* A person gets one message one time, save for the copies whose acceptance a
\* failed drain or a lost answer made the outbox forget, however many ticks
\* overlap (drainNotificationOutbox).
CopiesAreAccountedFor == \A r \in Rows : copies[r] <= 1 + lost[r]

\* What the provider reported of a message is replaced by another report only,
\* never by a drain that took the row before the report came.
ReportsAreKept ==
    [][\A r \in Rows : outbox[r].status \in {"delivered", "bounced"}
                       => outbox'[r].status \in {"delivered", "bounced"}]_vars

\* Mail that is no failure is never recorded: enough of it, older, hides a row.
Hidden(r) == Cardinality({q \in Unrecorded : q < r /\ ~PlanFollowup(q)}) >= WatchBatch

\* An email that could not be delivered is recorded, and told to somebody in a
\* firm that has an administrator, unless a later report says otherwise, the
\* watch no longer looks that far back, or it is hidden behind mail that nobody
\* wants (runDeliveryWatch, planFollowup).
FailuresAreFollowedUp ==
    []<>(\A r \in Rows : PlanFollowup(r) =>
           \/ r \in aged \/ Hidden(r)
           \/ r \in followups /\ ("admin" \in onDuty => r \in told))

\* Once a real provider is approved for good, every email to the firm's own
\* people is sent or given up, those held before the approval included.
StaffMailGoesOut ==
    <>[]("vendor" \in gates)
      => <>[](\A r \in Rows : outbox[r].to \in Staff => outbox[r].status \in Final)

\* An email to a client goes to the address that client may be written to at
\* the moment it is sent (processOutboxRow).
SentToCurrentAddress ==
    [][\A r \in Rows : copies'[r] > copies[r] /\ outbox[r].to \in Clients
                       => outbox[r].address = contact[outbox[r].to]]_vars
=============================================================================
