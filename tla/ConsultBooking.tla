--------------------------- MODULE ConsultBooking ---------------------------
(***************************************************************************)
(* Consultations of prospective clients with the firm's lawyers            *)
(* (src/src/engines/intake/booking/service.ts): a slot is held, confirmed, *)
(* rescheduled, put on hold, cancelled, and its outcome recorded, while    *)
(* the worker expires holds and runs the timers of booked consultations.   *)
(*                                                                         *)
(* Each request is one READ COMMITTED transaction, split where another     *)
(* transaction's commit can come between: it asks (reads the consultation, *)
(* the clock), locks the lawyer's calendar and looks for a free slot,      *)
(* marks the consultation (an UPDATE that names the status it read, which  *)
(* locks the row), silences its timers (an UPDATE that waits for a timer   *)
(* the worker has claimed), and commits.                                   *)
(*                                                                         *)
(* Whether a session may book at all, and with which lawyers, is an input: *)
(* a request refused for such a reason is a request not made.              *)
(***************************************************************************)
EXTENDS Integers, Sequences, FiniteSets

CONSTANTS
    Requests,      \* transactions in progress at a time, the worker's included
    Sessions,      \* intake sessions that book
    Lawyers,
    Slots,         \* start times on offer
    Span,          \* meeting and buffer: starts closer than this overlap
    Lead,          \* a slot is offered up to this long before its start
    HoldTime,      \* how long a slot is held
    ReminderAhead, \* a reminder is due this long before the start
    Grace,         \* after the start, before a no-show
    RebookOffers,  \* whether the firm offers a re-book after a no-show
    LastTime,      \* bound: the last instant of a behaviour
    MaxConsults    \* bound: consultations ever held, those in progress included

BookingAssumption ==
    /\ RebookOffers \in BOOLEAN
    /\ Slots \subseteq Nat /\ Span \in Nat /\ Lead \in Nat
    /\ HoldTime \in Nat \ {0} /\ ReminderAhead \in Nat /\ Grace \in Nat
    /\ LastTime \in Nat /\ MaxConsults \in Nat

ASSUME BoundsAssumption == BookingAssumption

VARIABLES
    consults, \* consultations, in the order they were inserted
    timers,   \* scheduled tasks of consultations not yet run or cancelled
    tasks,    \* open staff tasks about a consultation
    reminded, \* consultations a reminder was queued for
    offers,   \* re-book offers sent to each session
    flagged,  \* sessions flagged to the intake staff for a missed consultation
    clock,
    tx        \* the transaction of each request

vars == <<consults, timers, tasks, reminded, offers, flagged, clock, tx>>

Statuses == {"held", "booked", "rescheduled", "cancelled", "no_show",
             "completed", "expired", "on_hold"}
TimerKinds == {"reminder", "prompt"}
TaskKinds == {"record_outcome", "attendance"}

\* "event" is the entry on the lawyer's calendar; "previous" the consultation
\* this one replaces, 0 for none.
ConsultType == [session : Sessions, lawyer : Lawyers, slot : Slots,
                status : Statuses, expires : Nat,
                event : {"none", "live", "cancelled"}, previous : Nat]

\* The operations on a consultation and the status each moves it to.
Target == [confirm |-> "booked", cancel |-> "cancelled", no_show |-> "no_show",
           complete |-> "completed", on_hold |-> "on_hold",
           reschedule |-> "rescheduled"]

Idle == [op |-> "idle"]
TxType ==
    {Idle}
    \cup [op : {"hold"}, pc : {"asked", "locked"}, session : Sessions,
          lawyer : Lawyers, slot : Slots, c : {0}, now : Nat]
    \cup [op : DOMAIN Target \ {"reschedule"}, pc : {"asked", "marked", "silenced"},
          c : Nat, was : Statuses, now : Nat]
    \cup [op : {"reschedule"}, pc : {"asked", "locked", "marked", "silenced"},
          c : Nat, was : Statuses, lawyer : Lawyers, slot : Slots, now : Nat]
    \cup [op : {"tick"}, now : Nat, claimed : SUBSET (TimerKinds \X Nat),
          left : SUBSET (TimerKinds \X Nat), run : SUBSET (TimerKinds \X Nat),
          moot : SUBSET (TimerKinds \X Nat)]

Init ==
    /\ consults = <<>>
    /\ timers = {}
    /\ tasks = {}
    /\ reminded = {}
    /\ offers = [s \in Sessions |-> 0]
    /\ flagged = {}
    /\ clock = 0
    /\ tx = [p \in Requests |-> Idle]

----------------------------------------------------------------------------
(* Rules.                                                                  *)

\* TRANSITIONS of slots.ts.
CanTransition(from, to) ==
    to \in CASE from = "held" -> {"booked", "expired", "cancelled"}
             [] from = "booked" -> {"rescheduled", "cancelled", "no_show",
                                    "completed", "on_hold"}
             [] from = "on_hold" -> {"booked", "cancelled", "rescheduled"}
             [] OTHER -> {}

Overlap(s, t) == s - t < Span /\ t - s < Span

\* busyFor: what takes up a lawyer's time.  A hold that has run out does not,
\* nor the consultation being moved; but that one's calendar entry still does.
TakesTime(i, now, moved) ==
    \/ /\ i # moved
       /\ consults[i].status \in {"held", "booked", "on_hold"}
       /\ consults[i].status = "held" => consults[i].expires > now
    \/ consults[i].event = "live"

Free(l, slot, now, moved) ==
    /\ now + Lead <= slot
    /\ \A i \in DOMAIN consults :
           consults[i].lawyer = l /\ Overlap(consults[i].slot, slot) =>
               ~TakesTime(i, now, moved)

\* When a timer of a consultation falls due.
DueAt(t) == IF t[1] = "reminder" THEN consults[t[2]].slot - ReminderAhead
            ELSE consults[t[2]].slot + Grace

\* The timers set for a consultation booked at an instant: a reminder only if
\* its time is still to come.
NewTimers(c, slot, now) ==
    {<<"prompt", c>>}
    \cup (IF slot - ReminderAhead > now THEN {<<"reminder", c>>} ELSE {})

TimersOf(c) == TimerKinds \X {c}
TasksOf(c) == TaskKinds \X {c}

----------------------------------------------------------------------------
(* Locks, as held by the transactions in progress.                         *)

Changing(p) == tx[p].op \in DOMAIN Target

LawyerLocked(l) ==
    \E q \in Requests :
        /\ tx[q].op \in {"hold", "reschedule"}
        /\ tx[q].pc # "asked"
        /\ tx[q].lawyer = l

\* The row of a consultation, from the UPDATE of its status to the commit.
RowLocked(c) ==
    \E q \in Requests : /\ Changing(q) /\ tx[q].c = c
                        /\ tx[q].pc \in {"marked", "silenced"}

TimerClaimed(t) == \E q \in Requests : tx[q].op = "tick" /\ t \in tx[q].claimed
TimersSilenced(c) ==
    \E q \in Requests : Changing(q) /\ tx[q].c = c /\ tx[q].pc = "silenced"

InProgress == Cardinality({q \in Requests : tx[q].op \in {"hold", "reschedule"}})

Begin(p, t) == tx[p] = Idle /\ tx' = [tx EXCEPT ![p] = t]
Finish(p) == tx' = [tx EXCEPT ![p] = Idle]
Goto(p, label) == tx' = [tx EXCEPT ![p].pc = label]

Stored == <<consults, timers, tasks, reminded, offers, flagged, clock>>

----------------------------------------------------------------------------
(* Holding a slot.                                                         *)

AskHold(p, s, l, slot) ==
    /\ Len(consults) + InProgress < MaxConsults
    /\ Begin(p, [op |-> "hold", pc |-> "asked", session |-> s, lawyer |-> l,
                 slot |-> slot, c |-> 0, now |-> clock])
    /\ UNCHANGED Stored

\* Seeded bug: requests for one lawyer are not serialised.
LockCalendarFreely(p) ==
    /\ tx[p].op \in {"hold", "reschedule"} /\ tx[p].pc = "asked"
    /\ Free(tx[p].lawyer, tx[p].slot, tx[p].now, tx[p].c)
    /\ Goto(p, "locked")
    /\ UNCHANGED Stored

\* Waits for the lawyer's advisory lock, then looks for the slot among what is
\* free as of the instant the request came in.
LockCalendar(p) ==
    /\ tx[p].op \in {"hold", "reschedule"} /\ tx[p].pc = "asked"
    /\ ~LawyerLocked(tx[p].lawyer)
    /\ Free(tx[p].lawyer, tx[p].slot, tx[p].now, tx[p].c)
    /\ Goto(p, "locked")
    /\ UNCHANGED Stored

CommitHold(p) ==
    /\ tx[p].op = "hold" /\ tx[p].pc = "locked"
    /\ consults' = Append(consults,
           [session |-> tx[p].session, lawyer |-> tx[p].lawyer,
            slot |-> tx[p].slot, status |-> "held",
            expires |-> tx[p].now + HoldTime, event |-> "none", previous |-> 0])
    /\ Finish(p)
    /\ UNCHANGED <<timers, tasks, reminded, offers, flagged, clock>>

----------------------------------------------------------------------------
(* Changing a consultation.                                                *)

\* What each operation asks of the consultation and of the clock at its start.
\* A confirmation of a hold that ran out marks it expired and then fails, which
\* undoes the mark: it leaves nothing behind.
MayAsk(op, c) ==
    /\ CanTransition(consults[c].status, Target[op])
    /\ op = "confirm" => consults[c].status = "held" /\ consults[c].expires >= clock
    /\ op = "no_show" => clock >= consults[c].slot + Grace

Ask(p, op, c) ==
    /\ op # "reschedule"
    /\ MayAsk(op, c)
    /\ Begin(p, [op |-> op, pc |-> "asked", c |-> c,
                 was |-> consults[c].status, now |-> clock])
    /\ UNCHANGED Stored

AskReschedule(p, c, l, slot) ==
    /\ Len(consults) + InProgress < MaxConsults
    /\ MayAsk("reschedule", c)
    /\ Begin(p, [op |-> "reschedule", pc |-> "asked", c |-> c,
                 was |-> consults[c].status, lawyer |-> l, slot |-> slot,
                 now |-> clock])
    /\ UNCHANGED Stored

\* Seeded bug: the UPDATE does not name the status that was read.
MarkBlindly(p) ==
    /\ Changing(p)
    /\ tx[p].pc = IF tx[p].op = "reschedule" THEN "locked" ELSE "asked"
    /\ ~RowLocked(tx[p].c)
    /\ Goto(p, "marked")
    /\ UNCHANGED Stored

\* setStatus: the row is changed only if it still has the status that was read.
Mark(p) ==
    /\ Changing(p)
    /\ tx[p].pc = IF tx[p].op = "reschedule" THEN "locked" ELSE "asked"
    /\ ~RowLocked(tx[p].c)
    /\ consults[tx[p].c].status = tx[p].was
    /\ Goto(p, "marked")
    /\ UNCHANGED Stored

CommitConfirm(p) ==
    LET c == tx[p].c
    IN  /\ tx[p].op = "confirm" /\ tx[p].pc = "marked"
        /\ consults' = [consults EXCEPT ![c].status = "booked",
                                        ![c].expires = 0,
                                        ![c].event = "live"]
        /\ timers' = timers \cup NewTimers(c, consults[c].slot, tx[p].now)
        /\ tasks' = tasks \cup {<<"record_outcome", c>>}
        /\ Finish(p)
        /\ UNCHANGED <<reminded, offers, flagged, clock>>

\* cancelConsultTimers: waits for a timer a tick has claimed.
Silence(p) ==
    /\ Changing(p) /\ tx[p].op # "confirm" /\ tx[p].pc = "marked"
    /\ \A t \in TimersOf(tx[p].c) : ~TimerClaimed(t)
    /\ Goto(p, "silenced")
    /\ UNCHANGED Stored

\* The calendar entry of a consultation that is cancelled or moved.
EventAfter(c) == IF consults[c].event = "live" THEN "cancelled" ELSE consults[c].event

CommitCancel(p) ==
    LET c == tx[p].c
    IN  /\ tx[p].op = "cancel" /\ tx[p].pc = "silenced"
        /\ consults' = [consults EXCEPT ![c].status = "cancelled",
                                        ![c].event = EventAfter(c)]
        /\ timers' = timers \ TimersOf(c)
        /\ tasks' = tasks \ TasksOf(c)
        /\ Finish(p)
        /\ UNCHANGED <<reminded, offers, flagged, clock>>

\* The outcome is recorded; the calendar entry stays.
CommitComplete(p) ==
    LET c == tx[p].c
    IN  /\ tx[p].op = "complete" /\ tx[p].pc = "silenced"
        /\ consults' = [consults EXCEPT ![c].status = "completed"]
        /\ timers' = timers \ TimersOf(c)
        /\ tasks' = tasks \ TasksOf(c)
        /\ Finish(p)
        /\ UNCHANGED <<reminded, offers, flagged, clock>>

\* A re-book is offered, unless the consultation this one replaces was missed
\* too, the firm offers none or the person must not be written to (no contact, a
\* safety concern); the staff are flagged then.
CommitNoShow(p, mayWrite) ==
    LET c == tx[p].c
        s == consults[c].session
        missedBefore == /\ consults[c].previous # 0
                        /\ consults[consults[c].previous].status = "no_show"
        offer == RebookOffers /\ mayWrite /\ ~missedBefore
    IN  /\ tx[p].op = "no_show" /\ tx[p].pc = "silenced"
        /\ consults' = [consults EXCEPT ![c].status = "no_show"]
        /\ timers' = timers \ TimersOf(c)
        /\ tasks' = tasks \ TasksOf(c)
        /\ offers' = [offers EXCEPT ![s] = IF offer THEN @ + 1 ELSE @]
        /\ flagged' = IF offer THEN flagged ELSE flagged \cup {s}
        /\ Finish(p)
        /\ UNCHANGED <<reminded, clock>>

\* Staff put a booking on hold: its tasks stay open, its calendar entry too.
CommitOnHold(p) ==
    LET c == tx[p].c
    IN  /\ tx[p].op = "on_hold" /\ tx[p].pc = "silenced"
        /\ consults' = [consults EXCEPT ![c].status = "on_hold"]
        /\ timers' = timers \ TimersOf(c)
        /\ Finish(p)
        /\ UNCHANGED <<tasks, reminded, offers, flagged, clock>>

\* The old consultation is closed and the new one booked in one transaction.
CommitReschedule(p) ==
    LET c == tx[p].c
        n == Len(consults) + 1
    IN  /\ tx[p].op = "reschedule" /\ tx[p].pc = "silenced"
        /\ consults' = Append([consults EXCEPT ![c].status = "rescheduled",
                                               ![c].event = EventAfter(c)],
               [session |-> consults[c].session, lawyer |-> tx[p].lawyer,
                slot |-> tx[p].slot, status |-> "booked", expires |-> 0,
                event |-> "live", previous |-> c])
        /\ timers' = (timers \ TimersOf(c)) \cup NewTimers(n, tx[p].slot, tx[p].now)
        /\ tasks' = (tasks \ TasksOf(c)) \cup {<<"record_outcome", n>>}
        /\ Finish(p)
        /\ UNCHANGED <<reminded, offers, flagged, clock>>

----------------------------------------------------------------------------
(* The worker.                                                             *)

\* Seeded bug: only the holds that run out at this very tick are released.
RunOutNow(c, now) == consults[c].expires = now

RunOut(c, now) == consults[c].expires <= now

\* expireSlotHolds, row by row, with the clock the tick read when it started:
\* the UPDATE waits for a locked row and then looks at its status again.
ExpireSlotHold(c, now) ==
    /\ consults[c].status = "held"
    /\ RunOut(c, now)
    /\ ~RowLocked(c)
    /\ consults' = [consults EXCEPT ![c].status = "expired"]
    /\ UNCHANGED <<timers, tasks, reminded, offers, flagged, clock, tx>>

\* A tick claims the timers that are due, skipping the rows others have locked.
TickClaim(p) ==
    LET due == {t \in timers : /\ DueAt(t) <= clock
                               /\ ~TimerClaimed(t) /\ ~TimersSilenced(t[2])}
    IN  /\ due # {}
        /\ Begin(p, [op |-> "tick", now |-> clock, claimed |-> due, left |-> due,
                     run |-> {}, moot |-> {}])
        /\ UNCHANGED Stored

\* A handler reads the consultation again and does nothing unless it is booked
\* (a reminder: and has not started).
TickHandle(p, t) ==
    LET acts == /\ consults[t[2]].status = "booked"
                /\ t[1] = "reminder" => consults[t[2]].slot > tx[p].now
    IN  /\ tx[p].op = "tick" /\ t \in tx[p].left
        /\ tx' = IF acts THEN [tx EXCEPT ![p].left = @ \ {t}, ![p].run = @ \cup {t}]
                 ELSE [tx EXCEPT ![p].left = @ \ {t}, ![p].moot = @ \cup {t}]
        /\ UNCHANGED Stored

\* A handler fails: its own writes are undone and the timer stays to be retried.
TickHandlerFails(p, t) ==
    /\ tx[p].op = "tick" /\ t \in tx[p].left
    /\ tx' = [tx EXCEPT ![p].left = @ \ {t}]
    /\ UNCHANGED Stored

TickCommit(p) ==
    /\ tx[p].op = "tick" /\ tx[p].left = {}
    /\ timers' = timers \ (tx[p].run \cup tx[p].moot)
    /\ tasks' = tasks \cup {<<"attendance", t[2]>> : t \in {u \in tx[p].run : u[1] = "prompt"}}
    /\ reminded' = reminded \cup {t[2] : t \in {u \in tx[p].run : u[1] = "reminder"}}
    /\ Finish(p)
    /\ UNCHANGED <<consults, offers, flagged, clock>>

----------------------------------------------------------------------------

\* A refused step or a lost connection: all the transaction did is undone.
Rollback(p) ==
    /\ tx[p] # Idle
    /\ Finish(p)
    /\ UNCHANGED Stored

PassTime ==
    /\ clock < LastTime
    /\ clock' = clock + 1
    /\ UNCHANGED <<consults, timers, tasks, reminded, offers, flagged, tx>>

\* A transaction goes on, or begins.
Proceed(p) ==
    \/ LockCalendar(p) \/ CommitHold(p)
    \/ Mark(p) \/ CommitConfirm(p)
    \/ Silence(p)
    \/ CommitCancel(p) \/ CommitComplete(p)
    \/ \E mayWrite \in BOOLEAN : CommitNoShow(p, mayWrite)
    \/ CommitOnHold(p) \/ CommitReschedule(p)
    \/ tx[p].op = "tick" /\ \E t \in tx[p].left : TickHandle(p, t) \/ TickHandlerFails(p, t)
    \/ TickCommit(p)
    \/ Rollback(p)

Request(p) ==
    \/ \E s \in Sessions, l \in Lawyers, slot \in Slots : AskHold(p, s, l, slot)
    \/ \E op \in DOMAIN Target, c \in DOMAIN consults : Ask(p, op, c)
    \/ \E c \in DOMAIN consults, l \in Lawyers, slot \in Slots :
           AskReschedule(p, c, l, slot)
    \/ TickClaim(p)

Next ==
    \/ \E p \in Requests : Proceed(p) \/ Request(p)
    \/ \E c \in DOMAIN consults, now \in 0 .. clock : ExpireSlotHold(c, now)
    \/ PassTime

Spec == Init /\ [][Next]_vars

\* Transactions end, time passes, and the worker ticks each minute; its UPDATE
\* queues for a locked row, so it gets the row if that is free now and then.
Fairness ==
    /\ \A p \in Requests : WF_vars(Proceed(p))
    /\ WF_vars(PassTime)
    /\ \A c \in 1 .. MaxConsults :
           SF_vars(c \in DOMAIN consults /\ ExpireSlotHold(c, clock))

FairSpec == Spec /\ Fairness

----------------------------------------------------------------------------
(* Properties.                                                             *)

TypeOK ==
    /\ consults \in Seq(ConsultType)
    /\ timers \in SUBSET (TimerKinds \X DOMAIN consults)
    /\ tasks \in SUBSET (TaskKinds \X DOMAIN consults)
    /\ reminded \in SUBSET DOMAIN consults
    /\ offers \in [Sessions -> Nat]
    /\ flagged \in SUBSET Sessions
    /\ clock \in 0 .. LastTime
    /\ tx \in [Requests -> TxType]

\* A lawyer is never to meet two people at overlapping times.
NoDoubleBooking ==
    \A i, j \in DOMAIN consults :
        /\ i # j
        /\ consults[i].status = "booked" /\ consults[j].status = "booked"
        /\ consults[i].lawyer = consults[j].lawyer
        => ~Overlap(consults[i].slot, consults[j].slot)

\* Every confirmation in progress is of a hold that still stands.
ConfirmedInTime ==
    \A p \in Requests :
        tx[p].op = "confirm" => clock < consults[tx[p].c].expires

\* As long as no hold runs out under its own confirmation (whose clock is read
\* when it starts), holds that run out and are given to others, bookings that
\* move and outcomes recorded meanwhile never leave a lawyer with two meetings
\* at overlapping times.
InTimeNeverDoubleBooked == []ConfirmedInTime => []NoDoubleBooking

\* A consultation that was cancelled or moved has no entry left on the lawyer's
\* calendar, and one that is booked has one, whichever of a confirmation, a
\* cancellation and a reschedule of it ran side by side.
CalendarFollowsStatus ==
    \A i \in DOMAIN consults :
        (consults[i].event = "live") <=>
            consults[i].status \in {"booked", "on_hold", "completed", "no_show"}

\* No staff task is left open on a consultation that is over, even when the
\* worker was about to ask for its attendance as its outcome was recorded.
NoTaskAfterEnd ==
    \A t \in tasks : consults[t[2]].status \in {"booked", "on_hold"}

\* A timer is pending only for a consultation that is booked.
TimersOnlyWhileBooked == \A t \in timers : consults[t[2]].status = "booked"

\* A reminder is queued only for a consultation still booked when it is, and
\* nothing committed in between can have cancelled or moved it.
RemindersWhileBooked ==
    [][\A c \in reminded' \ reminded : consults[c].status = "booked"]_vars

\* A consultation is replaced at most once, and the one replaced is closed.
MovedOnce ==
    \A i, j \in DOMAIN consults :
        /\ consults[i].previous # 0
              => consults[consults[i].previous].status = "rescheduled"
        /\ i # j /\ consults[i].previous # 0
              => consults[i].previous # consults[j].previous

\* Whatever ran side by side, the calendar, the statuses, the chain of moved
\* consultations, the timers and the staff's tasks agree, and no reminder is
\* queued for a consultation that is no longer booked.
BookingsAreConsistent ==
    /\ [](CalendarFollowsStatus /\ MovedOnce /\ TimersOnlyWhileBooked /\ NoTaskAfterEnd)
    /\ RemindersWhileBooked

\* A slot held and never confirmed is given back.
HoldsEnd ==
    \A c \in 1 .. MaxConsults :
        (c \in DOMAIN consults /\ consults[c].status = "held")
            ~> (c \in DOMAIN consults /\ consults[c].status # "held")

\* c67, acceptance 4: one re-book offer is sent, a second no-show flags.
OneRebookOffer == \A s \in Sessions : offers[s] <= 1
=============================================================================
