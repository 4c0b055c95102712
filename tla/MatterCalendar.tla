--------------------------- MODULE MatterCalendar ---------------------------
(***************************************************************************)
(* A deadline on the matter calendar, its follow-up task, and its copy in  *)
(* the lawyer's own Outlook or Google calendar                             *)
(* (src/src/engines/calendar-core/calendar/service.ts, events.ts, sync.ts),*)
(* and the days the firm's court-rule set computes for it (deadlines).     *)
(*                                                                         *)
(* Confirming, moving and cancelling read the event without a lock and     *)
(* write later, and so does re-dating its task                             *)
(* (calendar-alerts/overdue/service.ts); the outbound sync reads its       *)
(* links, calls the provider and writes what came of it over whatever was  *)
(* queued meanwhile.                                                       *)
(***************************************************************************)
EXTENDS Integers, Sequences, FiniteSets

CONSTANTS
    Lawyers, Clerks, \* the staff: attorneys, and others who may write the calendar
    Days,            \* the days the event may be put on
    Court,           \* the rule set in force: see ValidRuleSet
    Triggers,        \* what can have happened: [day, method, late]
    MaxAttempts      \* pushes before a link fails (5 in the code)

-----------------------------------------------------------------------------
(* The arithmetic of court days.  A day is a number; one of every seven is *)
(* the first of the week.  Steps of months and years are left out.         *)

Weekday(day) == day % 7
IsCourtDay(day) == Weekday(day) \notin Court.weekend /\ day \notin Court.holidays

\* Walks over the days, forward or backward, until it has met n court days.
AddCourtDays(day, n) ==
    LET step == IF n >= 0 THEN 1 ELSE -1
        walk[d \in Int, left \in Nat] ==
            IF left = 0 THEN d
            ELSE walk[d + step, IF IsCourtDay(d + step) THEN left - 1 ELSE left]
    IN  walk[day, IF n >= 0 THEN n ELSE -n]

RollToCourtDay(day, direction) == IF IsCourtDay(day) THEN day ELSE AddCourtDays(day, direction)
NextWeekday(day, weekday) == CHOOSE d \in day + 1 .. day + 7 : Weekday(d) = weekday

ApplyStep(day, step, method) ==
    CASE step.op = "calendar_days" -> day + step.amount
      [] step.op = "court_days" -> AddCourtDays(day, step.amount)
      [] step.op = "weeks" -> day + 7 * step.amount
      [] step.op = "next_weekday" -> NextWeekday(day, step.amount)
      [] step.op = "roll" -> RollToCourtDay(day, step.amount)
      [] step.op = "service" -> IF method = step.method THEN day + step.amount ELSE day

ApplyRule(rule, day, method) ==
    LET after[i \in 0..Len(rule)] == IF i = 0 THEN day ELSE ApplyStep(after[i - 1], rule[i], method)
    IN  after[Len(rule)]

\* Service at or after the cutoff counts as service some days later.
EffectiveTriggerDate(trigger) ==
    IF trigger.late /\ trigger.method \in Court.lateMethods THEN trigger.day + Court.shift ELSE trigger.day

ValidStep(step) ==
    CASE step.op \in {"calendar_days", "court_days", "weeks"} -> step.amount \in -3650 .. 3650
      [] step.op = "next_weekday" -> step.amount \in 0..6
      [] step.op = "roll" -> step.amount \in {1, -1}
      [] step.op = "service" -> step.amount \in 0..60
      [] OTHER -> FALSE
ValidRuleSet ==
    /\ Court.weekend \subseteq 0..6 /\ Court.weekend # 0..6
    /\ IsFiniteSet(Court.holidays) /\ Court.holidays \subseteq Int
    /\ Court.shift \in 0..10
    /\ Court.rules # {} /\ \A rule \in Court.rules : Len(rule) \in 1..20 /\ \A i \in DOMAIN rule : ValidStep(rule[i])

\* n court days on, or back, lies a court day with n of them on the way to it.
CourtDaysAreCounted(days, counts) ==
    \A day \in days, n \in counts :
        LET on == AddCourtDays(day, n)
            back == AddCourtDays(day, -n)
        IN  /\ IsCourtDay(on) /\ Cardinality({d \in day + 1 .. on : IsCourtDay(d)}) = n
            /\ IsCourtDay(back) /\ Cardinality({d \in back .. day - 1 : IsCourtDay(d)}) = n

CalendarAssumption ==
    /\ ValidRuleSet
    /\ Lawyers \cap Clerks = {}
    /\ Days \subseteq Nat \ {0} /\ Days # {}
    /\ MaxAttempts \in Nat \ {0}

VARIABLES
    event,    \* the calendar_events row; status "none" before it is entered
    task,     \* its deadline-critical task
    asks,     \* per person, the change they are making and the event as they read it
    approved, \* vendor.calendar_sync is approved
    connected,\* the lawyer's connection is active
    link,     \* its calendar_sync_links row; on FALSE while there is none
    copy,     \* what the lawyer's own calendar shows of the event
    pushing,  \* what a running outbound sync read
    \* These exist to state properties:
    vouched,  \* the day a lawyer last put their name to (0: none)
    seen,     \* the day that lawyer had read or chosen
    overtaken,\* somebody moved the event while that lawyer was confirming it
    loose     \* the task was re-dated other than against the confirmed day it has

vars == <<event, task, asks, approved, connected, link, copy, pushing, vouched, seen, overtaken, loose>>
syncVars == <<approved, connected, link, copy, pushing>>
history == <<vouched, seen, overtaken, loose>>

Staff == Lawyers \cup Clerks
Statuses == {"proposed", "confirmed", "cancelled"}
NoTask == [open |-> FALSE, due |-> 0]
NoAsk == [op |-> "none"]
NoLink == [on |-> FALSE, op |-> "none", status |-> "synced", attempts |-> 0, known |-> FALSE]
NoPush == [on |-> FALSE]
NoCopy == [at |-> 0, marked |-> FALSE]

Init ==
    /\ event = [status |-> "none", at |-> 0]
    /\ task = NoTask
    /\ asks = [u \in Staff |-> NoAsk]
    /\ approved \in BOOLEAN /\ connected = FALSE
    /\ link = NoLink /\ copy = NoCopy /\ pushing = NoPush
    /\ vouched = 0 /\ seen = 0 /\ overtaken = FALSE /\ loose = FALSE

Least(a, b) == IF a < b THEN a ELSE b

-----------------------------------------------------------------------------
(* The queue of the outbound sync.                                         *)

\* planLinkOp: known says the provider has given the event an id.
LinkOp(status, known) ==
    IF status = "cancelled" THEN IF known THEN "delete" ELSE "none"
    ELSE IF known THEN "update" ELSE "create"

\* queueEventSync, after every change; an operation of "none" leaves the link as it is.
QueueEventSync(status) ==
    LET op == LinkOp(status, link.known)
    IN  link' = IF connected /\ op # "none"
                THEN [link EXCEPT !.on = TRUE, !.op = op, !.status = "pending", !.attempts = 0]
                ELSE link

-----------------------------------------------------------------------------
(* The event and its task.                                                 *)

\* onConfirmed: one open task per event, due on its day.
TaskWhenConfirmed(day) == IF task.open THEN task ELSE [open |-> TRUE, due |-> day]

VouchedFor(day, read, moved) == vouched' = day /\ seen' = read /\ overtaken' = moved

Enter(status, day) ==
    /\ event.status = "none"
    /\ event' = [status |-> status, at |-> day]
    /\ task' = IF status = "confirmed" THEN TaskWhenConfirmed(day) ELSE task
    /\ IF status = "confirmed" THEN VouchedFor(day, day, FALSE) ELSE UNCHANGED <<vouched, seen, overtaken>>
    /\ QueueEventSync(status)
    /\ UNCHANGED <<asks, approved, connected, copy, pushing, loose>>

\* initialStatus: an attorney may confirm what they enter; staff entries, court
\* notices, the calculator's and the AI's start as proposals.
CreateEvent(day) == Lawyers # {} /\ Enter("confirmed", day)
Propose(day) == Enter("proposed", day)

\* runCalculation, under an approved rule set: what each rule gives is proposed.
RunCalculation ==
    \E trigger \in Triggers, rule \in Court.rules :
        LET day == ApplyRule(rule, EffectiveTriggerDate(trigger), trigger.method)
        IN  day \in Days /\ Propose(day)

\* confirmEvent up to its update: a lawyer reads a proposal and decides.
ReadToConfirm(u) ==
    /\ u \in Lawyers /\ asks[u] = NoAsk /\ event.status = "proposed"
    /\ asks' = [asks EXCEPT ![u] = [op |-> "confirm", day |-> event.at, moved |-> FALSE]]
    /\ UNCHANGED <<event, task, syncVars, history>>

\* The update asks that it still is a proposal, not that it is still on that day.
ConfirmEvent(u) ==
    /\ asks[u].op = "confirm"
    /\ asks' = [asks EXCEPT ![u] = NoAsk]
    /\ IF event.status # "proposed" THEN UNCHANGED <<event, task, link, vouched, seen, overtaken>>
       ELSE /\ event' = [event EXCEPT !.status = "confirmed"]
            /\ task' = TaskWhenConfirmed(event.at)
            /\ VouchedFor(event.at, asks[u].day, asks[u].moved)
            /\ QueueEventSync("confirmed")
    /\ UNCHANGED <<approved, connected, copy, pushing, loose>>

ReadToMove(u, day) ==
    /\ asks[u] = NoAsk /\ event.status \in {"proposed", "confirmed"}
    /\ asks' = [asks EXCEPT ![u] = [op |-> "move", day |-> day, status |-> event.status]]
    /\ UNCHANGED <<event, task, syncVars, history>>

\* Seeded bug: the move of a confirmed deadline leaves it confirmed, whoever moves it.
StatusKept(u, status) == status

\* planReschedule: a lawyer moving a confirmed deadline confirms the new day.
StatusAfterMove(u, status) ==
    IF status = "confirmed" /\ u \in Lawyers THEN "confirmed" ELSE "proposed"

\* While the new day is not confirmed the reminder stays on the earlier one.
DueAfterMove(status, day, due) == IF status = "confirmed" THEN day ELSE Least(day, due)

\* rescheduleEvent from its update on; the update has no guard on the status.
MoveEvent(u) ==
    /\ asks[u].op = "move"
    /\ LET day == asks[u].day
           status == StatusAfterMove(u, asks[u].status)
       IN  /\ event' = [status |-> status, at |-> day]
           /\ task' = IF task.open THEN [task EXCEPT !.due = DueAfterMove(status, day, task.due)] ELSE task
           /\ IF status # "confirmed" THEN UNCHANGED history
              ELSE VouchedFor(IF u \in Lawyers THEN day ELSE 0, day, FALSE) /\ loose' = FALSE
           /\ QueueEventSync(status)
    /\ asks' = [v \in Staff |-> IF v = u THEN NoAsk
                               ELSE IF asks[v].op = "confirm" THEN [op |-> "confirm", day |-> asks[v].day, moved |-> TRUE]
                               ELSE asks[v]]
    /\ UNCHANGED <<approved, connected, copy, pushing>>

\* canCancelAs, on the event as it was read: a confirmed deadline is a lawyer's to cancel.
ReadToCancel(u) ==
    /\ asks[u] = NoAsk
    /\ \/ event.status = "proposed"
       \/ event.status = "confirmed" /\ u \in Lawyers
    /\ asks' = [asks EXCEPT ![u] = [op |-> "cancel"]]
    /\ UNCHANGED <<event, task, syncVars, history>>

\* updateOpenTask: a task that was closed is not re-dated any more.
WithoutRedates == [v \in Staff |-> IF asks[v].op = "redate" THEN NoAsk ELSE asks[v]]

CancelEvent(u) ==
    /\ asks[u].op = "cancel"
    /\ IF event.status = "cancelled"
       THEN asks' = [asks EXCEPT ![u] = NoAsk] /\ UNCHANGED <<event, task, link, loose>>
       ELSE /\ asks' = [WithoutRedates EXCEPT ![u] = NoAsk]
            /\ event' = [event EXCEPT !.status = "cancelled"]
            /\ task' = NoTask /\ loose' = FALSE
            /\ QueueEventSync("cancelled")
    /\ UNCHANGED <<approved, connected, copy, pushing, vouched, seen, overtaken>>

\* updateEventDetails: the date stays, the copy has to follow.
UpdateEventDetails ==
    /\ event.status \in {"proposed", "confirmed"}
    /\ QueueEventSync(event.status)
    /\ UNCHANGED <<event, task, asks, approved, connected, copy, pushing, history>>

\* The person doing the task completes it (core/tasks.ts).
CompleteTask ==
    /\ task.open
    /\ task' = NoTask /\ loose' = FALSE
    /\ asks' = WithoutRedates
    /\ UNCHANGED <<event, syncVars, vouched, seen, overtaken>>

\* redateTask up to its write.  checkRedate holds the task against the day of a
\* confirmed event only; confirmed is 0 when it read another.
ReadToRedate(u, day) ==
    /\ asks[u] = NoAsk /\ task.open
    /\ event.status = "confirmed" => day <= event.at
    /\ asks' = [asks EXCEPT ![u] = [op |-> "redate", day |-> day,
                                    confirmed |-> IF event.status = "confirmed" THEN event.at ELSE 0]]
    /\ UNCHANGED <<event, task, syncVars, history>>

RedateTask(u) ==
    /\ asks[u].op = "redate" /\ task.open
    /\ task' = [task EXCEPT !.due = asks[u].day]
    /\ loose' = ~(event.status = "confirmed" /\ asks[u].confirmed = event.at)
    /\ asks' = [asks EXCEPT ![u] = NoAsk]
    /\ UNCHANGED <<event, syncVars, vouched, seen, overtaken>>

-----------------------------------------------------------------------------
(* The outbound sync.                                                      *)

\* connectCalendar: a new connection, whose calendar shows nothing yet; events
\* that are not cancelled are queued for it.
ConnectCalendar ==
    /\ ~connected
    /\ connected' = TRUE
    /\ copy' = NoCopy
    /\ link' = IF event.status \in {"proposed", "confirmed"}
               THEN [NoLink EXCEPT !.on = TRUE, !.op = "create", !.status = "pending"] ELSE NoLink
    /\ pushing' = NoPush
    /\ UNCHANGED <<event, task, asks, approved, history>>

DisconnectCalendar ==
    /\ connected
    /\ connected' = FALSE
    /\ UNCHANGED <<event, task, asks, approved, link, copy, pushing, history>>

ReadPendingLink ==
    /\ ~pushing.on /\ link.on /\ link.status = "pending" /\ link.op # "none"
    /\ pushing' = [on |-> TRUE, connected |-> connected, link |-> link, event |-> event]
    /\ UNCHANGED <<event, task, asks, approved, connected, link, copy, history>>

\* toExternalPayload marks a proposal; any other status goes out as a plain date.
Payload(e) == [at |-> e.at, marked |-> e.status = "proposed"]
Delivered(p) == IF p.link.op = "delete" THEN NoCopy ELSE Payload(p.event)

HoldLink ==
    /\ pushing.on /\ (~pushing.connected \/ ~approved)
    /\ link' = [link EXCEPT !.status = "held"]
    /\ pushing' = NoPush
    /\ UNCHANGED <<event, task, asks, approved, connected, copy, history>>

MayPush == pushing.on /\ pushing.connected /\ approved
Attempts == pushing.link.attempts + 1

PushSucceeds ==
    /\ MayPush
    /\ copy' = Delivered(pushing)
    /\ link' = [link EXCEPT !.status = "synced", !.op = "none", !.known = TRUE, !.attempts = Attempts]
    /\ pushing' = NoPush
    /\ UNCHANGED <<event, task, asks, approved, connected, history>>

\* afterPush.
PushFails ==
    /\ MayPush
    /\ link' = [link EXCEPT !.status = IF Attempts >= MaxAttempts THEN "failed" ELSE "pending",
                            !.attempts = Attempts]
    /\ pushing' = NoPush
    /\ UNCHANGED <<event, task, asks, approved, connected, copy, history>>

\* The worker stops after the provider took the push and before the commit.
CrashAfterPush ==
    /\ MayPush
    /\ copy' = Delivered(pushing)
    /\ pushing' = NoPush
    /\ UNCHANGED <<event, task, asks, approved, connected, link, history>>

Next ==
    \/ \E day \in Days : CreateEvent(day) \/ Propose(day)
    \/ RunCalculation
    \/ \E u \in Staff : ReadToConfirm(u) \/ ConfirmEvent(u) \/ MoveEvent(u) \/ ReadToCancel(u) \/ CancelEvent(u)
    \/ \E u \in Staff, day \in Days : ReadToMove(u, day) \/ ReadToRedate(u, day)
    \/ \E u \in Staff : RedateTask(u)
    \/ UpdateEventDetails \/ CompleteTask
    \/ ConnectCalendar \/ DisconnectCalendar
    \/ ReadPendingLink \/ HoldLink \/ PushSucceeds \/ PushFails \/ CrashAfterPush

Spec == Init /\ [][Next]_vars

-----------------------------------------------------------------------------
TypeOK ==
    /\ event.status \in Statuses \cup {"none"} /\ event.at \in Days \cup {0}
    /\ task.open \in BOOLEAN /\ task.due \in Days \cup {0}
    /\ link.op \in {"none", "create", "update", "delete"}
    /\ link.status \in {"pending", "synced", "held", "failed"} /\ link.attempts \in 0..MaxAttempts
    /\ copy.at \in Days \cup {0} /\ vouched \in Days \cup {0} /\ seen \in Days \cup {0}
    /\ overtaken \in BOOLEAN /\ loose \in BOOLEAN

\* However lawyers and staff move, confirm, cancel and re-date over one another: a
\* confirmed deadline is on the day a lawyer put their name to; unless it was moved
\* while they confirmed it, that is the day they had read or chosen; and its
\* reminder is not later than the last such day, unless somebody re-dated it while
\* the deadline was not confirmed, or was moved or confirmed over the re-dating
\* (planReschedule, confirmEvent, rescheduleEvent's task, checkRedate).
ReminderNeverSlips ==
    /\ event.status = "confirmed" => vouched = event.at
    /\ event.status = "confirmed" /\ ~overtaken => seen = event.at
    /\ task.open /\ ~loose => task.due <= vouched

\* What the code says of the copy: the outbound payload is "title, time,
\* place, a "proposed" marker" (sync.ts:16, c91): a date shown without the
\* marker is one a lawyer has stood behind.
PlainDatesAreConfirmed == copy # NoCopy /\ ~copy.marked => vouched # 0
=============================================================================
