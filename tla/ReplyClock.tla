----------------------------- MODULE ReplyClock -----------------------------
(***************************************************************************)
(* The reply clock of one thread of client messages (src/src/engines/      *)
(* calendar-alerts/replyClock).  A client's message starts the thread's    *)
(* clock or joins it; a reply by a person, or staff, stop it; staff re-tag *)
(* it; the tick flags an unanswered clock at its two checkpoints and       *)
(* alerts again about a safety alert nobody has acknowledged.              *)
(*                                                                         *)
(* Transactions run at READ COMMITTED.  A message, a reply and a re-tag    *)
(* lock the clock when they read it (FOR UPDATE), the tick skips a locked  *)
(* clock, and closing by hand reads without a lock.                        *)
(*                                                                         *)
(* The checkpoints count the firm's business hours (core/businessHours.ts),*)
(* which come first.                                                       *)
(***************************************************************************)
EXTENDS Integers, Sequences, FiniteSets

CONSTANTS
    Writers,   \* requests handled at a time
    Calendar,  \* the firm's business calendar: see ValidCalendar
    FlagAfter, \* per tier, hours to the internal flag
    PromiseAfter, \* per tier, hours the client was promised
    LastHour,  \* bound: hours the model runs
    MaxClocks  \* bound: clocks started

-----------------------------------------------------------------------------
(* Business hours, in whole hours.  The firm's clock shows the hour of the *)
(* world and an offset, which changes once, at the hour cal.change; a local*)
(* date is the number of its day, of cal.day hours, and one of every seven *)
(* is the first of the week.  cal.weekly has the opening hours of each day *)
(* of the week, as pairs, and cal.holidays the dates without any.          *)

Earliest(S) == CHOOSE t \in S : \A u \in S : t <= u
Latest(S) == CHOOSE t \in S : \A u \in S : u <= t

ValidCalendar(cal) ==
    /\ cal.day \in Nat \ {0} /\ {cal.before, cal.after, cal.change} \subseteq Int
    /\ DOMAIN cal.weekly = 0..6
    /\ \A w \in 0..6 : \A iv \in cal.weekly[w] : {iv[1], iv[2]} \subseteq 0..cal.day /\ iv[1] < iv[2]
    /\ \E w \in 0..6 : cal.weekly[w] # {}
    /\ IsFiniteSet(cal.holidays) /\ cal.holidays \subseteq Int

Offset(at, cal) == IF at < cal.change THEN cal.before ELSE cal.after
ToLocal(at, cal) == at + Offset(at, cal)
CivilOf(at, cal) == ToLocal(at, cal) \div cal.day

\* An hour the clock skips is the one after the gap, an hour it shows twice the first.
FromLocal(wall, cal) ==
    LET first == wall - Offset(wall, cal)
        second == wall - Offset(first, cal)
        consistent == {t \in {first, second} : ToLocal(t, cal) = wall}
    IN  IF consistent # {} THEN Earliest(consistent) ELSE Latest({first, second})

\* intervalsFor, as the hours that lie in one of the intervals.
OpenHours(day, cal) ==
    IF day \in cal.holidays THEN {}
    ELSE UNION {FromLocal(day * cal.day + iv[1], cal) .. FromLocal(day * cal.day + iv[2], cal) - 1 :
                iv \in cal.weekly[day % 7]}
Closings(day, cal) == {t + 1 : t \in OpenHours(day, cal)} \ OpenHours(day, cal)

IsBusinessTime(at, cal) == at \in OpenHours(CivilOf(at, cal), cal)

NextBusinessStart(at, cal) ==
    LET ahead(day) == {t \in OpenHours(day, cal) : t >= at}
        walk[day \in Int] == IF ahead(day) # {} THEN Earliest(ahead(day)) ELSE walk[day + 1]
    IN  walk[CivilOf(at, cal)]

AddBusinessHours(start, hours, cal) ==
    LET walk[day \in Int, cursor \in Int, left \in Nat] ==
            LET ahead == {t \in OpenHours(day, cal) : t >= cursor}
                closing == IF ahead = {} THEN cursor ELSE Latest(ahead) + 1
            IN  IF left <= Cardinality(ahead)
                THEN 1 + CHOOSE t \in ahead : Cardinality({u \in ahead : u <= t}) = left
                ELSE walk[day + 1, closing, left - Cardinality(ahead)]
    IN  IF hours = 0 THEN start ELSE walk[CivilOf(start, cal), start, hours]

BusinessHoursBetween(a, b, cal) ==
    LET from == IF a <= b THEN a ELSE b
        to == IF a <= b THEN b ELSE a
        total[day \in Int] ==
            Cardinality(OpenHours(day, cal) \cap from .. to - 1)
                + IF day = CivilOf(to, cal) THEN 0 ELSE total[day + 1]
    IN  IF a = b THEN 0 ELSE IF a < b THEN total[CivilOf(a, cal)] ELSE -total[CivilOf(b, cal)]

\* businessAnchor: business time stands where it is, any other at the last closing before it.
BusinessAnchor(at, cal) ==
    LET closed(day) == {t \in Closings(day, cal) : t <= at}
        walk[day \in Int] ==
            IF closed(day) # {} THEN [day |-> day, instant |-> Latest(closed(day))] ELSE walk[day - 1]
    IN  IF IsBusinessTime(at, cal) THEN [day |-> CivilOf(at, cal), instant |-> at] ELSE walk[CivilOf(at, cal)]

\* The same hour of the clock that many business days later, or the nearest the day has.
AddBusinessDays(start, days, cal) ==
    LET anchor == BusinessAnchor(start, cal)
        walk[day \in Int, left \in Nat] ==
            IF left = 0 THEN day
            ELSE walk[day + 1, IF OpenHours(day + 1, cal) # {} THEN left - 1 ELSE left]
        day == walk[anchor.day, days]
        target == FromLocal(ToLocal(anchor.instant, cal) + (day - anchor.day) * cal.day, cal)
        open == OpenHours(day, cal)
    IN  CASE days = 0 -> start
          [] days > 0 /\ target \in open \cup Closings(day, cal) -> target
          [] days > 0 /\ target < Earliest(open) -> Earliest(open)
          [] OTHER -> Latest({t \in Closings(day, cal) : t <= target})

\* Quiet hours of the clock, [start, end], may go over midnight.
IsQuietTime(at, quiet, cal) ==
    LET hourOfDay == ToLocal(at, cal) % cal.day
    IN  IF quiet[1] <= quiet[2] THEN hourOfDay \in quiet[1] .. quiet[2] - 1
        ELSE hourOfDay >= quiet[1] \/ hourOfDay < quiet[2]
EndOfQuietTime(at, quiet, cal) ==
    LET day == CivilOf(at, cal)
        ends == IF ToLocal(at, cal) % cal.day >= quiet[2] THEN day + 1 ELSE day
    IN  IF IsQuietTime(at, quiet, cal) THEN FromLocal(ends * cal.day + quiet[2], cal) ELSE at

\* What these promise, counted hour by hour and day by day, over a change of
\* the clock, a lunch break, holidays and a half day.
BusinessTimeIsCounted(cal, starts, counts) ==
    \A start \in starts, n \in counts :
        LET business(a, b) == {t \in a .. b - 1 : IsBusinessTime(t, cal)}
            due == AddBusinessHours(start, n, cal)
            opening == NextBusinessStart(start, cal)
            later == AddBusinessDays(start, n, cal)
            anchor == BusinessAnchor(start, cal)
        IN  /\ IsBusinessTime(due - 1, cal) /\ Cardinality(business(start, due)) = n
            /\ BusinessHoursBetween(start, start + n, cal) = Cardinality(business(start, start + n))
            /\ BusinessHoursBetween(start + n, start, cal) = -BusinessHoursBetween(start, start + n, cal)
            /\ opening >= start /\ IsBusinessTime(opening, cal) /\ business(start, opening) = {}
            /\ \E day \in anchor.day + 1 .. anchor.day + 7 * (n + 1) :
                  /\ Cardinality({d \in anchor.day + 1 .. day : OpenHours(d, cal) # {}}) = n
                  /\ later \in OpenHours(day, cal) \cup Closings(day, cal)
QuietTimeEnds(cal, starts, windows) ==
    \A start \in starts, quiet \in windows :
        LET end == EndOfQuietTime(start, quiet, cal)
        IN  {t \in start .. end : ~IsQuietTime(t, quiet, cal)} = {end}

Tiers == {"standard", "deadline"}
ReplyAssumption ==
    /\ FlagAfter \in [Tiers -> Nat] /\ PromiseAfter \in [Tiers -> Nat]
    /\ \A t \in Tiers : FlagAfter[t] <= PromiseAfter[t]
    /\ ValidCalendar(Calendar)

VARIABLES
    clocks,   \* the clocks, in the order they were started: see ClockType
    waiting,  \* a message came in that nobody has answered or closed
    hour,     \* the hour of the world
    writer,   \* the requests under way
    sweep     \* what the tick has read: see Idle

vars == <<clocks, waiting, hour, writer, sweep>>

\* The immediate alert about a message: not raised; open and unacknowledged,
\* then also escalated; acknowledged; resolved by somebody or with the task.
AlertStates == {"none", "unseen", "again", "seen", "handled", "resolved"}
OpenAlert == {"unseen", "again", "seen"}

\* flagAt, promiseAt: its checkpoints; flagged, missed: the checkpoint was met;
\* overdue: its flag is open.
DueHours == 0..LastHour \cup {LastHour + 1} \* bound: what is due later is due an hour after the last
ClockType == [tier : Tiers, start : 0..LastHour, flagAt : DueHours, promiseAt : DueHours,
              status : {"open", "replied", "closed"}, flagged : BOOLEAN, missed : BOOLEAN, overdue : BOOLEAN, urgent : AlertStates]
NoOne == [op |-> "none", clock |-> 0, locks |-> FALSE]
Idle == [on |-> FALSE, clock |-> 0, alert |-> 0]

Init ==
    /\ clocks = <<>> /\ waiting = FALSE /\ hour = 0
    /\ writer = [p \in Writers |-> NoOne] /\ sweep = Idle

IsOpen(k) == clocks[k].status = "open"
Locked(k) == sweep.clock = k \/ \E p \in Writers : writer[p].locks /\ writer[p].clock = k

\* openClock: SELECT ... WHERE status = 'open' FOR UPDATE.
TheOpenClock ==
    IF \E k \in DOMAIN clocks : IsOpen(k) THEN CHOOSE k \in DOMAIN clocks : IsOpen(k) ELSE 0

Read(p, r) ==
    /\ writer[p] = NoOne
    /\ writer' = [writer EXCEPT ![p] = r]
    /\ UNCHANGED <<clocks, waiting, hour, sweep>>

LockingRead(p, r) ==
    /\ TheOpenClock # 0 => ~Locked(TheOpenClock)
    /\ Read(p, [r EXCEPT !.clock = TheOpenClock, !.locks = (TheOpenClock # 0)])

Done(p) ==
    /\ writer' = [writer EXCEPT ![p] = NoOne]
    /\ UNCHANGED <<hour, sweep>>

\* changeTaskDue, completeTask and cancelTask resolve every open flag of the task.
FlagsResolved(c) ==
    [c EXCEPT !.overdue = FALSE, !.urgent = IF @ \in OpenAlert THEN "resolved" ELSE @]

-----------------------------------------------------------------------------
(* Messages of the client.                                                 *)

ReadForMessage(p, tier, immediate) ==
    LockingRead(p, [op |-> "message", clock |-> 0, locks |-> FALSE, tier |-> tier, immediate |-> immediate])

Alerted(c, immediate) ==
    IF immediate /\ c.urgent = "none" THEN [c EXCEPT !.urgent = "unseen"] ELSE c

DueAt(start, hours) ==
    LET due == AddBusinessHours(start, hours, Calendar)
    IN  IF due \in 0..LastHour THEN due ELSE LastHour + 1

\* planReplyClock, again from the first message when the tier changes.
Planned(c, tier) ==
    [c EXCEPT !.tier = tier, !.flagAt = DueAt(c.start, FlagAfter[tier]), !.promiseAt = DueAt(c.start, PromiseAfter[tier])]

\* A follow-up about a deadline makes a standard clock a deadline clock, from
\* its first message on.
Upgraded(c, tier) ==
    IF c.tier = "standard" /\ tier = "deadline"
    THEN FlagsResolved(Planned(c, tier)) ELSE c

JoinClock(p) ==
    /\ writer[p].op = "message" /\ writer[p].clock # 0
    /\ clocks' = [clocks EXCEPT ![writer[p].clock] =
                      Alerted(Upgraded(@, writer[p].tier), writer[p].immediate)]
    /\ waiting' = TRUE
    /\ Done(p)

\* The insert of a second open clock of the thread is refused by the unique
\* index, and the whole message with it (see RequestFails).
StartClock(p) ==
    /\ writer[p].op = "message" /\ writer[p].clock = 0
    /\ TheOpenClock = 0
    /\ Len(clocks) < MaxClocks
    /\ clocks' = Append(clocks, Alerted(Planned(
          [tier |-> "standard", start |-> hour, flagAt |-> hour, promiseAt |-> hour, status |-> "open",
           flagged |-> FALSE, missed |-> FALSE, overdue |-> FALSE, urgent |-> "none"], writer[p].tier),
          writer[p].immediate))
    /\ waiting' = TRUE
    /\ Done(p)

RequestFails(p) ==
    /\ writer[p] # NoOne
    /\ Done(p) /\ UNCHANGED <<clocks, waiting>>

-----------------------------------------------------------------------------
(* The firm: a reply, a close by hand, a re-tag, an alert seen.            *)

ReadForReply(p) == LockingRead(p, [op |-> "reply", clock |-> 0, locks |-> FALSE])

StopClock(c, status) == FlagsResolved([c EXCEPT !.status = status])

Reply(p) ==
    /\ writer[p].op = "reply"
    /\ clocks' = IF writer[p].clock = 0 THEN clocks
                 ELSE [clocks EXCEPT ![writer[p].clock] = StopClock(@, "replied")]
    /\ waiting' = FALSE
    /\ Done(p)

ReadForClose(p, k) ==
    /\ IsOpen(k)
    /\ Read(p, [op |-> "close", clock |-> k, locks |-> FALSE])

\* The clock was open when it was read; the write goes by its id.
CloseClock(p) ==
    /\ writer[p].op = "close"
    /\ ~Locked(writer[p].clock)
    /\ clocks' = [clocks EXCEPT ![writer[p].clock] = StopClock(@, "closed")]
    /\ waiting' = (waiting /\ TheOpenClock \notin {0, writer[p].clock})
    /\ Done(p)

ReadForRetag(p, tier) ==
    /\ TheOpenClock # 0 /\ clocks[TheOpenClock].tier # tier
    /\ LockingRead(p, [op |-> "retag", clock |-> 0, locks |-> FALSE, tier |-> tier])

ChangeClockTier(p) ==
    /\ writer[p].op = "retag"
    /\ clocks' = [clocks EXCEPT ![writer[p].clock] =
                      FlagsResolved(Planned(@, writer[p].tier))]
    /\ UNCHANGED waiting
    /\ Done(p)

\* Somebody acknowledges the safety alert, or resolves it by hand.
SeeAlert(k, state) ==
    /\ clocks[k].urgent \in {"unseen", "again"}
    /\ clocks' = [clocks EXCEPT ![k].urgent = state]
    /\ UNCHANGED <<waiting, hour, writer, sweep>>

-----------------------------------------------------------------------------
(* The tick: processReplyClocks.                                           *)

FlagDue(c) == ~c.flagged /\ hour >= c.flagAt
PromiseDue(c) == ~c.missed /\ hour >= c.promiseAt
\* Seeded bug: the sweep claims the clocks whose flag is due.
CheckpointDueFlagOnly(k) == IsOpen(k) /\ FlagDue(clocks[k])

CheckpointDue(k) == IsOpen(k) /\ (FlagDue(clocks[k]) \/ PromiseDue(clocks[k]))

\* The re-alert looks at open clocks and open, unacknowledged alerts of level
\* 0, without locking either.
Unacknowledged(k) == IsOpen(k) /\ clocks[k].urgent = "unseen"

TakeDue(k) == CheckpointDue(k) /\ ~Locked(k)

Sweep ==
    /\ ~sweep.on
    /\ LET claimed == {k \in DOMAIN clocks : TakeDue(k)}
           alerts == {k \in DOMAIN clocks : Unacknowledged(k)}
       IN /\ claimed \cup alerts # {}
          /\ sweep' = [on |-> TRUE,
                       clock |-> IF claimed = {} THEN 0 ELSE CHOOSE k \in claimed : TRUE,
                       alert |-> IF alerts = {} THEN 0 ELSE CHOOSE k \in alerts : TRUE]
    /\ UNCHANGED <<clocks, waiting, hour, writer>>

\* Both checkpoints of a clock can come due at once; a missed promise
\* escalates the open flag or raises one.
Checkpoints(c) ==
    [c EXCEPT !.flagged = @ \/ FlagDue(c), !.missed = PromiseDue(c) \/ @, !.overdue = TRUE]

\* escalateFlag throws for a flag resolved meanwhile and undoes the checkpoints.
ProcessReplyClocks ==
    /\ sweep.on
    /\ sweep.alert # 0 => clocks[sweep.alert].urgent \in OpenAlert
    /\ clocks' = [k \in DOMAIN clocks |->
          LET c == IF k = sweep.clock THEN Checkpoints(clocks[k]) ELSE clocks[k] IN
          IF k = sweep.alert /\ c.urgent = "unseen" THEN [c EXCEPT !.urgent = "again"] ELSE c]
    /\ sweep' = Idle
    /\ UNCHANGED <<waiting, hour, writer>>

SweepFails ==
    /\ sweep.on
    /\ sweep' = Idle
    /\ UNCHANGED <<clocks, waiting, hour, writer>>

HourPasses ==
    /\ hour < LastHour
    /\ hour' = hour + 1
    /\ UNCHANGED <<clocks, waiting, writer, sweep>>

-----------------------------------------------------------------------------
Next ==
    \/ \E p \in Writers :
          \/ \E tier \in Tiers, immediate \in BOOLEAN : ReadForMessage(p, tier, immediate)
          \/ JoinClock(p) \/ StartClock(p) \/ RequestFails(p)
          \/ ReadForReply(p) \/ Reply(p)
          \/ \E k \in DOMAIN clocks : ReadForClose(p, k)
          \/ CloseClock(p)
          \/ \E tier \in Tiers : ReadForRetag(p, tier)
          \/ ChangeClockTier(p)
    \/ \E k \in DOMAIN clocks, state \in {"seen", "handled"} : SeeAlert(k, state)
    \/ Sweep \/ ProcessReplyClocks \/ SweepFails
    \/ HourPasses

Spec == Init /\ [][Next]_vars

\* A clock that is free again and again is claimed and what was claimed is
\* worked off: ticks come every minute, and fail for no reason of this code for good.
Fairness ==
    /\ SF_vars(ProcessReplyClocks)
    /\ \A k \in 1..MaxClocks : SF_vars(k \in DOMAIN clocks /\ TakeDue(k) /\ Sweep)
    /\ WF_vars(SweepFails)
    /\ \A p \in Writers : WF_vars(RequestFails(p))
FairSpec == Spec /\ Fairness

-----------------------------------------------------------------------------
(* Properties.                                                             *)

TypeOK ==
    /\ clocks \in Seq(ClockType)
    /\ waiting \in BOOLEAN /\ hour \in 0..LastHour
    /\ \A p \in Writers : writer[p].clock \in 0..Len(clocks)
    /\ sweep.clock \in 0..Len(clocks) /\ sweep.alert \in 0..Len(clocks)

\* A message nobody answered or closed has an open clock, also when it came
\* in while a reply, a close or another first message was being handled.
UnansweredIsOnAClock == waiting => TheOpenClock # 0

\* Nothing is flagged about a clock that was stopped: no flag outlives the
\* reply and none is raised after it.
AnsweredClockIsQuiet ==
    \A k \in DOMAIN clocks :
        ~IsOpen(k) => ~clocks[k].overdue /\ clocks[k].urgent \notin OpenAlert

\* The firm has had its business hours before it is told: also when a clock is
\* re-tagged and its checkpoints are planned again from the first message.
FirmHadItsHours ==
    \A k \in DOMAIN clocks :
        LET passed == BusinessHoursBetween(clocks[k].start, hour, Calendar)
        IN  /\ clocks[k].flagged => \E t \in Tiers : passed >= FlagAfter[t]
            /\ clocks[k].missed => \E t \in Tiers : passed >= PromiseAfter[t]

\* A promise to the client that ran out is told to the firm, unless somebody
\* stops the clock or re-tags it to one with more time.
MissedPromiseIsTold ==
    \A k \in 1..MaxClocks : []<>(~(k \in DOMAIN clocks /\ IsOpen(k) /\ PromiseDue(clocks[k])))

\* "The lawyer has not opened the safety-net alert within 1 real hour:
\* re-alert to firm admin": until somebody has seen a safety alert, or the
\* clock is stopped, it stays open.
UnseenAlertStaysOpen ==
    [][\A k \in DOMAIN clocks :
          (clocks[k].urgent \in {"unseen", "again"} /\ clocks'[k].status = "open")
              => clocks'[k].urgent # "resolved"]_vars
=============================================================================
