---------------------------- MODULE OverdueTasks ----------------------------
(***************************************************************************)
(* A firm task from the time it is due: the notice that it is due soon,    *)
(* the overdue flag and where it climbs to, and what re-dating, handing    *)
(* over and closing the task do to them                                    *)
(* (src/src/engines/calendar-alerts/overdue/plan.ts, service.ts;           *)
(* src/src/core/tasks.ts).                                                 *)
(*                                                                         *)
(* The scan runs on every tick of the worker, in one transaction that      *)
(* reads the task, its flag and its calendar entry without a lock and      *)
(* writes later; a lost write rolls the scan back until the next tick.     *)
(***************************************************************************)
EXTENDS Integers

CONSTANTS
    Owners,     \* staff a task may be given to
    Pool,       \* the owner of a task nobody in particular has
    Left,       \* staff whose account is disabled
    Supervisor, \* the task's supervisor, else the matter's lawyer
    Admins, Managing,
    Soon, Grace,\* how long before it is due it is announced, and after it the flag climbs
    CourtDate,  \* the hour of the calendar entry a critical task is tied to
    LastHour    \* bound: the last hour of the clock

OverdueAssumption ==
    /\ Left \subseteq Owners /\ Pool \notin Owners
    /\ Admins # {} \* overdueRecipients: "Never empty while the firm has an admin"
    /\ Soon \in Nat /\ Grace \in Nat /\ LastHour \in Nat /\ CourtDate \in 0..LastHour

VARIABLES
    hour,  \* the clock
    task,  \* the tasks row
    live,  \* the calendar entry it is tied to is confirmed and not cancelled
    flag,  \* the open overdue flag; on FALSE while there is none
    noted, \* the owner was told that the tie no longer holds
    soon,  \* the due times announced as due soon
    scan   \* what the running scan read

vars == <<hour, task, live, flag, noted, soon, scan>>

NoFlag == [on |-> FALSE, level |-> 0, critical |-> FALSE, to |-> {}]
NoScan == [on |-> FALSE]

\* createTask: critical is deadline_critical, which only a task tied to a date has here.
Init ==
    /\ hour = 0
    /\ task \in [status: {"open"}, due: 0..LastHour, critical: BOOLEAN, owner: Owners \cup {Pool}]
    /\ task.critical => task.due <= CourtDate
    /\ live = task.critical
    /\ flag = NoFlag /\ noted = FALSE /\ soon = {} /\ scan = NoScan

HourPasses ==
    /\ hour < LastHour
    /\ hour' = hour + 1
    /\ UNCHANGED <<task, live, flag, noted, soon, scan>>

-----------------------------------------------------------------------------
(* What the scan plans for a task as it was read.                          *)

\* computeTaskTiming: a critical task has no grace period.
Timing(t, critical) ==
    CASE t.status # "open" -> "closed"
      [] t.status = "open" /\ hour >= t.due ->
             IF critical \/ hour - t.due >= Grace THEN "overdue_escalate" ELSE "overdue"
      [] OTHER -> IF t.due - hour <= Soon THEN "due_soon" ELSE "not_due"

Critical(t, tied) == t.critical /\ tied

PlanOverdue(t, tied, f, announced) ==
    LET critical == Critical(t, tied)
        timing == Timing(t, critical)
    IN  CASE timing \in {"closed", "not_due"} -> "none"
          [] timing = "due_soon" -> IF announced THEN "none" ELSE "due_soon"
          [] timing \in {"overdue", "overdue_escalate"} /\ critical ->
                 CASE ~f.on -> "flag_l3" [] f.on /\ f.critical -> "none" [] OTHER -> "escalate"
          [] OTHER ->
                 CASE ~f.on -> "flag_l1"
                   [] f.on /\ timing = "overdue_escalate" /\ f.level = 0 -> "escalate"
                   [] OTHER -> "none"

\* overdueRecipients.
Recipients(level, owner) ==
    LET pooled == owner = Pool \/ owner \in Left
    IN  CASE level = 1 -> IF pooled THEN Admins ELSE {owner}
          [] level = 2 -> IF pooled THEN Managing \cup Admins ELSE {Supervisor} \cup Admins
          [] OTHER -> (IF pooled THEN {} ELSE {owner}) \cup {Supervisor} \cup Admins

-----------------------------------------------------------------------------
(* The scan (runOverdueScan).                                              *)

\* A scan that finds nothing to do changes nothing.
ScanReads ==
    LET plan == PlanOverdue(task, live, flag, task.due \in soon)
    IN  /\ ~scan.on /\ plan # "none"
        /\ scan' = [on |-> TRUE, plan |-> plan, task |-> task, live |-> live]
        /\ UNCHANGED <<hour, task, live, flag, noted, soon>>

\* noteLinkDropped, before whatever else is done with the task.
NoteLinkDropped == noted' = (noted \/ (scan.task.critical /\ ~scan.live))

AnnounceDueSoon ==
    /\ scan.on /\ scan.plan = "due_soon"
    /\ soon' = soon \cup {scan.task.due}
    /\ NoteLinkDropped
    /\ scan' = NoScan
    /\ UNCHANGED <<hour, task, live, flag>>

\* raiseAlert finds a flag opened meanwhile and leaves it as it is.
RaiseFlag ==
    /\ scan.on /\ scan.plan \in {"flag_l1", "flag_l3"}
    /\ LET level == IF scan.plan = "flag_l3" THEN 3 ELSE 1
       IN  flag' = IF flag.on THEN flag
                   ELSE [on |-> TRUE, level |-> 0, critical |-> level = 3,
                         to |-> Recipients(level, scan.task.owner)]
    /\ NoteLinkDropped
    /\ scan' = NoScan
    /\ UNCHANGED <<hour, task, live, soon>>

\* escalateFlag finds the flag resolved meanwhile: the whole scan is rolled back.
EscalateFlag ==
    /\ scan.on /\ scan.plan = "escalate"
    /\ LET critical == Critical(scan.task, scan.live)
       IN  IF flag.on
           THEN /\ flag' = [flag EXCEPT !.level = @ + 1, !.critical = @ \/ critical,
                                !.to = @ \cup Recipients(IF critical THEN 3 ELSE 2, scan.task.owner)]
                /\ NoteLinkDropped
           ELSE UNCHANGED <<flag, noted>>
    /\ scan' = NoScan
    /\ UNCHANGED <<hour, task, live, soon>>

-----------------------------------------------------------------------------
(* What people do with the task.  Its open flags are resolved with it; one *)
(* that a scan has not committed yet is not seen.                          *)

\* completeTask, cancelTask.
CloseTask(status) ==
    /\ task.status = "open"
    /\ task' = [task EXCEPT !.status = status]
    /\ flag' = NoFlag
    /\ UNCHANGED <<hour, live, noted, soon, scan>>

\* redateTask and its checkRedate: a task tied to a live date may not be moved past it.
RedateTask(due) ==
    /\ task.status = "open" /\ due # task.due
    /\ Critical(task, live) => due <= CourtDate
    /\ task' = [task EXCEPT !.due = due]
    /\ flag' = NoFlag
    /\ UNCHANGED <<hour, live, noted, soon, scan>>

ReassignTask(owner) ==
    /\ task.status = "open" /\ owner # task.owner
    /\ task' = [task EXCEPT !.owner = owner]
    /\ flag' = NoFlag
    /\ UNCHANGED <<hour, live, noted, soon, scan>>

\* The calendar entry is cancelled or loses its confirmation, or gets it back.
EntryChanges ==
    /\ task.critical
    /\ live' = ~live
    /\ UNCHANGED <<hour, task, flag, noted, soon, scan>>

Next ==
    \/ HourPasses
    \/ ScanReads \/ AnnounceDueSoon \/ RaiseFlag \/ EscalateFlag
    \/ \E status \in {"done", "cancelled"} : CloseTask(status)
    \/ \E due \in 0..LastHour : RedateTask(due)
    \/ \E owner \in Owners \cup {Pool} : ReassignTask(owner)
    \/ EntryChanges

\* The worker scans on every tick (src/src/worker/tick.ts); a scan that reads ends.
Fairness == WF_vars(ScanReads) /\ WF_vars(AnnounceDueSoon) /\ WF_vars(RaiseFlag) /\ WF_vars(EscalateFlag)

Spec == Init /\ [][Next]_vars /\ Fairness

-----------------------------------------------------------------------------
TypeOK ==
    /\ hour \in 0..LastHour
    /\ task.status \in {"open", "done", "cancelled"} /\ task.due \in 0..LastHour
    /\ task.owner \in Owners \cup {Pool}
    /\ flag.on \in BOOLEAN /\ flag.level \in Nat
    /\ soon \subseteq 0..LastHour

\* Past its grace, and, when a live court date hangs on it, from the hour it
\* is due, a task is before an admin: nobody can keep a lapsed task away from
\* them but by touching it again and again (runOverdueScan, escalateFlag).
BeforeAnAdmin == flag.on /\ Admins \cap flag.to # {}
Lapsed == Timing(task, Critical(task, live)) = "overdue_escalate"
Touched == task' # task \/ live' # live
LapsedTasksReachAnAdmin == <>[]Lapsed => <>[]BeforeAnAdmin \/ []<><<Touched>>_vars
=============================================================================
