---------------------------- MODULE ChaseLadder ----------------------------
(***************************************************************************)
(* The chase of one client-owned item (src/src/engines/calendar-alerts/    *)
(* ladder and overdue): an item that lapses gets a ladder of reminders,    *)
(* after which the lawyer decides the next step.                           *)
(*                                                                         *)
(* The tick claims a due ladder FOR UPDATE SKIP LOCKED and reads the item  *)
(* without a lock; lawyers read the ladder without a lock, check its       *)
(* status and write it by its id; a reply and a request for help are       *)
(* conditional updates.                                                    *)
(***************************************************************************)
EXTENDS Naturals, Sequences

CONSTANTS
    Lawyers,      \* staff requests handled at a time
    Reminders,    \* reminders before the lawyer decides
    MaxDecisions, \* bound: decision tasks of the ladder
    MaxExtensions \* bound: re-dates and extensions of the item

ChaseAssumption == Reminders \in Nat \ {0} /\ MaxDecisions \in Nat /\ MaxExtensions \in Nat

VARIABLES
    item,      \* the client's task: see ItemType
    ladder,    \* its ladder: see LadderType
    decisions, \* whether each decision task is open, in order
    sent,      \* the reminders in the outbox, by their dedupe key
    scan,      \* what the tick has claimed: see Idle
    lawyer     \* per request, the operation and the ladder it read

vars == <<item, ladder, decisions, sent, scan, lawyer>>

ItemType == [status : {"open", "completed", "cancelled"}, lapsed : BOOLEAN, extended : 0..MaxExtensions]

\* step: the next step, 0 to Reminders; reminders: those audited as sent;
\* task: the decision task, 0 for none.
Live == {"active", "paused", "awaiting_lawyer"}
LadderType == [status : Live \cup {"none", "completed", "stopped"}, step : 0..(Reminders + 1),
               due : BOOLEAN, reminders : 0..Reminders, task : 0..MaxDecisions]
NoLadder == [status |-> "none", step |-> 0, due |-> FALSE, reminders |-> 0, task |-> 0]
Idle == [on |-> FALSE, item |-> "open"]
NoRead == [op |-> "none", task |-> 0]

Init ==
    /\ item = [status |-> "open", lapsed |-> FALSE, extended |-> 0]
    /\ ladder = NoLadder /\ decisions = <<>> /\ sent = {}
    /\ scan = Idle /\ lawyer = [p \in Lawyers |-> NoRead]

Claimed == scan.on

-----------------------------------------------------------------------------
(* The item.                                                               *)

Lapse ==
    /\ item.status = "open" /\ ~item.lapsed
    /\ item' = [item EXCEPT !.lapsed = TRUE]
    /\ UNCHANGED <<ladder, decisions, sent, scan, lawyer>>

\* The client finishes the task in the portal: the ladder finds out at its next step.
CompleteTask ==
    /\ item.status = "open"
    /\ item' = [item EXCEPT !.status = "completed"]
    /\ UNCHANGED <<ladder, decisions, sent, scan, lawyer>>

\* onClientReply: the request completes and endLadder ends a live ladder.
OnClientReply ==
    /\ item.status = "open" /\ ~Claimed
    /\ item' = [item EXCEPT !.status = "completed"]
    /\ ladder' = IF ladder.status \in Live THEN [ladder EXCEPT !.status = "completed", !.due = FALSE]
                 ELSE ladder
    /\ UNCHANGED <<decisions, sent, scan, lawyer>>

\* redateTask moves the due time; the ladder is not told.
RedateTask ==
    /\ item.status = "open" /\ item.extended < MaxExtensions
    /\ item' = [item EXCEPT !.lapsed = FALSE, !.extended = @ + 1]
    /\ UNCHANGED <<ladder, decisions, sent, scan, lawyer>>

-----------------------------------------------------------------------------
(* The tick: the overdue scan and the due ladder steps.                    *)

\* runOverdueScan, client_lapsed: one ladder per task for ever (unique key).
StartLadderForTask ==
    /\ item.status = "open" /\ item.lapsed /\ ladder.status = "none"
    /\ ladder' = [NoLadder EXCEPT !.status = "active"]
    /\ UNCHANGED <<item, decisions, sent, scan, lawyer>>

\* The business hours to the next step have passed.
StepComesDue ==
    /\ ladder.status = "active" /\ ~ladder.due
    /\ ladder' = [ladder EXCEPT !.due = TRUE]
    /\ UNCHANGED <<item, decisions, sent, scan, lawyer>>

ClaimDue ==
    /\ ~scan.on
    /\ ladder.status = "active" /\ ladder.due
    /\ scan' = [on |-> TRUE, item |-> item.status]
    /\ UNCHANGED <<item, ladder, decisions, sent, lawyer>>

EndStep(l, d, s) ==
    /\ ladder' = l /\ decisions' = d /\ sent' = s
    /\ scan' = Idle
    /\ UNCHANGED <<item, lawyer>>

\* The item is closed, or the steps have run out.
FinishLadder ==
    /\ scan.on
    /\ scan.item # "open" \/ ladder.step > Reminders
    /\ EndStep([ladder EXCEPT !.status = "completed", !.due = FALSE], decisions, sent)

\* Seeded bug: a reminder leaves next_step where it was.
SendReminderAgain ==
    /\ scan.on /\ scan.item = "open" /\ ladder.step < Reminders
    /\ EndStep([ladder EXCEPT !.due = FALSE], decisions, sent \cup {ladder.step})

\* The outbox keeps one row per ladder and step: enqueueing it again does nothing.
SendReminder ==
    /\ scan.on /\ scan.item = "open" /\ ladder.step < Reminders
    /\ EndStep([ladder EXCEPT !.status = "active", !.step = @ + 1, !.due = FALSE, !.reminders = @ + 1],
               decisions, sent \cup {ladder.step})

AskTheLawyer ==
    /\ scan.on /\ scan.item = "open" /\ ladder.step = Reminders
    /\ Len(decisions) < MaxDecisions
    /\ EndStep([ladder EXCEPT !.status = "awaiting_lawyer", !.step = @ + 1, !.due = FALSE,
                              !.task = Len(decisions) + 1],
               Append(decisions, TRUE), sent)

ScanFails ==
    /\ scan.on
    /\ EndStep(ladder, decisions, sent)

-----------------------------------------------------------------------------
(* The lawyers and the client's request for help.                          *)

ReadLadder(p, op, statuses) ==
    /\ lawyer[p] = NoRead
    /\ ladder.status \in statuses
    /\ lawyer' = [lawyer EXCEPT ![p] = [op |-> op, task |-> ladder.task]]
    /\ UNCHANGED <<item, ladder, decisions, sent, scan>>

Write(p, op, l) ==
    /\ lawyer[p].op = op
    /\ ~Claimed
    /\ ladder' = l
    /\ lawyer' = [lawyer EXCEPT ![p] = NoRead]
    /\ UNCHANGED <<sent, scan>>

PauseLadder(p) ==
    /\ Write(p, "pause", [ladder EXCEPT !.status = "paused"])
    /\ UNCHANGED <<item, decisions>>

\* The next step is due one gap from now; next_step is not touched.
ResumeLadder(p) ==
    /\ Write(p, "resume", [ladder EXCEPT !.status = IF ladder.step <= Reminders THEN "active" ELSE "completed",
                                         !.due = FALSE])
    /\ UNCHANGED <<item, decisions>>

PauseForHelpRequest ==
    /\ ladder.status = "active" /\ ~Claimed
    /\ ladder' = [ladder EXCEPT !.status = "paused"]
    /\ UNCHANGED <<item, decisions, sent, scan, lawyer>>

\* The decision task that was read is completed if it is still open.
Decided(p) == [d \in DOMAIN decisions |-> decisions[d] /\ d # lawyer[p].task]

ExtendWindow(p) ==
    /\ item.status = "open" /\ item.extended < MaxExtensions
    /\ item' = [item EXCEPT !.lapsed = FALSE, !.extended = @ + 1]
    /\ Write(p, "decide", [ladder EXCEPT !.status = "active", !.step = 0, !.reminders = 0, !.due = FALSE])
    /\ decisions' = Decided(p)

\* No reply needed, or closed with a note.
CloseItem(p) ==
    /\ item' = IF item.status = "open" THEN [item EXCEPT !.status = "cancelled"] ELSE item
    /\ Write(p, "decide", [ladder EXCEPT !.status = "completed", !.due = FALSE])
    /\ decisions' = Decided(p)

\* A personal message or a phone call: automation stops, the item stays open.
StopLadder(p) ==
    /\ Write(p, "decide", [ladder EXCEPT !.status = "stopped", !.due = FALSE])
    /\ decisions' = Decided(p)
    /\ UNCHANGED item

RequestFails(p) ==
    /\ lawyer[p] # NoRead
    /\ lawyer' = [lawyer EXCEPT ![p] = NoRead]
    /\ UNCHANGED <<item, ladder, decisions, sent, scan>>

-----------------------------------------------------------------------------
Next ==
    \/ Lapse \/ CompleteTask \/ OnClientReply \/ RedateTask
    \/ StartLadderForTask \/ StepComesDue \/ ClaimDue
    \/ FinishLadder \/ SendReminder \/ AskTheLawyer \/ ScanFails
    \/ PauseForHelpRequest
    \/ \E p \in Lawyers :
          \/ ReadLadder(p, "pause", {"active"}) \/ PauseLadder(p)
          \/ ReadLadder(p, "resume", {"paused"}) \/ ResumeLadder(p)
          \/ ReadLadder(p, "decide", Live) \/ ExtendWindow(p) \/ CloseItem(p) \/ StopLadder(p)
          \/ RequestFails(p)

Spec == Init /\ [][Next]_vars

\* Time passes, ticks go on, a ladder free again and again is claimed, and a
\* claimed one is worked off again and again.
Fairness ==
    /\ WF_vars(StartLadderForTask) /\ WF_vars(StepComesDue) /\ SF_vars(ClaimDue)
    /\ SF_vars((FinishLadder \/ SendReminder \/ AskTheLawyer))
    /\ WF_vars(ScanFails)
FairSpec == Spec /\ Fairness

-----------------------------------------------------------------------------
(* Properties.                                                             *)

TypeOK ==
    /\ item \in ItemType /\ ladder \in LadderType
    /\ decisions \in Seq(BOOLEAN) /\ sent \subseteq 0..(Reminders - 1)
    /\ scan.item \in {"open", "completed", "cancelled"}
    /\ \A p \in Lawyers : lawyer[p].task \in 0..MaxDecisions

\* A tick that has begun a step does not send, or take up again, what a pause,
\* a reply, a request for help or a decision ended meanwhile.
StepsOnlyWhileActive ==
    [][scan.on /\ ~scan'.on => (ladder.status = "active" \/ UNCHANGED <<ladder, decisions, sent>>)]_vars

\* An item that stays open and lapsed comes before the lawyer, unless somebody
\* pauses or ends the chase: reminders never go on for ever or break off.
ChaseComesToALawyer ==
    [](item.status = "open" /\ item.lapsed =>
       <>(~(item.status = "open" /\ item.lapsed) \/ ladder.status \notin {"none", "active"}))

\* c42, "the client is reminded": every reminder the audit trail calls sent
\* is in the outbox, also after the lawyer extended the window.
RemindersReachTheClient ==
    [][ladder'.reminders > ladder.reminders => sent' # sent]_vars
=============================================================================
