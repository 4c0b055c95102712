------------------------------ MODULE MCClocks ------------------------------
(***************************************************************************)
(* One instance of each component that watches whether people act in time: *)
(* the first response to an inquiry, the reply to a client, the chasing of *)
(* a client's item, overdue tasks, stalled work and court email.  A        *)
(* behaviour is one component's, chosen in the initial state: they share   *)
(* no state in these models.                                               *)
(***************************************************************************)
EXTENDS Integers, Sequences

CONSTANTS p1, p2, w1, owner

VARIABLES
    focus, \* the component this behaviour is about
    answer, tasks, checks, elapsed, flagged, told, lead, check, contacts,
    clocks, waiting, hour, writer, sweep,
    item, ladder, decisions, sent, scan, lawyer,
    dayHour, task, live, flag, noted, soon, taskScan,
    stallHour, work, watches, open, stallSweep, checkBacks,
    named, notice, alerts, late, suggestion, events, asks

speedVars == <<answer, tasks, checks, elapsed, flagged, told, lead, check, contacts>>
replyVars == <<clocks, waiting, hour, writer, sweep>>
chaseVars == <<item, ladder, decisions, sent, scan, lawyer>>
overdueVars == <<dayHour, task, live, flag, noted, soon, taskScan>>
stallVars == <<stallHour, work, watches, open, stallSweep, checkBacks>>
courtVars == <<named, notice, alerts, late, suggestion, events, asks>>

\* A firm that names its managers, and one that names only its owner.
IntakeFirms == {[managers |-> {"manager"}, owners |-> {}, admins |-> {"admin"}],
                [managers |-> {}, owners |-> {owner}, admins |-> {"admin"}]}
STL == INSTANCE SpeedToLead WITH Callers <- {p1, p2}, Tickers <- {w1}, Firms <- IntakeFirms,
           Closings <- {"contacted", "attempted"}, MaxTasks <- 2
ReplyTiers == {"deadline", "standard"}
\* Days of four hours, at work for two of them with one between, one day a week
\* off and one a half day; the clock is set on or back by an hour.
FirmHours == [w \in 0..6 |-> CASE w = 5 -> {} [] w = 4 -> {<<0, 1>>} [] OTHER -> {<<0, 1>>, <<2, 3>>, <<2, 4>>}]
FirmCalendar(before, after, change) ==
    [day |-> 4, before |-> before, after |-> after, change |-> change, weekly |-> FirmHours, holidays |-> {2}]
RC == INSTANCE ReplyClock WITH Writers <- {p1, p2}, LastHour <- 3, MaxClocks <- 1,
          Calendar <- FirmCalendar(0, 0, 0),
          FlagAfter <- [t \in ReplyTiers |-> 1],
          PromiseAfter <- [t \in ReplyTiers |-> IF t = "deadline" THEN 1 ELSE 2]
CL == INSTANCE ChaseLadder WITH Lawyers <- {p1, p2}, Reminders <- 2, MaxDecisions <- 2,
          MaxExtensions <- 1
\* A person whose account is disabled, a pool, and a court date an hour before the end.
OVERDUE == INSTANCE OverdueTasks WITH Owners <- {"ann", "gone"}, Left <- {"gone"}, Pool <- "pool",
               Supervisor <- "supervisor", Admins <- {"admin"}, Managing <- {"managing"},
               Soon <- 1, Grace <- 1, CourtDate <- 1, LastHour <- 2,
               hour <- dayHour, scan <- taskScan
STALL == INSTANCE StallWatch WITH Stages <- {"early", "late"}, People <- {"ann"}, Expected <- 1,
             MaxDays <- 2, MaxEpisodes <- 2, LastHour <- 2,
             hour <- stallHour, item <- work, sweep <- stallSweep, asks <- checkBacks
\* A message no matter is named in, one with a matter's cause number, one with
\* a date in it, and one whose sender is not who it says.
PlainMail == [source |-> "mailbox", trusted |-> TRUE, dmarc |-> TRUE, dkimAligned |-> FALSE, spf |-> TRUE,
              lookalike |-> FALSE, causes |-> {}, names |-> {}, date |-> FALSE]
COURT == INSTANCE CourtNotice WITH Staff <- {"ann", "bob"}, Lawyers <- {}, Matters <- {"m1"},
             Mails <- {PlainMail, [PlainMail EXCEPT !.causes = {"m1"}], [PlainMail EXCEPT !.spf = FALSE]}

ASSUME OVERDUE!OverdueAssumption
ASSUME STALL!StallAssumption
ASSUME COURT!MailAssumption
ASSUME RC!ReplyAssumption
ASSUME \A clock \in {<<0, 0, 0>>, <<-1, 0, 5>>, <<-1, 0, 6>>, <<-1, 0, 7>>, <<0, -1, 8>>, <<0, -1, 6>>} :
          LET cal == FirmCalendar(clock[1], clock[2], clock[3])
          IN  RC!BusinessTimeIsCounted(cal, 0..24, 1..4) /\ RC!QuietTimeEnds(cal, 0..24, {<<3, 1>>, <<1, 2>>})
ASSUME CL!ChaseAssumption

Init ==
    /\ focus \in {"speedToLead", "reply", "chase", "overdue", "stall", "court"}
    /\ STL!Init /\ RC!Init /\ CL!Init /\ OVERDUE!Init /\ STALL!Init /\ COURT!Init
    \* One state of the components a behaviour is not about is enough.
    /\ focus # "overdue" => task = [status |-> "open", due |-> 0, critical |-> FALSE, owner |-> "ann"]
    /\ focus # "speedToLead" => contacts.managers # {}
    /\ focus # "stall" => work.stage = "early" /\ ~work.elsewhere
    /\ named = [lawyers |-> {"m1"}, backup |-> TRUE]

Next ==
    \/ focus = "speedToLead" /\ STL!Next /\ UNCHANGED <<focus, replyVars, chaseVars, overdueVars, stallVars, courtVars>>
    \/ focus = "reply" /\ RC!Next /\ UNCHANGED <<focus, speedVars, chaseVars, overdueVars, stallVars, courtVars>>
    \/ focus = "chase" /\ CL!Next /\ UNCHANGED <<focus, speedVars, replyVars, overdueVars, stallVars, courtVars>>
    \/ focus = "overdue" /\ OVERDUE!Next /\ UNCHANGED <<focus, speedVars, replyVars, chaseVars, stallVars, courtVars>>
    \/ focus = "stall" /\ STALL!Next /\ UNCHANGED <<focus, speedVars, replyVars, chaseVars, overdueVars, courtVars>>
    \/ focus = "court" /\ COURT!Next /\ UNCHANGED <<focus, speedVars, replyVars, chaseVars, overdueVars, stallVars>>

vars == <<focus, speedVars, replyVars, chaseVars, overdueVars, stallVars, courtVars>>
\* The Fairness of each component, under its focus: TLC need not ask whether a
\* step of the others is enabled.
SpeedToLeadFairness ==
    /\ WF_speedVars(focus = "speedToLead" /\ STL!StagePasses)
    /\ WF_speedVars(focus = "speedToLead" /\ \E c \in checks : STL!TakeCheck(w1, c))
    /\ WF_speedVars(focus = "speedToLead" /\ STL!HandleSpeedToLeadCheck(w1))
    /\ <>[][focus = "speedToLead" => ~STL!CheckFails(w1)]_speedVars
ReplyFairness ==
    /\ SF_replyVars(focus = "reply" /\ RC!ProcessReplyClocks)
    /\ SF_replyVars(focus = "reply" /\ 1 \in DOMAIN clocks /\ RC!TakeDue(1) /\ RC!Sweep)
    /\ WF_replyVars(focus = "reply" /\ RC!SweepFails)
    /\ \A p \in {p1, p2} : WF_replyVars(focus = "reply" /\ RC!RequestFails(p))
ChaseFairness ==
    /\ WF_chaseVars(focus = "chase" /\ CL!StartLadderForTask)
    /\ WF_chaseVars(focus = "chase" /\ CL!StepComesDue)
    /\ SF_chaseVars(focus = "chase" /\ CL!ClaimDue)
    /\ SF_chaseVars(focus = "chase" /\ (CL!FinishLadder \/ CL!SendReminder \/ CL!AskTheLawyer))
    /\ WF_chaseVars(focus = "chase" /\ CL!ScanFails)
OverdueFairness ==
    /\ WF_overdueVars(focus = "overdue" /\ OVERDUE!ScanReads)
    /\ WF_overdueVars(focus = "overdue" /\ OVERDUE!AnnounceDueSoon)
    /\ WF_overdueVars(focus = "overdue" /\ OVERDUE!RaiseFlag)
    /\ WF_overdueVars(focus = "overdue" /\ OVERDUE!EscalateFlag)
StallFairness ==
    /\ WF_stallVars(focus = "stall" /\ STALL!HourPasses)
    /\ WF_stallVars(focus = "stall" /\ STALL!SweepReads)
    /\ WF_stallVars(focus = "stall" /\ STALL!ClearWatch)
    /\ WF_stallVars(focus = "stall" /\ STALL!FlagItem)
    /\ WF_stallVars(focus = "stall" /\ STALL!ReflagAfterCheckBack)
    /\ WF_stallVars(focus = "stall" /\ STALL!SetCheckBack("ann"))
CourtFairness ==
    /\ WF_courtVars(focus = "court" /\ COURT!TimePasses)
    /\ WF_courtVars(focus = "court" /\ COURT!Escalate)
Fairness ==
    /\ SpeedToLeadFairness /\ ReplyFairness /\ ChaseFairness
    /\ OverdueFairness /\ StallFairness /\ CourtFairness
Spec == Init /\ [][Next]_vars /\ Fairness

-----------------------------------------------------------------------------
(* The properties of the components, under the names the .cfg lists.       *)

TypeOK == STL!TypeOK /\ RC!TypeOK /\ CL!TypeOK

\* A response task nobody closes is put before every owner.
UnansweredReachesOwners == focus = "speedToLead" => STL!UnansweredReachesOwners
\* A client's message nobody answered is on an open clock, and a missed
\* promise is told, after the firm's business hours and not before.
UnansweredIsOnAClock == RC!UnansweredIsOnAClock
RepliesAreWatched ==
    /\ [](UnansweredIsOnAClock /\ RC!AnsweredClockIsQuiet /\ RC!FirmHadItsHours)
    /\ focus = "reply" => RC!MissedPromiseIsTold
\* An item nobody sends in comes before the lawyer.
ChaseComesToALawyer == focus = "chase" => CL!ChaseComesToALawyer
\* A task past its grace is before an admin, and stuck work that nothing else
\* watches is told, whoever puts it off or leaves meanwhile.
ForgottenWorkIsTold ==
    /\ focus = "overdue" => OVERDUE!LapsedTasksReachAnAdmin
    /\ focus = "stall" => STALL!StuckWorkIsTold
\* A court email nobody takes comes before the owners.
CourtMailReachesOwners == focus = "court" => COURT!CourtMailReachesOwners
=============================================================================
