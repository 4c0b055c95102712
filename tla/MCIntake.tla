------------------------------ MODULE MCIntake ------------------------------
(***************************************************************************)
(* What the worker goes on with by itself after an inquiry: its follow-up  *)
(* (the constants of the .cfg), an emergency's alerts, the sweep of held   *)
(* slots, the outbox all of the firm's email and texts go through, and the *)
(* approvals without which none of it is sent.  A behaviour is one         *)
(* component's, chosen in the initial state: they share no state in these  *)
(* models, and what one does to another is an action of the other.         *)
(***************************************************************************)
EXTENDS FollowUp

CONSTANTS p1, p2, w1, w2, owner, lawyer

VARIABLES
    focus, \* the component this behaviour is about
    status, unack, alerts, timers, tick, request,
    mail, contact, gates, drain, copies, lost, aged, onDuty, followups, told,
    consults, booked, tasks, offers, reminded, flagged, clock, tx,
    rows, writes, draft, process, call

emergencyVars == <<status, unack, alerts, timers, tick, request>>
outboxVars == <<mail, contact, gates, drain, copies, lost, aged, onDuty, followups, told>>
bookVars == <<consults, booked, tasks, offers, reminded, flagged, clock, tx>>
approvalVars == <<rows, writes, draft, process, call>>

\* The lawyer is her own backup.
EMG == INSTANCE EmergencyEscalation WITH Requests <- {p1, p2}, Workers <- {w1},
           Owners <- {owner}, Assigned <- {}, Attorneys <- {lawyer}, MaxAlerts <- 2,
           Rotas <- {[primary |-> {lawyer}, backup |-> {lawyer}, staff |-> {}]},
           Messages <- {[phrases |-> {}, classes |-> {}, safetyFlag |-> TRUE],
                        [phrases |-> {"urgent_served"}, classes |-> {"deadline_risk"}, safetyFlag |-> FALSE]}

\* Two overlapping ticks and an email.
OUT == INSTANCE NotificationOutbox WITH Workers <- {w1, w2}, Staff <- {lawyer},
           Clients <- {"client"}, Addresses <- {"address"}, Batch <- 2, WatchBatch <- 1,
           MaxAttempts <- 2, Movers <- {"client"}, MaxRows <- 1, MaxLost <- 1, outbox <- mail

\* Two emails to a client, for a watch that reads one row at a time.
WATCH == INSTANCE NotificationOutbox WITH Workers <- {w1}, Staff <- {},
             Clients <- {"client"}, Addresses <- {"address"}, Batch <- 1, WatchBatch <- 1,
             MaxAttempts <- 1, Movers <- {"client"}, MaxRows <- 2, MaxLost <- 0, outbox <- mail

\* One slot, and holds that run out; the worker gives them back.
HOLD == INSTANCE ConsultBooking WITH Sessions <- {"session"}, Lawyers <- {lawyer},
            Slots <- {2}, Span <- 1, Lead <- 1, HoldTime <- 1, ReminderAhead <- 1,
            Grace <- 0, RebookOffers <- TRUE, LastTime <- 3, MaxConsults <- 1, timers <- booked

\* Wording that two reviewers must sign off.
APPROVAL == INSTANCE Approvals WITH Reviewers <- {"attorney", "cpa"}, Wordings <- {"wording"},
                AsDrafted <- "as drafted", Calls <- {p1, p2}, MaxAge <- 1, MaxWrites <- 3

ASSUME APPROVAL!ApprovalsAssumption
ASSUME OUT!OutboxAssumption /\ WATCH!OutboxAssumption
ASSUME HOLD!BookingAssumption
ASSUME EMG!EmergencyAssumption

IntakeInit ==
    /\ focus \in {"followUp", "emergency", "holds", "outbox", "watch", "approvals"}
    /\ Init /\ EMG!Init /\ HOLD!Init /\ APPROVAL!Init
    /\ IF focus = "watch" THEN WATCH!Init ELSE OUT!Init
    /\ focus # "watch" => onDuty = {"admin"} \* one state is enough
    /\ focus \notin {"outbox", "watch"} => contact["client"] = "address"
    /\ focus # "approvals" => process.ticks

IntakeNext ==
    /\ \/ focus = "followUp" /\ Next
       \/ focus # "followUp" /\ UNCHANGED vars
    /\ \/ focus = "emergency" /\ EMG!Next
       \/ focus # "emergency" /\ UNCHANGED emergencyVars
    /\ \/ focus = "holds" /\ HOLD!Next
       \/ focus # "holds" /\ UNCHANGED bookVars
    /\ \/ focus = "outbox" /\ OUT!Next
       \/ focus = "watch" /\ WATCH!Next
       \/ focus \notin {"outbox", "watch"} /\ UNCHANGED outboxVars
    /\ \/ focus = "approvals" /\ APPROVAL!Next
       \/ focus # "approvals" /\ UNCHANGED approvalVars
    /\ UNCHANGED focus

intakeVars == <<focus, vars, emergencyVars, bookVars, outboxVars, approvalVars>>
\* The Fairness of each component, under its focus: TLC need not ask whether a
\* step of a component the behaviour is not about could be taken.
EmergencyFairness ==
    /\ \A p \in {p1, p2} :
          /\ WF_emergencyVars(focus = "emergency" /\ EMG!CommitAcknowledge(p))
          /\ WF_emergencyVars(focus = "emergency" /\ EMG!CommitDowngrade(p))
    /\ \A a \in 1 .. 2 :
          SF_emergencyVars(focus = "emergency" /\ a \in EMG!Alerts /\ EMG!TakeTimer(w1, a))
    /\ WF_emergencyVars(focus = "emergency" /\ EMG!HandleEscalation(w1))
    /\ <>[][focus = "emergency" => ~EMG!HandlerFails(w1)]_emergencyVars
HoldFairness ==
    /\ \A p \in Requests : WF_bookVars(focus = "holds" /\ HOLD!Proceed(p))
    /\ WF_bookVars(focus = "holds" /\ HOLD!PassTime)
    /\ SF_bookVars(focus = "holds" /\ 1 \in DOMAIN consults /\ HOLD!ExpireSlotHold(1, clock))
OutboxFairness ==
    /\ \A w \in {w1, w2} : WF_outboxVars(focus = "outbox" /\ OUT!Drain(w))
    /\ <>[][focus = "outbox" => \A w \in {w1, w2} : ~OUT!DrainFails(w)]_outboxVars
    /\ WF_outboxVars(focus = "outbox" /\ OUT!TimePasses)
    /\ WF_outboxVars(focus = "outbox" /\ OUT!DeliveryWatch)
WatchFairness ==
    /\ WF_outboxVars(focus = "watch" /\ WATCH!Drain(w1))
    /\ <>[][focus = "watch" => ~WATCH!DrainFails(w1)]_outboxVars
    /\ WF_outboxVars(focus = "watch" /\ WATCH!DeliveryWatch)
ApprovalFairness ==
    LET Loads(c) == APPROVAL!Read(c) \/ APPROVAL!Arrive(c) \/ APPROVAL!LoadFails(c)
    IN  /\ \A c \in {p1, p2} :
              /\ WF_approvalVars(focus = "approvals" /\ Loads(c))
              /\ WF_approvalVars(focus = "approvals" /\ APPROVAL!Finish(c))
        /\ WF_approvalVars(focus = "approvals" /\ APPROVAL!TimePasses)
IntakeFairness == EmergencyFairness /\ HoldFairness /\ OutboxFairness /\ WatchFairness
                  /\ ApprovalFairness
IntakeSpec == IntakeInit /\ [][IntakeNext]_intakeVars /\ IntakeFairness

-----------------------------------------------------------------------------
(* The properties of the components, under the names the .cfg lists, beside *)
(* SentOnceInOrder of the follow-up.                                       *)

\* An open alert somebody was paged for has a timer and is answered or gets to
\* the owners, and nobody is paged for an answered one.
AlertsClimbUntilTaken ==
    /\ [](focus = "emergency" => EMG!EscalationGoesOn) /\ EMG!AnsweredMeansQuiet
    /\ focus = "emergency" => EMG!ReachesOwners
\* A slot held and never confirmed is given back.
HoldsAreGivenBack == HOLD!HoldsEnd
\* No copy of a message goes out that its row does not account for.
CopiesAreAccountedFor == focus = "outbox" => OUT!CopiesAreAccountedFor
\* Besides, a message that did not arrive is recorded and told to somebody, save
\* behind a watch's worth of mail nobody wants, and mail to staff goes out.
MailIsSeenThrough ==
    /\ []CopiesAreAccountedFor
    /\ focus = "outbox" => OUT!FailuresAreFollowedUp /\ OUT!StaffMailGoesOut
    /\ focus = "watch" => WATCH!FailuresAreFollowedUp
\* A gate is open on what stood signed off, and closes when it does no longer.
ApprovalsAreFollowed ==
    /\ [](focus = "approvals" => APPROVAL!SignedOffAtOnce /\ APPROVAL!TicksSeeRevocations)
    /\ focus = "approvals" => APPROVAL!ClosesForGood
=============================================================================
