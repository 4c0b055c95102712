------------------------------ MODULE FollowUp ------------------------------
(***************************************************************************)
(* The follow-up sequence of one inquiry (src/src/engines/intake/followUp) *)
(* and the STOP that ends it.  The tick's scan starts a sequence, its      *)
(* steps queue a message each; an inbound STOP ends the sequence and       *)
(* cancels its timers.  Transactions run at READ COMMITTED: a tick locks   *)
(* the timer it runs and a STOP cancelling that timer waits.               *)
(*                                                                         *)
(* Days and business hours are reduced to the tick taking a timer once it  *)
(* is due; the firm has its follow-ups switched on and approved.           *)
(***************************************************************************)
EXTENDS Naturals

CONSTANTS
    Requests,  \* inbound messages being handled at a time
    Workers,   \* ticks under way at a time
    Steps      \* messages of the sequence

FollowUpAssumption == Steps \in Nat \ {0}

ASSUME SomeStep == FollowUpAssumption

VARIABLES
    inquiry,   \* what is known of the person: see InquiryType
    run,       \* the sequence: see RunType
    stepTimer, \* its next step has a timer
    outbox,    \* messages queued and not yet delivered
    delivered, \* messages handed to the provider
    work,      \* what each tick has taken and read
    stop       \* the STOPs under way

vars == <<inquiry, run, stepTimer, outbox, delivered, work, stop>>

InquiryType == [stopped : BOOLEAN, closed : BOOLEAN, booked : BOOLEAN, safety : BOOLEAN,
                safeContact : BOOLEAN, contacted : BOOLEAN]
RunType == [status : {"none", "active", "stopped", "completed"}, sent : 0..Steps]
Idle == [op |-> "none"]

Init ==
    /\ inquiry \in {i \in InquiryType : \A f \in DOMAIN i : ~i[f]}
    /\ run = [status |-> "none", sent |-> 0]
    /\ stepTimer = FALSE
    /\ outbox = {} /\ delivered = {}
    /\ work = [w \in Workers |-> Idle]
    /\ stop = [p \in Requests |-> Idle]

SafetySuppressed == inquiry.safety /\ ~inquiry.safeContact

\* Asked at the start of a sequence and again before each message.
FollowUpEligibility ==
    /\ ~inquiry.stopped /\ ~inquiry.closed
    /\ ~inquiry.booked /\ ~inquiry.contacted
    /\ ~SafetySuppressed

\* What happens to the inquiry elsewhere: declined or closed as not an inquiry,
\* booked, called by staff, an emergency, a safe way of contact.
InquiryChanges(field) ==
    /\ ~inquiry[field]
    /\ inquiry' = [inquiry EXCEPT ![field] = TRUE]
    /\ UNCHANGED <<run, stepTimer, outbox, delivered, work, stop>>

-----------------------------------------------------------------------------
(* The tick.                                                               *)

Takes(w, r) ==
    /\ work[w] = Idle
    /\ work' = [work EXCEPT ![w] = r]
    /\ UNCHANGED <<inquiry, run, stepTimer, outbox, delivered, stop>>

Scan(w) ==
    /\ run.status = "none" /\ FollowUpEligibility
    /\ Takes(w, [op |-> "start"])

\* The insert of a second active sequence is refused by the unique index.
StartFollowUp(w) ==
    /\ work[w].op = "start"
    /\ IF run.status = "none"
       THEN run' = [run EXCEPT !.status = "active"] /\ stepTimer' = TRUE
       ELSE UNCHANGED <<run, stepTimer>>
    /\ work' = [work EXCEPT ![w] = Idle]
    /\ UNCHANGED <<inquiry, outbox, delivered, stop>>

Stepping(w) == work[w].op = "step"
\* Seeded bug: the worker claims its rows without FOR UPDATE.
TimerNotLocked == FALSE

TimerLocked == \E w \in Workers : Stepping(w)
RunLocked == \E p \in Requests : stop[p].op = "stop" /\ stop[p].run

TakeStep(w) ==
    /\ stepTimer /\ ~TimerLocked
    /\ Takes(w, [op |-> "step", active |-> run.status = "active", step |-> run.sent,
                 eligible |-> FollowUpEligibility])

SendStep(step) ==
    /\ outbox' = outbox \cup {step}
    /\ stepTimer' = (step + 1 < Steps)
    /\ run' = [sent |-> step + 1, status |-> IF stepTimer' THEN run.status ELSE "completed"]

HandleFollowUpStep(w) ==
    /\ Stepping(w)
    /\ \/ /\ ~work[w].active
          /\ stepTimer' = FALSE
          /\ UNCHANGED <<run, outbox>>
       \/ /\ work[w].active /\ ~work[w].eligible
          /\ ~RunLocked
          /\ run' = [run EXCEPT !.status = "stopped"]
          /\ stepTimer' = FALSE
          /\ UNCHANGED outbox
       \/ /\ work[w].active /\ work[w].eligible
          /\ ~RunLocked
          /\ SendStep(work[w].step)
    /\ work' = [work EXCEPT ![w] = Idle]
    /\ UNCHANGED <<inquiry, delivered, stop>>

HandlerFails(w) ==
    /\ work[w] # Idle
    /\ work' = [work EXCEPT ![w] = Idle]
    /\ UNCHANGED <<inquiry, run, stepTimer, outbox, delivered, stop>>

-----------------------------------------------------------------------------
(* STOP, and the drain.                                                    *)

\* It ends the sequence it sees ...
StopFollowUps(p) ==
    /\ stop[p] = Idle
    /\ ~RunLocked
    /\ stop' = [stop EXCEPT ![p] = [op |-> "stop", run |-> run.status = "active"]]
    /\ UNCHANGED <<inquiry, run, stepTimer, outbox, delivered, work>>

\* ... and cancels what timers there are by then.
CancelFollowUps(p) ==
    /\ stop[p].op = "stop"
    /\ ~TimerLocked
    /\ inquiry' = [inquiry EXCEPT !.stopped = TRUE]
    /\ run' = IF stop[p].run /\ run.status = "active"
              THEN [run EXCEPT !.status = "stopped"] ELSE run
    /\ stepTimer' = FALSE
    /\ stop' = [stop EXCEPT ![p] = Idle]
    /\ UNCHANGED <<outbox, delivered, work>>

\* STOP waits for the timer, the step for the sequence: PostgreSQL ends one.
Deadlocked(p) == stop[p].op = "stop" /\ stop[p].run /\ TimerLocked
StopLost(p) ==
    /\ Deadlocked(p)
    /\ stop' = [stop EXCEPT ![p] = Idle]
    /\ UNCHANGED <<inquiry, run, stepTimer, outbox, delivered, work>>
BreakDeadlock(p) ==
    /\ Deadlocked(p)
    /\ StopLost(p) \/ \E w \in Workers : Stepping(w) /\ HandlerFails(w)

\* The drain of the outbox (see NotificationOutbox) looks at approvals only.
Deliver(step) ==
    /\ step \in outbox
    /\ outbox' = outbox \ {step}
    /\ delivered' = delivered \cup {step}
    /\ UNCHANGED <<inquiry, run, stepTimer, work, stop>>

-----------------------------------------------------------------------------
Next ==
    \/ \E field \in DOMAIN inquiry \ {"stopped"} : InquiryChanges(field)
    \/ \E w \in Workers :
          \/ Scan(w) \/ StartFollowUp(w)
          \/ TakeStep(w) \/ HandleFollowUpStep(w)
          \/ HandlerFails(w)
    \/ \E p \in Requests : StopFollowUps(p) \/ CancelFollowUps(p) \/ StopLost(p)
    \/ \E step \in 0..Steps : Deliver(step)

Spec == Init /\ [][Next]_vars

\* The tick comes every minute and what it took ends; a handler that fails is
\* retried, and fails for good for no reason in this code.
Fairness ==
    /\ SF_vars(\E w \in Workers : TakeStep(w))
    /\ SF_vars(\E w \in Workers : HandleFollowUpStep(w))
    /\ \A w \in Workers : WF_vars(StartFollowUp(w))
    /\ \A p \in Requests : WF_vars(BreakDeadlock(p))
    /\ SF_vars(\E p \in Requests : CancelFollowUps(p))
FairSpec == Spec /\ Fairness

-----------------------------------------------------------------------------
(* Properties.                                                             *)

TypeOK ==
    /\ inquiry \in InquiryType
    /\ run \in RunType
    /\ stepTimer \in BOOLEAN
    /\ outbox \cup delivered \subseteq 0..(Steps - 1)
    /\ \A w \in Workers : work[w].op \in {"none", "start", "step"}
    /\ \A p \in Requests : stop[p].op \in {"none", "stop"}

\* After a STOP has committed no further follow-up is queued: not by a
\* sequence the scan was just starting, nor by a step a tick had taken.
StopIsHeeded == [][inquiry.stopped => outbox' \subseteq outbox]_vars

\* Each message of the sequence is queued once and in order, whatever fails
\* and is run again, and whichever tick runs it.
SentOnceInOrder ==
    /\ outbox \cup delivered = 0..(run.sent - 1)
    /\ outbox \cap delivered = {}

\* A sequence does not get stuck, unless a STOP has ended it.
SequenceEnds ==
    (run.status = "active") ~> (run.status # "active" \/ inquiry.stopped)

\* "No outbound message to a safety-flagged person until safe-contact is
\* confirmed": what is delivered goes to somebody who may be written to.
SafetyIsHeeded == [][SafetySuppressed => delivered' = delivered]_vars
=============================================================================
