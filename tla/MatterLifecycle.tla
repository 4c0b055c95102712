--------------------------- MODULE MatterLifecycle ---------------------------
(***************************************************************************)
(* One matter on its practice area's stages, and closing it                *)
(* (src/src/engines/calendar-core/templates/stageService.ts, stages.ts).   *)
(*                                                                         *)
(* The lifecycle row and the closing are read without a lock, checked, and *)
(* written later in the same transaction, so a move, a closing begun,      *)
(* completed or abandoned may overlap any other.                           *)
(***************************************************************************)
EXTENDS Naturals, Sequences

CONSTANTS
    Staff,      \* the people whose calls may overlap
    Stages,     \* 1..Stages in order, the last one the closing stage
    MaxClosings \* bound: closings ever started

LifecycleAssumption == Stages \in Nat /\ Stages > 1 /\ MaxClosings \in Nat \ {0}

VARIABLES
    lifecycle,  \* its stage (0: not started) and status
    transition, \* the stage the newest row of matter_stage_transitions leads to
    closings,   \* the matter_closings rows, oldest first
    checklists, \* per closing, whether its checklist task is done
    workOpen,   \* deadline tasks, future events or limitation dates still open
    closed,     \* whether the matter itself is closed (matters.stage)
    call        \* per member of staff, the call that has read and not committed

vars == <<lifecycle, transition, closings, checklists, workOpen, closed, call>>

ClosingStage == Stages
Idle == [op |-> "none"]
Begun == [status |-> "in_progress", trustZero |-> FALSE, closedAt |-> FALSE]

Init ==
    /\ lifecycle = [stage |-> 0, status |-> "open"]
    /\ transition = 0
    /\ closings = <<>> /\ checklists = <<>>
    /\ workOpen \in BOOLEAN
    /\ closed = FALSE
    /\ call = [u \in Staff |-> Idle]

InProgress == {k \in DOMAIN closings : closings[k].status = "in_progress"}
Done(u) == call' = [call EXCEPT ![u] = Idle]
Read(u, what) ==
    /\ call[u] = Idle /\ lifecycle.stage > 0
    /\ call' = [call EXCEPT ![u] = what]
    /\ UNCHANGED <<lifecycle, transition, closings, checklists, workOpen, closed>>

\* What a stage change writes: the row, and the transition that led there.
Enter(stage, status) ==
    /\ lifecycle' = [stage |-> stage, status |-> status]
    /\ transition' = stage

-----------------------------------------------------------------------------
(* Stages.                                                                 *)

\* startLifecycle: one row per matter.
StartLifecycle ==
    /\ lifecycle.stage = 0
    /\ Enter(1, "open")
    /\ UNCHANGED <<closings, checklists, workOpen, closed, call>>

\* checkTransition, forwards or back: never to the closing stage.
ReadForMove(u, to) ==
    /\ lifecycle.status = "open"
    /\ to # lifecycle.stage /\ to # ClosingStage
    /\ Read(u, [op |-> "move", to |-> to])

\* The update names the stage only: a status written meanwhile stays.
CommitMove(u) ==
    /\ call[u].op = "move"
    /\ Enter(call[u].to, lifecycle.status)
    /\ Done(u)
    /\ UNCHANGED <<closings, checklists, workOpen, closed>>

-----------------------------------------------------------------------------
(* Closing.                                                                *)

ReadForStartClosing(u) ==
    /\ lifecycle.status = "open"
    /\ Read(u, [op |-> "start"])

\* One closing in progress is all the unique index allows.
CommitStartClosing(u) ==
    /\ call[u].op = "start" /\ Len(closings) < MaxClosings
    /\ IF InProgress # {} THEN UNCHANGED <<lifecycle, closings, checklists>>
       ELSE /\ closings' = Append(closings, Begun)
            /\ checklists' = Append(checklists, FALSE)
            /\ lifecycle' = [lifecycle EXCEPT !.status = "closing"]
    /\ Done(u)
    /\ UNCHANGED <<transition, workOpen, closed>>

\* The Document engine's checklist task is completed.
CompleteChecklist(k) ==
    /\ ~checklists[k]
    /\ checklists' = [checklists EXCEPT ![k] = TRUE]
    /\ UNCHANGED <<lifecycle, transition, closings, workOpen, closed, call>>

\* The update goes by id to the closing that was read, whatever became of it.
ConfirmTrustZero(u, k) ==
    /\ k \in InProgress
    /\ Read(u, [op |-> "confirm", closing |-> k])

CommitTrustZero(u) ==
    /\ call[u].op = "confirm"
    /\ closings' = [closings EXCEPT ![call[u].closing].trustZero = TRUE]
    /\ Done(u)
    /\ UNCHANGED <<lifecycle, transition, checklists, workOpen, closed>>

\* Seeded bug: the confirmation and the checklist of any closing of the
\* matter count, those of an abandoned one too.
BlockedButForAnyClosing(k) ==
    \/ workOpen
    \/ ~\E j \in DOMAIN closings : checklists[j]
    \/ ~\E j \in DOMAIN closings : closings[j].trustZero

\* closingBlockers
Blocked(k) == workOpen \/ ~checklists[k] \/ ~closings[k].trustZero

ReadForCompleteClosing(u, k) ==
    /\ k \in InProgress /\ ~Blocked(k)
    /\ Read(u, [op |-> "complete", closing |-> k])

CommitCompleteClosing(u) ==
    LET k == call[u].closing IN
    /\ call[u].op = "complete"
    /\ closings' = [closings EXCEPT ![k].status = "closed", ![k].closedAt = TRUE]
    /\ Enter(ClosingStage, "closed")
    /\ closed' = TRUE
    /\ Done(u)
    /\ UNCHANGED <<checklists, workOpen>>

ReadForAbandonClosing(u, k) ==
    /\ k \in InProgress
    /\ Read(u, [op |-> "abandon", closing |-> k])

CommitAbandonClosing(u) ==
    /\ call[u].op = "abandon"
    /\ closings' = [closings EXCEPT ![call[u].closing].status = "abandoned"]
    /\ lifecycle' = [lifecycle EXCEPT !.status = "open"]
    /\ Done(u)
    /\ UNCHANGED <<transition, checklists, workOpen, closed>>

\* Deadlines, events and limitation dates come and go elsewhere.
WorkChanges ==
    /\ workOpen' = ~workOpen
    /\ UNCHANGED <<lifecycle, transition, closings, checklists, closed, call>>

Next ==
    \/ StartLifecycle
    \/ \E k \in DOMAIN closings : CompleteChecklist(k)
    \/ WorkChanges
    \/ \E u \in Staff :
          \/ \E to \in 1..Stages : ReadForMove(u, to)
          \/ CommitMove(u)
          \/ ReadForStartClosing(u) \/ CommitStartClosing(u)
          \/ \E k \in DOMAIN closings :
                ConfirmTrustZero(u, k) \/ ReadForCompleteClosing(u, k) \/ ReadForAbandonClosing(u, k)
          \/ CommitTrustZero(u)
          \/ CommitCompleteClosing(u)
          \/ CommitAbandonClosing(u)

Spec == Init /\ [][Next]_vars

-----------------------------------------------------------------------------
TypeOK ==
    /\ lifecycle \in [stage : 0..Stages, status : {"open", "closing", "closed"}]
    /\ transition \in 0..Stages
    /\ \A k \in DOMAIN closings :
          closings[k] \in [status : {"in_progress", "closed", "abandoned"}, trustZero : BOOLEAN, closedAt : BOOLEAN]
    /\ Len(checklists) = Len(closings)
    /\ workOpen \in BOOLEAN /\ closed \in BOOLEAN
    /\ \A u \in Staff : call[u].op \in {"none", "move", "start", "confirm", "complete", "abandon"}

\* However calls overlap, a closed matter has one closing of its own that a
\* lawyer confirmed trust at zero for and whose checklist was completed; what
\* was confirmed for an abandoned closing does not count (completeClosing).
ClosedWasEarned ==
    closed => \E k \in DOMAIN closings : closings[k].closedAt /\ closings[k].trustZero /\ checklists[k]

\* A matter shown as being closed has a closing that can be completed or
\* abandoned: no race leaves it stuck there (startClosing, abandonClosing).
ClosingIsInProgress == lifecycle.status = "closing" => InProgress # {}

\* The log of stage changes ends where the matter is.
LogEndsAtStage == transition = lifecycle.stage

LifecycleIsSound == ClosedWasEarned /\ ClosingIsInProgress /\ LogEndsAtStage
=============================================================================
