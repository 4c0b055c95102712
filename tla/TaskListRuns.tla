---------------------------- MODULE TaskListRuns ----------------------------
(***************************************************************************)
(* A run of a task list on a matter                                        *)
(* (src/src/engines/calendar-core/templates/taskListService.ts,            *)
(* taskLists.ts).  Items without prerequisites become tasks at once; the   *)
(* worker releases the others when what they depend on is finished.        *)
(* Neither the worker nor a person cancelling the run locks it: each reads *)
(* the run and its items and writes what follows from what it read.        *)
(***************************************************************************)
EXTENDS Naturals

CONSTANTS
    Items,     \* the items of the template
    DependsOn  \* per item, the items that must be finished first

\* validateTaskListTemplate: known prerequisites and no loop (topologicalOrder).
TaskListAssumption ==
    /\ DependsOn \in [Items -> SUBSET Items]
    /\ \A loop \in SUBSET Items \ {{}} : \E i \in loop : DependsOn[i] \cap loop = {}

VARIABLES
    run,    \* none, running, completed or cancelled
    item,   \* per item: waiting, released or skipped
    task,   \* per item, its task: none, open or closed
    worker, \* what the worker's pass read: the items to release, or that the run is over
    cancel  \* what the person cancelling the run read

vars == <<run, item, task, worker, cancel>>

Idle == [on |-> FALSE]

Init ==
    /\ run = "none"
    /\ item = [i \in Items |-> "waiting"]
    /\ task = [i \in Items |-> "none"]
    /\ worker = Idle /\ cancel = Idle

-----------------------------------------------------------------------------
StartRun ==
    LET first == {i \in Items : DependsOn[i] = {}}
    IN  /\ run = "none"
        /\ run' = "running"
        /\ item' = [i \in Items |-> IF i \in first THEN "released" ELSE "waiting"]
        /\ task' = [i \in Items |-> IF i \in first THEN "open" ELSE "none"]
        /\ UNCHANGED <<worker, cancel>>

\* The task is done or cancelled on somebody's list.
CloseTask(i) ==
    /\ task[i] = "open"
    /\ task' = [task EXCEPT ![i] = "closed"]
    /\ UNCHANGED <<run, item, worker, cancel>>

Finished(i) == item[i] = "skipped" \/ (item[i] = "released" /\ task[i] = "closed")
ReadyToRelease == {i \in Items : item[i] = "waiting" /\ \A d \in DependsOn[i] : Finished(d)}
RunComplete == \A i \in Items : Finished(i)

\* releaseReadyItems looks at one running run ...
WorkerReads ==
    /\ run = "running" /\ ~worker.on
    /\ ReadyToRelease # {} \/ RunComplete
    /\ worker' = [on |-> TRUE, release |-> ReadyToRelease]
    /\ UNCHANGED <<run, item, task, cancel>>

\* ... and releases what was ready, or ends the run.
WorkerWrites ==
    /\ worker.on
    /\ IF worker.release # {}
       THEN /\ item' = [i \in Items |-> IF i \in worker.release THEN "released" ELSE item[i]]
            /\ task' = [i \in Items |-> IF i \in worker.release THEN "open" ELSE task[i]]
            /\ UNCHANGED run
       ELSE /\ run' = "completed"
            /\ UNCHANGED <<item, task>>
    /\ worker' = Idle
    /\ UNCHANGED cancel

CancelReads ==
    /\ run = "running" /\ ~cancel.on
    /\ cancel' = [on |-> TRUE, waiting |-> {i \in Items : item[i] = "waiting"}]
    /\ UNCHANGED <<run, item, task, worker>>

\* Items read as waiting are skipped; the tasks of the others are looked at now.
CancelWrites ==
    /\ cancel.on
    /\ run' = "cancelled"
    /\ item' = [i \in Items |-> IF i \in cancel.waiting THEN "skipped" ELSE item[i]]
    /\ task' = [i \in Items |-> IF i \notin cancel.waiting /\ task[i] = "open" THEN "closed" ELSE task[i]]
    /\ cancel' = Idle
    /\ UNCHANGED worker

Next ==
    \/ StartRun
    \/ \E i \in Items : CloseTask(i)
    \/ WorkerReads \/ WorkerWrites
    \/ CancelReads \/ CancelWrites

\* The worker comes round again and again.
Fairness == WF_vars(WorkerReads) /\ WF_vars(WorkerWrites)

Spec == Init /\ [][Next]_vars /\ Fairness

-----------------------------------------------------------------------------
TypeOK ==
    /\ run \in {"none", "running", "completed", "cancelled"}
    /\ item \in [Items -> {"waiting", "released", "skipped"}]
    /\ task \in [Items -> {"none", "open", "closed"}]
    /\ worker.on \in BOOLEAN /\ cancel.on \in BOOLEAN

\* Nobody is given a task whose prerequisites are still open, whatever the
\* worker and a cancellation do to each other (readyToRelease).
PrerequisitesFirst ==
    \A i \in Items : task[i] # "none" =>
        \A d \in DependsOn[i] : item[d] = "skipped" \/ task[d] = "closed"

\* A run that counts as completed left nothing undone, or a person stopped it
\* (runComplete).
CompletedIsFinished == run = "completed" => \A i \in Items : task[i] # "open" /\ item[i] # "waiting"

\* An item whose prerequisites are finished does not wait for ever: it is
\* released, or the run is over (the worker's pass).
ReadyIsReleased == \A i \in Items : (run = "running" /\ i \in ReadyToRelease) ~> (item[i] # "waiting" \/ run # "running")
=============================================================================
