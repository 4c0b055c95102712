----------------------------- MODULE MCRecords -----------------------------
(***************************************************************************)
(* The opening of a matter and what follows its records: the sync that     *)
(* brings new parties to the conflict check, the versions of a document,   *)
(* the task lists that are worked off in order, and the daily scans over   *)
(* its limitation dates.  A behaviour is one component's, chosen in the    *)
(* initial state: they share no state in these models.                     *)
(***************************************************************************)
EXTENDS Naturals, Sequences

CONSTANTS p1, p2, w1, ann, ben, Nobody

VARIABLES
    focus, \* the component this behaviour is about
    now, links, cursor, sync, matter, watch,
    versions, group, asks, asked, retained, request, worker,
    conflict, evidence, check, told, opened, handoffs, timer, flagged, retries, runner,
    run, item, task, releaser, cancel,
    rows, tasks, flags, verifications, changes, reminders, profile, today, tx, scan

syncVars == <<now, links, cursor, sync, matter, watch>>
documentVars == <<versions, group, asks, asked, retained, request, worker>>
openingVars == <<conflict, evidence, check, told, opened, handoffs, timer, flagged, retries, runner>>
taskListVars == <<run, item, task, releaser, cancel>>
scanVars == <<rows, tasks, flags, verifications, changes, reminders, profile, today, tx, scan>>

\* Three links over two milliseconds, two of them to a batch.
SYNC == INSTANCE ConflictSync WITH Links <- {1, 2, 3}, Batch <- 2, PerMilli <- 2, LastTime <- 2
\* A large Word file, a large scan, and a program that says it is a PDF.
x == [signature |-> "zip", declared |-> "docx", holds |-> "docx", size |-> "large",
      intact |-> TRUE, text |-> "layer"]
y == [signature |-> "pdf", declared |-> "pdf", holds |-> "other", size |-> "large",
      intact |-> TRUE, text |-> "scan"]
z == [signature |-> "exe", declared |-> "pdf", holds |-> "other", size |-> "small",
      intact |-> TRUE, text |-> "layer"]
DOC == INSTANCE DocumentVersions WITH Contents <- {x, y, z}, Requests <- {p1, p2},
           Workers <- {w1}, MaxVersions <- 2, MaxAsks <- 1, MaxAttempts <- 2

OPEN == INSTANCE MatterOpening WITH Items <- {"trust_ledger"}, Runners <- {p1, p2},
            MaxAttempts <- 2, MaxRetries <- 1, matter <- opened
\* b waits for a, and d for both b and c.
LIST == INSTANCE TaskListRuns WITH Items <- {"a", "b", "c", "d"},
            DependsOn <- [i \in {"a", "b", "c", "d"} |->
                             CASE i = "b" -> {"a"} [] i = "d" -> {"b", "c"} [] OTHER -> {}],
            worker <- releaser
\* The scans over two days, one request at a time among them.
SCAN == INSTANCE LimitationDates WITH Requests <- {p1}, Lawyers <- {ann, ben}, Trained <- {},
            Dates <- {1, 2}, Outcomes <- {"withdrawn"}, Thresholds <- {}, LastDay <- 2,
            MaxRows <- 1, MaxVersion <- 2, MaxVerifications <- 1

ASSUME SCAN!LimitationAssumption
ASSUME DOC!ContentAssumption
ASSUME LIST!TaskListAssumption
ASSUME OPEN!OpeningAssumption
ASSUME SYNC!SyncAssumption

Init ==
    /\ focus \in {"sync", "reopened", "document", "opening", "taskList", "scans"}
    /\ SYNC!Init /\ DOC!Init
    /\ OPEN!Init /\ LIST!Init
    /\ SCAN!Init
    /\ versions[1].bytes = x \* of the two that are accepted, either may be the first
    /\ focus # "document" => versions = <<DOC!NewFile(TRUE, x)>> \* one state is enough

Next ==
    /\ \/ focus = "sync" /\ SYNC!NewParties
       \/ focus = "reopened" /\ SYNC!Reopenings
       \/ focus \notin {"sync", "reopened"} /\ UNCHANGED syncVars
    /\ \/ focus = "document" /\ DOC!Next
       \/ focus # "document" /\ UNCHANGED documentVars
    /\ \/ focus = "opening" /\ OPEN!Next
       \/ focus # "opening" /\ UNCHANGED openingVars
    /\ \/ focus = "taskList" /\ LIST!Next
       \/ focus # "taskList" /\ UNCHANGED taskListVars
    /\ \/ focus = "scans" /\ SCAN!Next
       \/ focus # "scans" /\ UNCHANGED scanVars
    /\ UNCHANGED focus

vars == <<focus, syncVars, documentVars, openingVars, taskListVars, scanVars>>

\* The Fairness of each component, under its focus: TLC need not ask whether a
\* step of a component the behaviour is not about could be taken.
SyncFairness ==
    LET Under(A) == focus = "sync" /\ A
    IN  /\ WF_syncVars(Under(SYNC!Baseline)) /\ WF_syncVars(Under(SYNC!ReadLinks))
        /\ SF_syncVars(Under(SYNC!SyncMatterParties))
        /\ WF_syncVars(focus = "reopened" /\ SYNC!DetectReopened)
        /\ \A l \in {1, 2, 3} : WF_syncVars(Under(SYNC!CommitAdding(l)))
DocumentFairness ==
    /\ \A v \in 1 .. 2 :
          WF_documentVars(focus = "document" /\ v \in DOMAIN versions /\ DOC!ReadText(w1, v))
    /\ WF_documentVars(focus = "document" /\ DOC!IndexVersionText(w1))
OpeningFairness ==
    /\ WF_openingVars(focus = "opening" /\ \E p \in {p1, p2} : OPEN!TakeTimer(p))
    /\ \A p \in {p1, p2} : WF_openingVars(focus = "opening" /\ OPEN!ProcessHandoffs(p))
    /\ <>[][focus = "opening" => \A p \in {p1, p2} : ~OPEN!RequestFails(p)]_openingVars
TaskListFairness ==
    /\ WF_taskListVars(focus = "taskList" /\ LIST!WorkerReads)
    /\ WF_taskListVars(focus = "taskList" /\ LIST!WorkerWrites)
ScanFairness ==
    /\ SF_scanVars(focus = "scans" /\ SCAN!ScanRead) /\ SF_scanVars(focus = "scans" /\ SCAN!ScanCommit)
    /\ SF_scanVars(focus = "scans" /\ \E risk \in BOOLEAN : SCAN!CoverageRead(risk))
    /\ SF_scanVars(focus = "scans" /\ SCAN!CoverageCommit)
Fairness == SyncFairness /\ DocumentFairness /\ OpeningFairness /\ TaskListFairness /\ ScanFairness
Spec == Init /\ [][Next]_vars /\ Fairness

-----------------------------------------------------------------------------
(* The properties of the components, under the names the .cfg lists.       *)

TypeOK == SYNC!TypeOK /\ DOC!TypeOK /\ OPEN!TypeOK

\* A party a sync has not read past is checked, save behind a full batch of one
\* millisecond, no sync reads past it otherwise, and a matter seen to be reopened
\* is checked again.
NothingBehindTheBatchIsLost ==
    /\ SYNC!NothingIsPassedOver /\ SYNC!NothingBehindTheBatchIsLost
    /\ focus = "reopened" => SYNC!SeenReopeningIsChecked
\* The versions of a document are numbered, and the text of each gets indexed.
DocumentsSettle ==
    /\ [](focus = "document" => DOC!VersionsAreConsecutive)
    /\ focus = "document" => DOC!IndexingSettles
\* An opened matter's set-up is done or in the hands of people who were told; a
\* task list goes through its items in order, and to its end.
HandedOnWorkGoesOn ==
    /\ focus = "opening" => OPEN!SetupSettles
    /\ [](LIST!PrerequisitesFirst /\ LIST!CompletedIsFinished)
    /\ focus = "taskList" => LIST!ReadyIsReleased
\* A date that needs verification is flagged every day, and a retained matter
\* no lawyer has decided about until one does.
ScansSeeThrough == focus = "scans" => SCAN!UnverifiedIsFlagged /\ SCAN!DecisionIsAskedFor
=============================================================================
