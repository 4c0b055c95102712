---------------------------- MODULE WorkerProofs ----------------------------
(***************************************************************************)
(* The theorems about what goes on by itself once somebody set it going:   *)
(* the messages of a follow-up, the items of a task list, the clock on a   *)
(* client's message, an emergency's alerts, the outbox, the sync of new    *)
(* parties, the indexing of documents and the gates all of it is behind.   *)
(* Ticks of the worker run beside one another and beside the requests,     *)
(* fail and are run again: for any number of them and every bound.         *)
(***************************************************************************)
EXTENDS FollowUp, Sequences, CommonLemmas

-----------------------------------------------------------------------------
(* The invariant.                                                          *)

StartWork == [op : {"start"}]
StepWork == [op : {"step"}, active : BOOLEAN, step : 0..Steps, eligible : BOOLEAN]

\* What each tick has in hand.
WorkTyped == work \in [Workers -> {Idle} \cup StartWork \cup StepWork]

\* A tick that takes a step has its timer, which nobody else has or removes:
\* the step it is about to queue is still the next one.
StepIsNext ==
    /\ \A w \in Workers :
           Stepping(w) => /\ stepTimer /\ work[w].step = run.sent
                          /\ work[w].active => run.status # "none"
    /\ \A v, w \in Workers : Stepping(v) /\ Stepping(w) => v = w

\* A timer is for a step of the sequence.
TimerForStep ==
    /\ stepTimer => run.sent < Steps
    /\ run.status = "none" => run.sent = 0 /\ ~stepTimer

\* A step taken after a STOP has committed finds the person not to be written to.
StopIsSeen == inquiry.stopped => \A w \in Workers : Stepping(w) => ~work[w].eligible

StateTyped ==
    /\ inquiry \in InquiryType
    /\ run \in RunType
    /\ stepTimer \in BOOLEAN

SeqInv ==
    /\ StateTyped /\ WorkTyped
    /\ StepIsNext /\ TimerForStep /\ StopIsSeen
    /\ SentOnceInOrder

LEMMA StepNumber ==
    ASSUME NEW n \in 0..Steps
    PROVE  /\ n \in Nat /\ n \notin 0..(n - 1)
           /\ n < Steps => n + 1 \in 0..Steps /\ 0..((n + 1) - 1) = 0..(n - 1) \cup {n}
  BY SomeStep DEF FollowUpAssumption

-----------------------------------------------------------------------------
(* The steps.                                                              *)

Outgoing == <<outbox, delivered>>

\* Nothing that a step of the sequence depends on moves but the work of w.
LEMMA WorkSet ==
    ASSUME WorkTyped, NEW w \in Workers, NEW r \in {Idle} \cup StartWork \cup StepWork,
           work' = [work EXCEPT ![w] = r]
    PROVE  /\ WorkTyped' /\ work'[w] = r
           /\ \A v \in Workers : v # w => work'[v] = work[v]
  BY DEF WorkTyped

LEMMA EndsWork ==
    ASSUME SeqInv, NEW w \in Workers, work' = [work EXCEPT ![w] = Idle]
    PROVE  /\ WorkTyped' /\ ~Stepping(w)'
           /\ \A v \in Workers : Stepping(v)' => v # w /\ Stepping(v) /\ work'[v] = work[v]
  <1>1. WorkTyped' /\ work'[w] = Idle /\ \A v \in Workers : v # w => work'[v] = work[v]
    BY WorkSet DEF SeqInv
  <1> QED
    BY <1>1 DEF Stepping, Idle

LEMMA ElsewhereStays ==
    ASSUME SeqInv, NEW field \in DOMAIN inquiry \ {"stopped"}, InquiryChanges(field)
    PROVE  SeqInv'
  <1>1. inquiry' \in InquiryType /\ inquiry'.stopped = inquiry.stopped
    BY DEF SeqInv, StateTyped, InquiryChanges, InquiryType
  <1> QED
    BY <1>1 DEF SeqInv, StateTyped, WorkTyped, StepIsNext, TimerForStep, StopIsSeen, Stepping,
                SentOnceInOrder, InquiryChanges

LEMMA TakeStays ==
    ASSUME SeqInv, NEW w \in Workers, Scan(w) \/ TakeStep(w)
    PROVE  SeqInv'
  <1>1. CASE Scan(w)
    <2> DEFINE r == [op |-> "start"]
    <2>1. r \in StartWork
      BY DEF StartWork
    <2>2. work' = [work EXCEPT ![w] = r] /\ UNCHANGED <<inquiry, run, stepTimer, Outgoing>>
      BY <1>1 DEF Scan, Takes, Outgoing
    <2>3. WorkTyped' /\ work'[w] = r /\ \A v \in Workers : v # w => work'[v] = work[v]
      BY <2>1, <2>2, WorkSet DEF SeqInv
    <2>4. \A v \in Workers : Stepping(v)' => Stepping(v) /\ work'[v] = work[v]
      BY <2>3 DEF Stepping
    <2> QED
      BY <2>2, <2>3, <2>4 DEF SeqInv, StateTyped, StepIsNext, TimerForStep, StopIsSeen,
                              SentOnceInOrder, Outgoing
  <1>2. CASE TakeStep(w)
    <2> DEFINE r == [op |-> "step", active |-> run.status = "active", step |-> run.sent,
                     eligible |-> FollowUpEligibility]
    <2>1. r \in StepWork
      <3>1. FollowUpEligibility \in BOOLEAN /\ (run.status = "active") \in BOOLEAN
        BY DEF FollowUpEligibility
      <3>2. run.sent \in 0..Steps
        BY DEF SeqInv, StateTyped, RunType
      <3> QED
        BY <3>1, <3>2 DEF StepWork
    <2>2. work' = [work EXCEPT ![w] = r] /\ UNCHANGED <<inquiry, run, stepTimer, Outgoing>>
      BY <1>2 DEF TakeStep, Takes, Outgoing
    <2>3. /\ r.step = run.sent
          /\ r.active => run.status # "none"
          /\ inquiry.stopped => ~r.eligible
      BY DEF FollowUpEligibility
    <2>4. stepTimer /\ \A v \in Workers : ~Stepping(v)
      BY <1>2 DEF TakeStep, TimerLocked
    <2> HIDE DEF r
    <2>5. WorkTyped' /\ work'[w] = r /\ \A v \in Workers : v # w => work'[v] = work[v]
      BY <2>1, <2>2, WorkSet DEF SeqInv
    <2>6. \A v \in Workers : Stepping(v)' => v = w
      BY <2>4, <2>5 DEF Stepping
    <2>7. StepIsNext' /\ StopIsSeen'
      BY <2>2, <2>3, <2>4, <2>5, <2>6 DEF StepIsNext, StopIsSeen
    <2> QED
      BY <2>2, <2>5, <2>7 DEF SeqInv, StateTyped, TimerForStep, SentOnceInOrder, Outgoing
  <1> QED
    BY <1>1, <1>2

\* A sequence is started once, and with a timer for its first step.
LEMMA StartStays ==
    ASSUME SeqInv, NEW w \in Workers, StartFollowUp(w)
    PROVE  SeqInv'
  <1>1. /\ work' = [work EXCEPT ![w] = Idle] /\ UNCHANGED <<inquiry, Outgoing>>
        /\ run' \in RunType /\ run'.sent = run.sent
        /\ stepTimer' \in BOOLEAN
        /\ stepTimer => stepTimer'
        /\ run.status # "none" => run'.status # "none"
    BY DEF StartFollowUp, Outgoing, SeqInv, StateTyped, RunType
  <1>2. TimerForStep'
    BY SomeStep DEF StartFollowUp, SeqInv, StateTyped, RunType, TimerForStep, FollowUpAssumption
  <1>3. WorkTyped' /\ \A v \in Workers : Stepping(v)' => Stepping(v) /\ work'[v] = work[v]
    BY <1>1, EndsWork
  <1>4. StepIsNext' /\ StopIsSeen'
    BY <1>1, <1>3 DEF SeqInv, StepIsNext, StopIsSeen
  <1> QED
    BY <1>1, <1>2, <1>3, <1>4 DEF SeqInv, StateTyped, SentOnceInOrder, Outgoing

\* A step queues the next message, or none.
LEMMA HandleStays ==
    ASSUME SeqInv, NEW w \in Workers, HandleFollowUpStep(w)
    PROVE  SeqInv'
  <1>1. /\ work' = [work EXCEPT ![w] = Idle] /\ UNCHANGED <<inquiry, delivered>>
        /\ Stepping(w)
    BY DEF HandleFollowUpStep
  <1>2. WorkTyped' /\ \A v \in Workers : ~Stepping(v)'
    BY <1>1, EndsWork DEF SeqInv, StepIsNext
  <1>3. /\ work[w].step = run.sent /\ stepTimer
        /\ work[w].active => run.status # "none"
    BY <1>1 DEF SeqInv, StepIsNext
  <1>4. CASE /\ UNCHANGED outbox /\ stepTimer' = FALSE /\ run'.sent = run.sent /\ run' \in RunType
             /\ run'.status = "none" => run.status = "none"
    BY <1>1, <1>2, <1>3, <1>4
       DEF SeqInv, StateTyped, StepIsNext, TimerForStep, StopIsSeen, SentOnceInOrder
  <1>5. CASE work[w].active /\ SendStep(work[w].step)
    <2> DEFINE n == run.sent
    <2>1. n \in 0..Steps /\ n < Steps /\ run.status # "none"
      BY <1>3, <1>5 DEF SeqInv, StateTyped, RunType, TimerForStep
    <2>2. /\ outbox' = outbox \cup {n} /\ stepTimer' = (n + 1 < Steps)
          /\ run' = [sent |-> n + 1, status |-> IF stepTimer' THEN run.status ELSE "completed"]
      BY <1>3, <1>5 DEF SendStep
    <2>3. run' \in RunType /\ run'.sent = n + 1 /\ run'.status # "none"
      BY <2>1, <2>2, StepNumber DEF SeqInv, StateTyped, RunType
    <2>4. /\ outbox \cup delivered = 0..(n - 1) /\ outbox \cap delivered = {}
      BY DEF SeqInv, SentOnceInOrder
    <2> HIDE DEF n
    <2>5. SentOnceInOrder'
      <3>1. n \notin 0..(n - 1) /\ 0..((n + 1) - 1) = 0..(n - 1) \cup {n}
        BY <2>1, StepNumber
      <3>2. outbox' \cup delivered' = 0..((n + 1) - 1) /\ outbox' \cap delivered' = {}
        BY <1>1, <2>2, <2>4, <3>1
      <3> QED
        BY <2>3, <3>2 DEF SentOnceInOrder
    <2>6. TimerForStep' /\ StateTyped'
      <3>1. stepTimer' \in BOOLEAN
        BY <2>2
      <3>2. stepTimer' => run'.sent < Steps
        BY <2>2, <2>3
      <3> QED
        BY <1>1, <2>3, <3>1, <3>2 DEF TimerForStep, StateTyped, SeqInv
    <2> QED
      BY <1>2, <2>5, <2>6 DEF SeqInv, StepIsNext, StopIsSeen
  <1> QED
    BY <1>1, <1>4, <1>5 DEF HandleFollowUpStep, SeqInv, StateTyped, RunType

LEMMA StopStays ==
    ASSUME SeqInv, NEW p \in Requests, StopFollowUps(p) \/ CancelFollowUps(p) \/ StopLost(p)
    PROVE  SeqInv'
  <1>1. CASE CancelFollowUps(p)
    <2>1. /\ \A v \in Workers : ~Stepping(v)
          /\ stepTimer' = FALSE /\ UNCHANGED <<work, outbox, delivered>>
      BY <1>1 DEF CancelFollowUps, TimerLocked
    <2>2. inquiry' \in InquiryType
      BY <1>1 DEF CancelFollowUps, SeqInv, StateTyped, InquiryType
    <2>3. /\ run' \in RunType /\ run'.sent = run.sent
          /\ run'.status = "none" => run.status = "none"
      BY <1>1 DEF CancelFollowUps, SeqInv, StateTyped, RunType
    <2> QED
      BY <2>1, <2>2, <2>3 DEF SeqInv, StateTyped, WorkTyped, StepIsNext, TimerForStep, StopIsSeen,
                              Stepping, SentOnceInOrder
  <1>2. CASE StopFollowUps(p) \/ StopLost(p)
    BY <1>2 DEF StopFollowUps, StopLost, SeqInv, StateTyped, WorkTyped, StepIsNext, TimerForStep,
                StopIsSeen, Stepping, SentOnceInOrder
  <1> QED
    BY <1>1, <1>2

LEMMA OthersStay ==
    ASSUME SeqInv
    PROVE  /\ \A w \in Workers : HandlerFails(w) => SeqInv'
           /\ \A step \in 0..Steps : Deliver(step) => SeqInv'
           /\ UNCHANGED vars => SeqInv'
  <1>1. ASSUME NEW w \in Workers, HandlerFails(w)
        PROVE  SeqInv'
    <2>1. work' = [work EXCEPT ![w] = Idle] /\ UNCHANGED <<inquiry, run, stepTimer, outbox, delivered>>
      BY <1>1 DEF HandlerFails
    <2>2. WorkTyped' /\ \A v \in Workers : Stepping(v)' => Stepping(v) /\ work'[v] = work[v]
      BY <2>1, EndsWork
    <2> QED
      BY <2>1, <2>2 DEF SeqInv, StateTyped, StepIsNext, TimerForStep, StopIsSeen, SentOnceInOrder
  <1>2. ASSUME NEW step \in 0..Steps, Deliver(step)
        PROVE  SeqInv'
    BY <1>2 DEF Deliver, SeqInv, StateTyped, WorkTyped, StepIsNext, TimerForStep, StopIsSeen,
                Stepping, SentOnceInOrder
  <1>3. ASSUME UNCHANGED vars
        PROVE  SeqInv'
    BY <1>3 DEF vars, SeqInv, StateTyped, WorkTyped, StepIsNext, TimerForStep, StopIsSeen,
                Stepping, SentOnceInOrder
  <1> QED
    BY <1>1, <1>2, <1>3

LEMMA SequenceStays == SeqInv /\ [Next]_vars => SeqInv'
  BY ElsewhereStays, TakeStays, StartStays, HandleStays, StopStays, OthersStay DEF Next

LEMMA SequenceStarts == Init => SeqInv
  <1> SUFFICES ASSUME Init PROVE SeqInv
    OBVIOUS
  <1>1. \A w \in Workers : work[w] = Idle /\ ~Stepping(w)
    BY DEF Init, Stepping, Idle
  <1>2. StateTyped /\ WorkTyped /\ ~inquiry.stopped
    <2>1. run \in RunType
      BY SomeStep DEF Init, RunType, FollowUpAssumption
    <2>2. inquiry \in InquiryType /\ \A f \in DOMAIN inquiry : ~inquiry[f]
      BY DEF Init
    <2>3. ~inquiry.stopped
      BY <2>2 DEF InquiryType
    <2>4. stepTimer \in BOOLEAN /\ WorkTyped
      BY DEF Init, WorkTyped
    <2> QED
      BY <2>1, <2>2, <2>3, <2>4 DEF StateTyped
  <1>3. run.sent = 0 /\ 0..(0 - 1) = {} /\ outbox = {} /\ delivered = {}
    BY DEF Init
  <1> QED
    BY <1>1, <1>2, <1>3, SomeStep
       DEF Init, SeqInv, StepIsNext, TimerForStep, StopIsSeen, SentOnceInOrder, FollowUpAssumption

LEMMA SequenceIsSound == Spec => []SeqInv
  BY SequenceStarts, SequenceStays, PTL DEF Spec

\* Whichever ticks run its steps, and whatever fails and is run again, each
\* message of a follow-up is queued once and in order, and none both waits and
\* has gone out.
THEOREM MessagesGoOutOnce == Spec => []SentOnceInOrder
  <1>1. SeqInv => SentOnceInOrder
    BY DEF SeqInv
  <1> QED
    BY <1>1, SequenceIsSound, PTL

\* Once a STOP has committed no message of the follow-up is queued any more,
\* not by a sequence a scan was starting nor by a step a tick was taking.
THEOREM StopEndsTheSequence == Spec => StopIsHeeded
  <1>1. SeqInv /\ [Next]_vars => [inquiry.stopped => outbox' \subseteq outbox]_vars
    <2> SUFFICES ASSUME SeqInv, Next, inquiry.stopped
                 PROVE  outbox' \subseteq outbox
      OBVIOUS
    <2>1. ASSUME NEW w \in Workers, HandleFollowUpStep(w)
          PROVE  outbox' = outbox
      BY <2>1 DEF HandleFollowUpStep, SeqInv, StopIsSeen
    <2> QED
      BY <2>1 DEF Next, InquiryChanges, Scan, TakeStep, Takes, StartFollowUp, HandlerFails,
                  StopFollowUps, CancelFollowUps, StopLost, Deliver
  <1> QED
    BY <1>1, SequenceIsSound, PTL DEF Spec, StopIsHeeded

-----------------------------------------------------------------------------
(* Task lists.                                                             *)

CONSTANTS Items, DependsOn
VARIABLES job, item, task, worker, cancel

LIST == INSTANCE TaskListRuns WITH run <- job

ListTyped ==
    /\ job \in {"none", "running", "completed", "cancelled"}
    /\ item \in [Items -> {"waiting", "released", "skipped"}]
    /\ task \in [Items -> {"none", "open", "closed"}]
    /\ worker = LIST!Idle \/ worker \in [on : {TRUE}, release : SUBSET Items]
    /\ cancel = LIST!Idle \/ cancel \in [on : {TRUE}, waiting : SUBSET Items]

\* What the worker is to release has no task yet and waits, or was skipped
\* meanwhile; what it depends on is finished and not released with it; and
\* what depends on it has no task.
Prepared(i) ==
    /\ item[i] # "released" /\ task[i] = "none"
    /\ \A d \in DependsOn[i] : LIST!Finished(d) /\ d \notin worker.release
    /\ \A j \in Items : i \in DependsOn[j] => task[j] = "none"

AllDone == \A i \in Items : task[i] = "closed" /\ item[i] # "waiting"

\* Only a cancellation skips, and a run it has ended does not run again.
ListInv ==
    /\ ListTyped /\ LIST!PrerequisitesFirst
    /\ job = "none" => /\ worker = LIST!Idle /\ cancel = LIST!Idle
                       /\ \A i \in Items : item[i] = "waiting"
    /\ job = "running" => \A i \in Items : item[i] # "skipped"
    /\ job = "completed" => worker = LIST!Idle /\ AllDone
    /\ \A i \in Items : item[i] = "waiting" => task[i] = "none"
    /\ worker.on => /\ \A i \in worker.release : Prepared(i)
                    /\ worker.release = {} => AllDone

LEMMA ListShape ==
    ASSUME ListTyped
    PROVE  /\ worker = LIST!Idle <=> ~worker.on
           /\ worker.on => worker.on = TRUE /\ worker.release \subseteq Items
           /\ cancel = LIST!Idle <=> ~cancel.on
           /\ cancel.on => cancel.on = TRUE /\ cancel.waiting \subseteq Items
  <1>1. CASE worker = LIST!Idle /\ cancel = LIST!Idle
    BY <1>1 DEF LIST!Idle
  <1>2. ASSUME NEW w \in [on : {TRUE}, release : SUBSET Items]
        PROVE  w.on = TRUE /\ w.release \subseteq Items /\ w # LIST!Idle
    <2>1. w.on = TRUE /\ w.release \subseteq Items
      OBVIOUS
    <2>2. LIST!Idle.on = FALSE
      BY DEF LIST!Idle
    <2> QED
      BY <2>1, <2>2
  <1>3. ASSUME NEW c \in [on : {TRUE}, waiting : SUBSET Items]
        PROVE  c.on = TRUE /\ c.waiting \subseteq Items /\ c # LIST!Idle
    <2>1. c.on = TRUE /\ c.waiting \subseteq Items
      OBVIOUS
    <2>2. LIST!Idle.on = FALSE
      BY DEF LIST!Idle
    <2> QED
      BY <2>1, <2>2
  <1>4. ~LIST!Idle.on
    BY DEF LIST!Idle
  <1> QED
    BY <1>2, <1>3, <1>4 DEF ListTyped

LEMMA ListStays ==
    ASSUME LIST!TaskListAssumption, ListInv, [LIST!Next]_(LIST!vars)
    PROVE  ListInv'
  <1>0. DependsOn \in [Items -> SUBSET Items]
    BY DEF LIST!TaskListAssumption
  <1>1. CASE LIST!StartRun
    <2> DEFINE first == {i \in Items : DependsOn[i] = {}}
    <2>1. /\ item' = [i \in Items |-> IF i \in first THEN "released" ELSE "waiting"]
          /\ task' = [i \in Items |-> IF i \in first THEN "open" ELSE "none"]
          /\ job = "none" /\ job' = "running" /\ UNCHANGED <<worker, cancel>>
      BY <1>1 DEF LIST!StartRun
    <2>2. ListTyped' /\ ~worker.on
      BY <2>1, ListShape DEF ListInv, ListTyped
    <2>3. LIST!PrerequisitesFirst'
      BY <1>0, <2>1 DEF LIST!PrerequisitesFirst
    <2> QED
      BY <2>1, <2>2, <2>3 DEF ListInv
  <1>2. ASSUME NEW i \in Items, LIST!CloseTask(i) PROVE ListInv'
    <2>1. /\ task[i] = "open" /\ task' = [task EXCEPT ![i] = "closed"]
          /\ UNCHANGED <<job, item, worker, cancel>> /\ ListTyped'
      BY <1>2 DEF LIST!CloseTask, ListInv, ListTyped
    <2>2. \A j \in Items : task'[j] = IF j = i THEN "closed" ELSE task[j]
      BY <2>1 DEF ListInv, ListTyped
    <2>3. LIST!PrerequisitesFirst'
      BY <1>0, <2>1, <2>2 DEF ListInv, LIST!PrerequisitesFirst
    <2>4. \A d \in Items : LIST!Finished(d) => LIST!Finished(d)'
      BY <2>1, <2>2 DEF LIST!Finished
    <2>5. worker.on => \A j \in worker.release : Prepared(j)'
      BY <1>0, <2>1, <2>2, <2>4, ListShape DEF ListInv, Prepared
    <2> QED
      BY <2>1, <2>2, <2>3, <2>5 DEF ListInv, AllDone
  <1>3. CASE LIST!WorkerReads
    <2>1. /\ job = "running" /\ (LIST!ReadyToRelease # {} \/ LIST!RunComplete)
          /\ worker' = [on |-> TRUE, release |-> LIST!ReadyToRelease]
          /\ UNCHANGED <<job, item, task, cancel>>
      BY <1>3 DEF LIST!WorkerReads
    <2>2. worker'.release = LIST!ReadyToRelease /\ ListTyped'
      BY <2>1 DEF ListInv, ListTyped, LIST!ReadyToRelease
    <2>3. ASSUME NEW i \in LIST!ReadyToRelease PROVE Prepared(i)'
      <3>1. /\ i \in Items /\ item[i] = "waiting" /\ task[i] = "none"
            /\ \A d \in DependsOn[i] : LIST!Finished(d) /\ d \in Items
        BY <1>0 DEF LIST!ReadyToRelease, ListInv
      <3>2. \A d \in DependsOn[i] : d \notin LIST!ReadyToRelease
        BY <3>1 DEF LIST!ReadyToRelease, LIST!Finished
      <3>3. \A j \in Items : i \in DependsOn[j] => task[j] = "none"
        BY <3>1 DEF ListInv, LIST!PrerequisitesFirst
      <3> QED
        BY <2>1, <2>2, <3>1, <3>2, <3>3 DEF Prepared, LIST!Finished
    <2>4. LIST!ReadyToRelease = {} => AllDone
      <3> SUFFICES ASSUME LIST!ReadyToRelease = {}, NEW i \in Items
                   PROVE  task[i] = "closed" /\ item[i] # "waiting"
        BY DEF AllDone
      <3>1. LIST!Finished(i) /\ item[i] # "skipped"
        BY <2>1 DEF LIST!RunComplete, ListInv
      <3> QED
        BY <3>1 DEF LIST!Finished
    <2> QED
      <3>1. /\ \A i \in worker'.release : Prepared(i)'
            /\ worker'.release = {} => AllDone'
        BY <2>1, <2>2, <2>3, <2>4 DEF AllDone
      <3>2. LIST!PrerequisitesFirst'
        BY <2>1 DEF ListInv, LIST!PrerequisitesFirst
      <3> QED
        BY <2>1, <2>2, <3>1, <3>2 DEF ListInv
  <1>4. CASE LIST!WorkerWrites
    <2>1. worker.on /\ worker' = LIST!Idle /\ ~worker'.on /\ UNCHANGED cancel
          /\ worker.release \subseteq Items /\ job # "none" /\ job # "completed"
      BY <1>4, ListShape DEF LIST!WorkerWrites, ListInv, LIST!Idle
    <2>2. CASE worker.release # {}
      <3>1. /\ item' = [i \in Items |-> IF i \in worker.release THEN "released" ELSE item[i]]
            /\ task' = [i \in Items |-> IF i \in worker.release THEN "open" ELSE task[i]]
            /\ UNCHANGED job
        BY <1>4, <2>2 DEF LIST!WorkerWrites
      <3>2. ListTyped'
        BY <2>1, <3>1 DEF ListInv, ListTyped
      <3>3. \A i \in worker.release : Prepared(i)
        BY <2>1 DEF ListInv
      <3>4. ASSUME NEW i \in Items, task'[i] # "none", NEW d \in DependsOn[i]
            PROVE  item'[d] = "skipped" \/ task'[d] = "closed"
        <4>1. d \in Items
          BY <1>0
        <4>2. CASE i \in worker.release
          BY <3>1, <3>3, <4>1, <4>2 DEF Prepared, LIST!Finished
        <4>3. CASE i \notin worker.release
          <5>1. task[i] # "none"
            BY <3>1, <3>4, <4>3
          <5>2. d \notin worker.release
            BY <3>3, <5>1 DEF Prepared
          <5> QED
            BY <3>1, <4>1, <5>1, <5>2 DEF ListInv, LIST!PrerequisitesFirst
        <4> QED
          BY <4>2, <4>3
      <3>5. LIST!PrerequisitesFirst'
        BY <3>4 DEF LIST!PrerequisitesFirst
      <3> QED
        BY <2>1, <3>1, <3>2, <3>5 DEF ListInv
    <2>3. CASE worker.release = {}
      <3>1. job' = "completed" /\ UNCHANGED <<item, task>>
        BY <1>4, <2>3 DEF LIST!WorkerWrites
      <3>2. ListTyped'
        BY <2>1, <3>1 DEF ListInv, ListTyped
      <3> QED
        BY <2>1, <2>3, <3>1, <3>2 DEF ListInv, LIST!PrerequisitesFirst, AllDone
    <2> QED
      BY <2>2, <2>3
  <1>5. CASE LIST!CancelReads
    <2>1. job = "running" /\ UNCHANGED <<job, item, task, worker>> /\ ListTyped'
      BY <1>5 DEF LIST!CancelReads, ListInv, ListTyped
    <2> QED
      BY <2>1 DEF ListInv, LIST!PrerequisitesFirst, Prepared, LIST!Finished, AllDone
  <1>6. CASE LIST!CancelWrites
    <2>1. /\ cancel.on /\ cancel.waiting \subseteq Items /\ job' = "cancelled"
          /\ item' = [i \in Items |-> IF i \in cancel.waiting THEN "skipped" ELSE item[i]]
          /\ task' = [i \in Items |-> IF i \notin cancel.waiting /\ task[i] = "open"
                                      THEN "closed" ELSE task[i]]
          /\ cancel' = LIST!Idle /\ UNCHANGED worker
      BY <1>6, ListShape DEF LIST!CancelWrites, ListInv
    <2>2. ListTyped'
      BY <2>1 DEF ListInv, ListTyped
    <2>3. LIST!PrerequisitesFirst'
      BY <1>0, <2>1 DEF ListInv, ListTyped, LIST!PrerequisitesFirst
    <2>4. \A d \in Items : LIST!Finished(d) => LIST!Finished(d)'
      BY <2>1 DEF LIST!Finished
    <2>5. worker.on => \A j \in worker.release : Prepared(j)'
      <3> SUFFICES ASSUME worker.on, NEW j \in worker.release PROVE Prepared(j)'
        OBVIOUS
      <3>1. j \in Items /\ Prepared(j) /\ DependsOn[j] \subseteq Items
        BY <1>0, ListShape DEF ListInv
      <3>2. item'[j] # "released" /\ task'[j] = "none"
        BY <2>1, <3>1 DEF Prepared
      <3>3. \A k \in Items : j \in DependsOn[k] => task'[k] = "none"
        BY <2>1, <3>1 DEF Prepared
      <3> QED
        BY <2>1, <2>4, <3>1, <3>2, <3>3 DEF Prepared
    <2>6. AllDone => AllDone'
      BY <2>1 DEF AllDone
    <2> QED
      BY <2>1, <2>2, <2>3, <2>5, <2>6 DEF ListInv
  <1>7. CASE UNCHANGED LIST!vars
    BY ZenonT(30), <1>7 DEF LIST!vars, ListInv, ListTyped, LIST!PrerequisitesFirst, Prepared, LIST!Finished, AllDone
  <1> QED
    BY <1>1, <1>2, <1>3, <1>4, <1>5, <1>6, <1>7 DEF LIST!Next

\* Whatever the worker and a cancellation do to each other, nobody is given a
\* task whose prerequisites are still open, and a run that counts as completed
\* left nothing undone.
THEOREM TaskListsKeepTheirOrder ==
    ASSUME LIST!TaskListAssumption
    PROVE  LIST!Spec => [](LIST!PrerequisitesFirst /\ LIST!CompletedIsFinished)
  <1>1. LIST!Init => ListInv
    BY DEF LIST!Init, ListInv, ListTyped, LIST!Idle, LIST!PrerequisitesFirst
  <1>2. ListInv /\ [LIST!Next]_(LIST!vars) => ListInv'
    BY ListStays
  <1>3. ListInv => LIST!PrerequisitesFirst /\ LIST!CompletedIsFinished
    BY DEF ListInv, LIST!CompletedIsFinished, AllDone
  <1> QED
    BY <1>1, <1>2, <1>3, PTL DEF LIST!Spec

-----------------------------------------------------------------------------
(* The reply clock.                                                        *)

CONSTANTS Writers, Calendar, FlagAfter, PromiseAfter, LastHour, MaxClocks
VARIABLES clocks, waiting, hour, writer, sweep

REPLY == INSTANCE ReplyClock

MessageWriter == [op : {"message"}, clock : Nat, locks : BOOLEAN, tier : REPLY!Tiers, immediate : BOOLEAN]
ReplyWriter == [op : {"reply"}, clock : Nat, locks : BOOLEAN]
RetagWriter == [op : {"retag"}, clock : Nat, locks : BOOLEAN, tier : REPLY!Tiers]
CloseWriter == [op : {"close"}, clock : Nat, locks : {FALSE}]
WriterType == {REPLY!NoOne} \cup MessageWriter \cup ReplyWriter \cup RetagWriter \cup CloseWriter
SweepType == [on : BOOLEAN, clock : Nat, alert : Nat]

\* No flag is open about a clock that was stopped.
Quiet(c) == c.status # "open" => ~c.overdue /\ c.urgent \notin REPLY!OpenAlert

\* Who locks a clock has the open one, and has it alone.
LocksHold(w) ==
    /\ w.clock \in 0..Len(clocks)
    /\ w.locks => w.clock # 0 /\ REPLY!IsOpen(w.clock) /\ sweep.clock # w.clock
    /\ w.op \in {"message", "reply"} => (w.locks <=> w.clock # 0)
    /\ w.op = "retag" => w.locks
    /\ w.op = "close" => w.clock # 0

LocksApart ==
    \A p, q \in Writers : writer[p].locks /\ writer[q].locks /\ writer[p].clock = writer[q].clock => p = q

ReplyInv ==
    /\ clocks \in Seq(REPLY!ClockType) /\ hour \in 0..LastHour /\ waiting \in BOOLEAN
    /\ writer \in [Writers -> WriterType] /\ sweep \in SweepType
    /\ \A k \in DOMAIN clocks : Quiet(clocks[k])
    /\ REPLY!UnansweredIsOnAClock
    /\ \A p \in Writers : LocksHold(writer[p])
    /\ LocksApart
    /\ sweep.clock \in 0..Len(clocks) /\ sweep.alert \in 0..Len(clocks)
    /\ sweep.clock # 0 => REPLY!IsOpen(sweep.clock)

LEMMA WriterByOperation ==
    ASSUME NEW w \in WriterType
    PROVE  /\ w.op = "message" => w \in MessageWriter
           /\ w.op = "reply" => w \in ReplyWriter
           /\ w.op = "retag" => w \in RetagWriter
           /\ w.op = "close" => w \in CloseWriter
           /\ w.op \in {"none", "message", "reply", "retag", "close"}
           /\ w.clock \in Nat /\ w.locks \in BOOLEAN
  <1>1. CASE w \in MessageWriter
    <2>1. w.op = "message" /\ w.clock \in Nat /\ w.locks \in BOOLEAN
      BY <1>1 DEF MessageWriter
    <2> QED
      BY <1>1, <2>1
  <1>2. CASE w \in ReplyWriter
    <2>1. w.op = "reply" /\ w.clock \in Nat /\ w.locks \in BOOLEAN
      BY <1>2 DEF ReplyWriter
    <2> QED
      BY <1>2, <2>1
  <1>3. CASE w \in RetagWriter
    <2>1. w.op = "retag" /\ w.clock \in Nat /\ w.locks \in BOOLEAN
      BY <1>3 DEF RetagWriter
    <2> QED
      BY <1>3, <2>1
  <1>4. CASE w \in CloseWriter
    <2>1. w.op = "close" /\ w.clock \in Nat /\ w.locks \in BOOLEAN
      BY <1>4 DEF CloseWriter
    <2> QED
      BY <1>4, <2>1
  <1>5. CASE w = REPLY!NoOne
    <2>1. w.op = "none" /\ w.clock = 0 /\ w.locks = FALSE
      BY <1>5 DEF REPLY!NoOne
    <2>2. w.clock \in Nat
      BY <2>1
    <2>3. w.locks \in BOOLEAN
      BY <2>1, Zenon
    <2> QED
      BY <2>1, <2>2, <2>3
  <1> QED
    BY <1>1, <1>2, <1>3, <1>4, <1>5 DEF WriterType

LEMMA NoOneWrites == REPLY!NoOne \in WriterType /\ ~REPLY!NoOne.locks /\ LocksHold(REPLY!NoOne)
  <1>1. /\ REPLY!NoOne.op = "none" /\ REPLY!NoOne.clock = 0 /\ REPLY!NoOne.locks = FALSE
    BY DEF REPLY!NoOne
  <1>2. Len(clocks) \in Nat => 0 \in 0..Len(clocks)
    OBVIOUS
  <1> QED
    BY <1>1, <1>2 DEF WriterType, LocksHold

\* The open clock, when there is one.
LEMMA OpenClockFound ==
    ASSUME clocks \in Seq(REPLY!ClockType)
    PROVE  /\ REPLY!TheOpenClock \in 0..Len(clocks)
           /\ REPLY!TheOpenClock # 0 => REPLY!TheOpenClock \in DOMAIN clocks /\ REPLY!IsOpen(REPLY!TheOpenClock)
           /\ (\E k \in DOMAIN clocks : REPLY!IsOpen(k)) => REPLY!TheOpenClock # 0
  <1>1. \A k \in DOMAIN clocks : k \in 0..Len(clocks) /\ k # 0
    OBVIOUS
  <1>2. CASE \E k \in DOMAIN clocks : REPLY!IsOpen(k)
    <2>1. REPLY!TheOpenClock = CHOOSE k \in DOMAIN clocks : REPLY!IsOpen(k)
      BY <1>2 DEF REPLY!TheOpenClock
    <2>2. REPLY!TheOpenClock \in DOMAIN clocks /\ REPLY!IsOpen(REPLY!TheOpenClock)
      BY <1>2, <2>1
    <2> QED
      BY <1>1, <2>2
  <1>3. CASE ~\E k \in DOMAIN clocks : REPLY!IsOpen(k)
    <2>1. REPLY!TheOpenClock = 0
      BY <1>3 DEF REPLY!TheOpenClock
    <2> QED
      BY <1>3, <2>1
  <1> QED
    BY <1>2, <1>3

-----------------------------------------------------------------------------
(* What a handler makes of one clock.                                      *)

LEMMA FlagsResolvedEffect ==
    ASSUME NEW c \in REPLY!ClockType, NEW d, d = REPLY!FlagsResolved(c)
    PROVE  d \in REPLY!ClockType /\ d.status = c.status /\ Quiet(d)
  <1> DEFINE u == IF c.urgent \in REPLY!OpenAlert THEN "resolved" ELSE c.urgent
  <1>1. u \in REPLY!AlertStates /\ u \notin REPLY!OpenAlert
    BY DEF REPLY!OpenAlert, REPLY!AlertStates, REPLY!ClockType
  <1>2. d = [c EXCEPT !.overdue = FALSE, !.urgent = u]
    BY DEF REPLY!FlagsResolved, REPLY!ClockType
  <1> HIDE DEF u
  <1>3. d \in REPLY!ClockType /\ d.status = c.status /\ d.overdue = FALSE /\ d.urgent = u
    BY <1>1, <1>2 DEF REPLY!ClockType
  <1> QED
    BY <1>1, <1>3 DEF Quiet

LEMMA AlertedEffect ==
    ASSUME NEW c \in REPLY!ClockType, c.status = "open", NEW immediate, NEW d, d = REPLY!Alerted(c, immediate)
    PROVE  d \in REPLY!ClockType /\ d.status = "open"
  BY DEF REPLY!Alerted, REPLY!ClockType, REPLY!AlertStates

LEMMA PlannedEffect ==
    ASSUME NEW c \in REPLY!ClockType, NEW tier \in REPLY!Tiers, NEW d, d = REPLY!Planned(c, tier)
    PROVE  d \in REPLY!ClockType /\ d.status = c.status
  <1>1. PICK f, m : f = REPLY!DueAt(c.start, FlagAfter[tier]) /\ m = REPLY!DueAt(c.start, PromiseAfter[tier])
    OBVIOUS
  <1>2. f \in REPLY!DueHours /\ m \in REPLY!DueHours
    BY <1>1 DEF REPLY!DueAt, REPLY!DueHours
  <1>3. d = [c EXCEPT !.tier = tier, !.flagAt = f, !.promiseAt = m]
    BY <1>1 DEF REPLY!Planned
  <1> QED
    BY <1>2, <1>3 DEF REPLY!ClockType

LEMMA UpgradedEffect ==
    ASSUME NEW c \in REPLY!ClockType, c.status = "open", NEW tier, NEW d, d = REPLY!Upgraded(c, tier)
    PROVE  d \in REPLY!ClockType /\ d.status = "open"
  <1>1. CASE tier = "deadline"
    <2> PICK e : e = REPLY!Planned(c, tier)
      OBVIOUS
    <2>1. e \in REPLY!ClockType /\ e.status = "open"
      BY <1>1, PlannedEffect DEF REPLY!Tiers
    <2>2. d = c \/ d = REPLY!FlagsResolved(e)
      BY DEF REPLY!Upgraded
    <2> QED
      BY <2>1, <2>2, FlagsResolvedEffect
  <1>2. CASE tier # "deadline"
    BY <1>2 DEF REPLY!Upgraded
  <1> QED
    BY <1>1, <1>2

LEMMA StopClockEffect ==
    ASSUME NEW c \in REPLY!ClockType, NEW status \in {"replied", "closed"}, NEW d, d = REPLY!StopClock(c, status)
    PROVE  d \in REPLY!ClockType /\ d.status = status /\ Quiet(d)
  <1> PICK e : e = [c EXCEPT !.status = status]
    OBVIOUS
  <1>1. e \in REPLY!ClockType /\ e.status = status
    BY DEF REPLY!ClockType
  <1>2. d = REPLY!FlagsResolved(e)
    BY DEF REPLY!StopClock
  <1> QED
    BY <1>1, <1>2, FlagsResolvedEffect

-----------------------------------------------------------------------------
(* A request of the thread reads, and ends.                                *)

LEMMA WriterReads ==
    ASSUME ReplyInv, NEW p \in Writers, NEW w \in WriterType, LocksHold(w),
           w.locks => \A q \in Writers : writer[q].locks => writer[q].clock # w.clock,
           writer' = [writer EXCEPT ![p] = w], UNCHANGED <<clocks, waiting, hour, sweep>>
    PROVE  ReplyInv'
  <1>1. \A q \in Writers : writer'[q] = IF q = p THEN w ELSE writer[q]
    BY DEF ReplyInv
  <1>2. writer' \in [Writers -> WriterType] /\ LocksApart'
    BY <1>1 DEF ReplyInv, LocksApart
  <1>3. ASSUME NEW q \in Writers PROVE LocksHold(writer[q])'
    <2>1. LocksHold(writer'[q])
      BY <1>1 DEF ReplyInv
    <2> QED
      BY <2>1 DEF LocksHold, REPLY!IsOpen
  <1> QED
    BY <1>2, <1>3 DEF ReplyInv, REPLY!UnansweredIsOnAClock, REPLY!TheOpenClock, REPLY!IsOpen

\* With the clock that is open locked by nobody else, if there is one.
LEMMA LockingReads ==
    ASSUME ReplyInv, NEW p \in Writers, NEW r,
           r.clock = 0, r.locks = FALSE, REPLY!LockingRead(p, r),
           r \in MessageWriter \cup ReplyWriter \/ (r \in RetagWriter /\ REPLY!TheOpenClock # 0)
    PROVE  ReplyInv'
  <1> DEFINE k == REPLY!TheOpenClock
             w == [r EXCEPT !.clock = k, !.locks = (k # 0)]
  <1>1. /\ k # 0 => ~REPLY!Locked(k)
        /\ writer' = [writer EXCEPT ![p] = w] /\ UNCHANGED <<clocks, waiting, hour, sweep>>
    BY DEF REPLY!LockingRead, REPLY!Read
  <1>2. k \in 0..Len(clocks) /\ k \in Nat /\ (k # 0 => REPLY!IsOpen(k))
    BY OpenClockFound DEF ReplyInv
  <1> HIDE DEF k
  <1>3. w \in WriterType /\ w.clock = k /\ w.locks = (k # 0) /\ w.op = r.op
    BY <1>2 DEF WriterType, MessageWriter, ReplyWriter, RetagWriter
  <1>4. r.op \in {"message", "reply"} \/ (r.op = "retag" /\ k # 0)
    BY DEF MessageWriter, ReplyWriter, RetagWriter, k
  <1> HIDE DEF w
  <1>5. k # 0 => sweep.clock # k /\ \A q \in Writers : writer[q].locks => writer[q].clock # k
    BY <1>1 DEF REPLY!Locked
  <1>6. LocksHold(w)
    BY <1>2, <1>3, <1>4, <1>5 DEF LocksHold
  <1> QED
    BY <1>1, <1>3, <1>5, <1>6, WriterReads

\* No clock is stopped that somebody other than p has locked.
LockedStaysOpen(p) ==
    \A k \in DOMAIN clocks : REPLY!IsOpen(k) =>
        \/ clocks'[k].status = "open"
        \/ sweep.clock # k /\ \A q \in Writers \ {p} : writer[q].locks => writer[q].clock # k

LEMMA ClocksChange ==
    ASSUME ReplyInv, clocks' \in Seq(REPLY!ClockType), Len(clocks) <= Len(clocks'),
           \A k \in DOMAIN clocks' : Quiet(clocks'[k]),
           hour' = hour, sweep' = sweep, waiting' \in BOOLEAN, REPLY!UnansweredIsOnAClock',
           NEW p \in Writers, writer' = [writer EXCEPT ![p] = REPLY!NoOne],
           LockedStaysOpen(p)
    PROVE  ReplyInv'
  <1>1. \A q \in Writers : writer'[q] = IF q = p THEN REPLY!NoOne ELSE writer[q]
    BY DEF ReplyInv
  <1>2. writer' \in [Writers -> WriterType] /\ LocksApart'
    BY <1>1, NoOneWrites DEF ReplyInv, LocksApart
  <1>3. \A k \in 0..Len(clocks) : k \in 0..Len(clocks') /\ (k # 0 => k \in DOMAIN clocks)
    BY DEF ReplyInv
  <1>4. ASSUME NEW q \in Writers PROVE LocksHold(writer[q])'
    <2>1. CASE q = p
      <3>1. writer'[q] = REPLY!NoOne
        BY <1>1, <2>1
      <3>2. REPLY!NoOne.op = "none" /\ REPLY!NoOne.clock = 0 /\ REPLY!NoOne.locks = FALSE
        BY DEF REPLY!NoOne
      <3>3. 0 \in 0..Len(clocks')
        BY <1>3 DEF ReplyInv
      <3> QED
        BY <3>1, <3>2, <3>3 DEF LocksHold
    <2>2. CASE q # p
      <3> PICK w : w = writer[q]
        OBVIOUS
      <3>1. writer'[q] = w /\ LocksHold(w)
        BY <1>1, <2>2 DEF ReplyInv
      <3>2. w.clock \in 0..Len(clocks')
        BY <1>3, <3>1 DEF LocksHold
      <3>3. w.locks => clocks'[w.clock].status = "open"
        BY <1>3, <2>2, <3>1 DEF LocksHold, LockedStaysOpen
      <3> QED
        BY <3>1, <3>2, <3>3 DEF LocksHold, REPLY!IsOpen
    <2> QED
      BY <2>1, <2>2
  <1>5. sweep'.clock \in 0..Len(clocks') /\ sweep'.alert \in 0..Len(clocks')
    BY <1>3 DEF ReplyInv
  <1>6. sweep'.clock # 0 => clocks'[sweep'.clock].status = "open"
    BY <1>3 DEF ReplyInv, LockedStaysOpen
  <1> QED
    BY <1>2, <1>4, <1>5, <1>6 DEF ReplyInv, REPLY!IsOpen

\* One clock changes.
LEMMA OneClockChanges ==
    ASSUME ReplyInv, NEW k \in DOMAIN clocks, NEW t \in REPLY!ClockType, Quiet(t),
           clocks' = [clocks EXCEPT ![k] = t]
    PROVE  /\ clocks' \in Seq(REPLY!ClockType) /\ Len(clocks) <= Len(clocks') /\ DOMAIN clocks' = DOMAIN clocks
           /\ \A j \in DOMAIN clocks : clocks'[j] = IF j = k THEN t ELSE clocks[j]
           /\ \A j \in DOMAIN clocks' : Quiet(clocks'[j])
           /\ t.status = "open" => REPLY!TheOpenClock' # 0
  <1>1. clocks \in Seq(REPLY!ClockType)
    BY DEF ReplyInv
  <1>2. /\ clocks' \in Seq(REPLY!ClockType) /\ Len(clocks) <= Len(clocks') /\ DOMAIN clocks' = DOMAIN clocks
        /\ \A j \in DOMAIN clocks : clocks'[j] = IF j = k THEN t ELSE clocks[j]
    BY <1>1
  <1>3. \A j \in DOMAIN clocks' : Quiet(clocks'[j])
    BY <1>2 DEF ReplyInv
  <1>4. ASSUME t.status = "open" PROVE REPLY!TheOpenClock' # 0
    <2>1. \E j \in DOMAIN clocks' : REPLY!IsOpen(j)'
      BY <1>2, <1>4 DEF REPLY!IsOpen
    <2>2. \A j \in DOMAIN clocks' : j # 0
      BY <1>2
    <2> QED
      BY <2>1, <2>2 DEF REPLY!TheOpenClock
  <1> QED
    BY <1>2, <1>3, <1>4

LEMMA WriterCommits ==
    ASSUME ReplyInv, NEW p \in Writers,
           \/ REPLY!JoinClock(p) \/ REPLY!StartClock(p) \/ REPLY!RequestFails(p)
           \/ REPLY!Reply(p) \/ REPLY!CloseClock(p) \/ REPLY!ChangeClockTier(p)
    PROVE  ReplyInv'
  <1> PICK w : w = writer[p]
    OBVIOUS
  <1>0. /\ clocks \in Seq(REPLY!ClockType) /\ w \in WriterType /\ LocksHold(w) /\ Len(clocks) \in Nat
        /\ \A q \in Writers \ {p} : w.locks /\ writer[q].locks => writer[q].clock # w.clock
        /\ \A k \in DOMAIN clocks : clocks[k] \in REPLY!ClockType /\ Quiet(clocks[k])
    BY DEF ReplyInv, LocksApart
  <1>1. CASE REPLY!JoinClock(p)
    <2> DEFINE k == w.clock
    <2>1. /\ w.op = "message" /\ k # 0
          /\ clocks' = [clocks EXCEPT ![k] = REPLY!Alerted(REPLY!Upgraded(@, w.tier), w.immediate)]
          /\ waiting' = TRUE /\ writer' = [writer EXCEPT ![p] = REPLY!NoOne] /\ hour' = hour /\ sweep' = sweep
      BY <1>1 DEF REPLY!JoinClock, REPLY!Done
    <2>2. k \in DOMAIN clocks /\ REPLY!IsOpen(k)
      BY <1>0, <2>1 DEF LocksHold
    <2> PICK up : up = REPLY!Upgraded(clocks[k], w.tier)
      OBVIOUS
    <2> PICK t : t = REPLY!Alerted(up, w.immediate)
      OBVIOUS
    <2>3. up \in REPLY!ClockType /\ up.status = "open"
      BY <1>0, <2>2, UpgradedEffect DEF REPLY!IsOpen
    <2>4. t \in REPLY!ClockType /\ t.status = "open" /\ Quiet(t)
      BY <2>3, AlertedEffect DEF Quiet
    <2>5. clocks' = [clocks EXCEPT ![k] = t]
      BY <2>1, <2>2
    <2> HIDE DEF k
    <2>6. /\ clocks' \in Seq(REPLY!ClockType) /\ Len(clocks) <= Len(clocks')
          /\ \A j \in DOMAIN clocks : clocks'[j] = IF j = k THEN t ELSE clocks[j]
          /\ \A j \in DOMAIN clocks' : Quiet(clocks'[j])
          /\ REPLY!TheOpenClock' # 0
      BY <2>2, <2>4, <2>5, OneClockChanges
    <2>7. LockedStaysOpen(p)
      BY <2>4, <2>6 DEF LockedStaysOpen, REPLY!IsOpen
    <2>8. waiting' \in BOOLEAN /\ REPLY!UnansweredIsOnAClock'
      BY <2>1, <2>6 DEF REPLY!UnansweredIsOnAClock
    <2> QED
      BY <2>1, <2>6, <2>7, <2>8, ClocksChange
  <1>2. CASE REPLY!StartClock(p)
    <2> PICK begun : begun = [tier |-> "standard", start |-> hour, flagAt |-> hour, promiseAt |-> hour,
                              status |-> "open", flagged |-> FALSE, missed |-> FALSE, overdue |-> FALSE,
                              urgent |-> "none"]
      OBVIOUS
    <2> PICK fresh : fresh = REPLY!Planned(begun, w.tier)
      OBVIOUS
    <2> PICK t : t = REPLY!Alerted(fresh, w.immediate)
      OBVIOUS
    <2>1. /\ w.op = "message" /\ clocks' = Append(clocks, t)
          /\ waiting' = TRUE /\ writer' = [writer EXCEPT ![p] = REPLY!NoOne] /\ hour' = hour /\ sweep' = sweep
      BY <1>2 DEF REPLY!StartClock, REPLY!Done
    <2>2. fresh \in REPLY!ClockType /\ fresh.status = "open"
      <3>1. w.tier \in REPLY!Tiers
        BY <1>0, <2>1, WriterByOperation DEF MessageWriter
      <3>2. begun \in REPLY!ClockType /\ begun.status = "open"
        BY DEF REPLY!ClockType, REPLY!AlertStates, REPLY!Tiers, REPLY!DueHours, ReplyInv
      <3> QED
        BY <3>1, <3>2, PlannedEffect
    <2>3. t \in REPLY!ClockType /\ t.status = "open" /\ Quiet(t)
      BY <2>2, AlertedEffect DEF Quiet
    <2> DEFINE n == Len(clocks) + 1
    <2>4. /\ clocks' \in Seq(REPLY!ClockType) /\ DOMAIN clocks' = 1..n /\ Len(clocks) <= Len(clocks')
          /\ DOMAIN clocks = 1..(n - 1) /\ n \in Nat \ {0} /\ clocks'[n] = t
          /\ \A j \in DOMAIN clocks : clocks'[j] = clocks[j]
      BY <1>0, <2>1, <2>3
    <2> HIDE DEF n
    <2>5. \A j \in DOMAIN clocks' : Quiet(clocks'[j]) /\ j # 0
      <3>1. \A j \in DOMAIN clocks' : j # 0 /\ (j = n \/ j \in DOMAIN clocks)
        BY <2>4
      <3> QED
        BY <1>0, <2>3, <2>4, <3>1
    <2>6. REPLY!TheOpenClock' # 0
      <3>1. \E j \in DOMAIN clocks' : REPLY!IsOpen(j)'
        <4>1. n \in DOMAIN clocks' /\ clocks'[n].status = "open"
          BY <2>3, <2>4
        <4> QED
          BY <4>1 DEF REPLY!IsOpen
      <3> QED
        BY <2>5, <3>1 DEF REPLY!TheOpenClock
    <2>7. LockedStaysOpen(p)
      BY <2>4 DEF LockedStaysOpen, REPLY!IsOpen
    <2>8. waiting' \in BOOLEAN /\ REPLY!UnansweredIsOnAClock'
      BY <2>1, <2>6 DEF REPLY!UnansweredIsOnAClock
    <2> QED
      BY ZenonT(30), <2>1, <2>4, <2>5, <2>7, <2>8, ClocksChange
  <1>3. CASE REPLY!RequestFails(p)
    <2>1. /\ writer' = [writer EXCEPT ![p] = REPLY!NoOne] /\ UNCHANGED <<clocks, waiting, hour, sweep>>
      BY <1>3 DEF REPLY!RequestFails, REPLY!Done
    <2> QED
      BY <2>1, NoOneWrites, WriterReads
  <1>4. CASE REPLY!Reply(p)
    <2> DEFINE k == w.clock
    <2>1. /\ w.op = "reply"
          /\ clocks' = IF k = 0 THEN clocks ELSE [clocks EXCEPT ![k] = REPLY!StopClock(@, "replied")]
          /\ waiting' = FALSE /\ writer' = [writer EXCEPT ![p] = REPLY!NoOne] /\ hour' = hour /\ sweep' = sweep
      BY <1>4 DEF REPLY!Reply, REPLY!Done
    <2>2. waiting' \in BOOLEAN /\ REPLY!UnansweredIsOnAClock'
      BY <2>1 DEF REPLY!UnansweredIsOnAClock
    <2>3. CASE k = 0
      <3>1. clocks' = clocks
        BY <2>1, <2>3
      <3>2. LockedStaysOpen(p)
        BY <3>1 DEF LockedStaysOpen, REPLY!IsOpen
      <3>3. /\ clocks' \in Seq(REPLY!ClockType) /\ Len(clocks) <= Len(clocks')
            /\ \A j \in DOMAIN clocks' : Quiet(clocks'[j])
        BY <1>0, <3>1
      <3> QED
        BY <2>1, <2>2, <3>2, <3>3, ClocksChange
    <2>4. CASE k # 0
      <3>1. k \in DOMAIN clocks /\ w.locks /\ sweep.clock # k
        BY <1>0, <2>1, <2>4 DEF LocksHold
      <3> PICK t : t = REPLY!StopClock(clocks[k], "replied")
        OBVIOUS
      <3>2. t \in REPLY!ClockType /\ Quiet(t)
        BY <1>0, <3>1, StopClockEffect
      <3>3. clocks' = [clocks EXCEPT ![k] = t]
        BY <2>1, <2>4, <3>1
      <3>4. \A q \in Writers \ {p} : writer[q].locks => writer[q].clock # k
        BY <1>0, <3>1
      <3> HIDE DEF k
      <3>5. /\ clocks' \in Seq(REPLY!ClockType) /\ Len(clocks) <= Len(clocks')
            /\ \A j \in DOMAIN clocks : clocks'[j] = IF j = k THEN t ELSE clocks[j]
            /\ \A j \in DOMAIN clocks' : Quiet(clocks'[j])
        BY <3>1, <3>2, <3>3, OneClockChanges
      <3>6. LockedStaysOpen(p)
        BY <3>1, <3>4, <3>5 DEF LockedStaysOpen, REPLY!IsOpen
      <3> QED
        BY <2>1, <2>2, <3>5, <3>6, ClocksChange
    <2> QED
      BY <2>3, <2>4
  <1>5. CASE REPLY!CloseClock(p)
    <2> DEFINE k == w.clock
    <2>1. /\ w.op = "close" /\ ~REPLY!Locked(k)
          /\ clocks' = [clocks EXCEPT ![k] = REPLY!StopClock(@, "closed")]
          /\ waiting' = (waiting /\ REPLY!TheOpenClock \notin {0, k})
          /\ writer' = [writer EXCEPT ![p] = REPLY!NoOne] /\ hour' = hour /\ sweep' = sweep
      BY <1>5 DEF REPLY!CloseClock, REPLY!Done
    <2>2. k \in DOMAIN clocks
      BY <1>0, <2>1 DEF LocksHold
    <2> PICK t : t = REPLY!StopClock(clocks[k], "closed")
      OBVIOUS
    <2>3. t \in REPLY!ClockType /\ Quiet(t)
      BY <1>0, <2>2, StopClockEffect
    <2>4. clocks' = [clocks EXCEPT ![k] = t]
      BY <2>1, <2>2
    <2>5. sweep.clock # k /\ \A q \in Writers : writer[q].locks => writer[q].clock # k
      BY <2>1 DEF REPLY!Locked
    <2> HIDE DEF k
    <2>6. /\ clocks' \in Seq(REPLY!ClockType) /\ Len(clocks) <= Len(clocks') /\ DOMAIN clocks' = DOMAIN clocks
          /\ \A j \in DOMAIN clocks : clocks'[j] = IF j = k THEN t ELSE clocks[j]
          /\ \A j \in DOMAIN clocks' : Quiet(clocks'[j])
      BY <2>2, <2>3, <2>4, OneClockChanges
    <2>7. waiting' => REPLY!TheOpenClock' # 0
      <3> SUFFICES ASSUME REPLY!TheOpenClock \notin {0, k} PROVE REPLY!TheOpenClock' # 0
        BY <2>1
      <3> PICK o : o = REPLY!TheOpenClock
        OBVIOUS
      <3>1. o \in DOMAIN clocks /\ REPLY!IsOpen(o) /\ o # k
        BY <1>0, OpenClockFound
      <3>2. o \in DOMAIN clocks' /\ REPLY!IsOpen(o)'
        BY <2>6, <3>1 DEF REPLY!IsOpen
      <3>3. \A j \in DOMAIN clocks' : j # 0
        BY <2>6
      <3> QED
        BY <3>2, <3>3 DEF REPLY!TheOpenClock
    <2>8. LockedStaysOpen(p)
      BY <2>5, <2>6 DEF LockedStaysOpen, REPLY!IsOpen
    <2>9. waiting' \in BOOLEAN /\ REPLY!UnansweredIsOnAClock'
      BY <2>1, <2>7 DEF REPLY!UnansweredIsOnAClock
    <2> QED
      BY <2>1, <2>6, <2>8, <2>9, ClocksChange
  <1>6. CASE REPLY!ChangeClockTier(p)
    <2> DEFINE k == w.clock
    <2>1. /\ w.op = "retag"
          /\ clocks' = [clocks EXCEPT ![k] = REPLY!FlagsResolved(REPLY!Planned(@, w.tier))]
          /\ waiting' = waiting /\ hour' = hour /\ sweep' = sweep /\ writer' = [writer EXCEPT ![p] = REPLY!NoOne]
      BY <1>6 DEF REPLY!ChangeClockTier, REPLY!Done
    <2>2. k \in DOMAIN clocks /\ REPLY!IsOpen(k)
      BY <1>0, <2>1 DEF LocksHold
    <2> PICK up : up = REPLY!Planned(clocks[k], w.tier)
      OBVIOUS
    <2> PICK t : t = REPLY!FlagsResolved(up)
      OBVIOUS
    <2>3. up \in REPLY!ClockType /\ up.status = "open"
      <3>1. w.tier \in REPLY!Tiers
        BY <1>0, <2>1, WriterByOperation DEF RetagWriter
      <3>2. clocks[k] \in REPLY!ClockType /\ clocks[k].status = "open"
        BY <1>0, <2>2 DEF REPLY!IsOpen
      <3> QED
        BY <3>1, <3>2, PlannedEffect
    <2>4. t \in REPLY!ClockType /\ t.status = "open" /\ Quiet(t)
      BY <2>3, FlagsResolvedEffect
    <2>5. clocks' = [clocks EXCEPT ![k] = t]
      BY <2>1, <2>2
    <2> HIDE DEF k
    <2>6. /\ clocks' \in Seq(REPLY!ClockType) /\ Len(clocks) <= Len(clocks')
          /\ \A j \in DOMAIN clocks : clocks'[j] = IF j = k THEN t ELSE clocks[j]
          /\ \A j \in DOMAIN clocks' : Quiet(clocks'[j])
          /\ REPLY!TheOpenClock' # 0
      BY <2>2, <2>4, <2>5, OneClockChanges
    <2>7. LockedStaysOpen(p)
      BY <2>4, <2>6 DEF LockedStaysOpen, REPLY!IsOpen
    <2>8. waiting' \in BOOLEAN /\ REPLY!UnansweredIsOnAClock'
      BY <2>1, <2>6 DEF ReplyInv, REPLY!UnansweredIsOnAClock
    <2> QED
      BY <2>1, <2>6, <2>7, <2>8, ClocksChange
  <1> QED
    BY <1>1, <1>2, <1>3, <1>4, <1>5, <1>6

\* Clocks are marked and stay as they were, open or stopped; nobody else moves.
LEMMA ClockIsMarked ==
    ASSUME ReplyInv, clocks' \in Seq(REPLY!ClockType), DOMAIN clocks' = DOMAIN clocks,
           Len(clocks') = Len(clocks),
           \A k \in DOMAIN clocks : clocks'[k].status = clocks[k].status /\ Quiet(clocks'[k]),
           waiting' = waiting, hour' = hour, writer' = writer,
           sweep' \in SweepType, sweep'.clock \in {0, sweep.clock}, sweep'.alert \in {0, sweep.alert}
    PROVE  ReplyInv'
  <1>1. clocks \in Seq(REPLY!ClockType) /\ Len(clocks) \in Nat
    BY DEF ReplyInv
  <1>2. \A k \in 0..Len(clocks) : k # 0 => k \in DOMAIN clocks
    BY <1>1
  <1>3. REPLY!UnansweredIsOnAClock'
    <2>1. SUFFICES ASSUME waiting PROVE REPLY!TheOpenClock' # 0
      BY DEF REPLY!UnansweredIsOnAClock
    <2> PICK o : o = REPLY!TheOpenClock
      OBVIOUS
    <2>2. o \in DOMAIN clocks /\ clocks[o].status = "open"
      BY <1>1, <2>1, OpenClockFound DEF ReplyInv, REPLY!UnansweredIsOnAClock, REPLY!IsOpen
    <2>3. \E j \in DOMAIN clocks' : REPLY!IsOpen(j)'
      BY <2>2 DEF REPLY!IsOpen
    <2>4. \A j \in DOMAIN clocks' : j # 0
      BY <1>1
    <2> QED
      BY <2>3, <2>4 DEF REPLY!TheOpenClock
  <1>4. ASSUME NEW q \in Writers PROVE LocksHold(writer[q])'
    <2> PICK w : w = writer[q]
      OBVIOUS
    <2>1. LocksHold(w) /\ w \in WriterType
      BY DEF ReplyInv
    <2>2. w.locks => w.clock # 0 /\ clocks'[w.clock].status = "open" /\ sweep'.clock # w.clock
      BY <1>2, <2>1 DEF LocksHold, REPLY!IsOpen
    <2>3. LocksHold(w)'
      BY <2>1, <2>2 DEF LocksHold, REPLY!IsOpen
    <2> QED
      BY <2>3
  <1>5. LocksApart'
    BY DEF ReplyInv, LocksApart
  <1>6. sweep'.clock \in 0..Len(clocks') /\ sweep'.alert \in 0..Len(clocks')
    BY <1>1 DEF ReplyInv
  <1>7. sweep'.clock # 0 => REPLY!IsOpen(sweep.clock)' /\ sweep'.clock = sweep.clock
    BY <1>2 DEF ReplyInv, REPLY!IsOpen
  <1> QED
    BY <1>3, <1>4, <1>5, <1>6, <1>7 DEF ReplyInv, REPLY!IsOpen

LEMMA CheckpointsEffect ==
    ASSUME NEW c \in REPLY!ClockType, c.status = "open", NEW d, d = REPLY!Checkpoints(c)
    PROVE  d \in REPLY!ClockType /\ d.status = "open"
  <1> DEFINE f == c.flagged \/ REPLY!FlagDue(c)
             m == REPLY!PromiseDue(c) \/ c.missed
  <1>1. f \in BOOLEAN /\ m \in BOOLEAN
    BY DEF REPLY!FlagDue, REPLY!PromiseDue
  <1>2. d = [c EXCEPT !.flagged = f, !.missed = m, !.overdue = TRUE]
    BY DEF REPLY!Checkpoints, REPLY!ClockType
  <1> HIDE DEF f, m
  <1> QED
    BY <1>1, <1>2 DEF REPLY!ClockType

LEMMA SweepSteps ==
    ASSUME ReplyInv, REPLY!Sweep \/ REPLY!ProcessReplyClocks \/ REPLY!SweepFails
    PROVE  ReplyInv'
  <1>0. /\ clocks \in Seq(REPLY!ClockType) /\ sweep \in SweepType
        /\ \A k \in DOMAIN clocks : clocks[k] \in REPLY!ClockType /\ Quiet(clocks[k])
    BY DEF ReplyInv
  <1>1. REPLY!Idle \in SweepType /\ REPLY!Idle.clock = 0 /\ REPLY!Idle.alert = 0
    BY DEF REPLY!Idle, SweepType
  <1>2. CASE REPLY!Sweep
    <2> DEFINE claimed == {k \in DOMAIN clocks : REPLY!TakeDue(k)}
               alerts == {k \in DOMAIN clocks : REPLY!Unacknowledged(k)}
               c == IF claimed = {} THEN 0 ELSE CHOOSE k \in claimed : TRUE
               a == IF alerts = {} THEN 0 ELSE CHOOSE k \in alerts : TRUE
    <2>1. sweep' = [on |-> TRUE, clock |-> c, alert |-> a] /\ UNCHANGED <<clocks, waiting, hour, writer>>
      BY <1>2 DEF REPLY!Sweep
    <2>2. c \in {0} \cup claimed /\ a \in {0} \cup alerts
      OBVIOUS
    <2>3. claimed \subseteq DOMAIN clocks /\ alerts \subseteq DOMAIN clocks
      OBVIOUS
    <2>4. \A k \in claimed : REPLY!IsOpen(k) /\ \A p \in Writers : writer[p].locks => writer[p].clock # k
      BY DEF REPLY!TakeDue, REPLY!CheckpointDue, REPLY!Locked
    <2> HIDE DEF claimed, alerts, c, a
    <2>5. c \in 0..Len(clocks) /\ a \in 0..Len(clocks)
      BY <1>0, <2>2, <2>3
    <2>6. sweep' \in SweepType /\ sweep'.clock = c /\ sweep'.alert = a
      BY <2>1, <2>5 DEF SweepType
    <2>7. c # 0 => REPLY!IsOpen(c) /\ \A p \in Writers : writer[p].locks => writer[p].clock # c
      BY <2>2, <2>4
    <2>8. ASSUME NEW p \in Writers PROVE LocksHold(writer[p])'
      <3> PICK w : w = writer[p]
        OBVIOUS
      <3>1. LocksHold(w)
        BY DEF ReplyInv
      <3>2. w.locks => w.clock # 0 /\ w.clock # c
        BY <2>7, <3>1 DEF LocksHold
      <3>3. LocksHold(w)'
        BY <2>1, <2>6, <3>1, <3>2 DEF LocksHold, REPLY!IsOpen
      <3> QED
        BY <2>1, <3>3
    <2>9. REPLY!UnansweredIsOnAClock' /\ LocksApart' /\ \A k \in DOMAIN clocks' : Quiet(clocks'[k])
      BY <2>1 DEF ReplyInv, REPLY!UnansweredIsOnAClock, REPLY!TheOpenClock, REPLY!IsOpen, LocksApart
    <2>10. sweep'.clock # 0 => clocks'[sweep'.clock].status = "open"
      BY <2>1, <2>6, <2>7 DEF REPLY!IsOpen
    <2> QED
      BY <2>1, <2>5, <2>6, <2>8, <2>9, <2>10 DEF ReplyInv, REPLY!IsOpen
  <1>3. CASE REPLY!ProcessReplyClocks
    <2> DEFINE checked(k) == IF k = sweep.clock THEN REPLY!Checkpoints(clocks[k]) ELSE clocks[k]
               marked(k) == IF k = sweep.alert /\ checked(k).urgent = "unseen"
                            THEN [checked(k) EXCEPT !.urgent = "again"] ELSE checked(k)
    <2>1. /\ clocks' = [k \in DOMAIN clocks |-> marked(k)]
          /\ sweep' = REPLY!Idle /\ waiting' = waiting /\ hour' = hour /\ writer' = writer
      BY <1>3 DEF REPLY!ProcessReplyClocks
    <2>2. ASSUME NEW k \in DOMAIN clocks
          PROVE  /\ marked(k) \in REPLY!ClockType /\ marked(k).status = clocks[k].status
                 /\ Quiet(marked(k))
      <3> PICK c : c = clocks[k]
        OBVIOUS
      <3> PICK d : d = checked(k)
        OBVIOUS
      <3>1. c \in REPLY!ClockType /\ Quiet(c) /\ k # 0
        BY <1>0
      <3>2. d \in REPLY!ClockType /\ d.status = c.status /\ Quiet(d)
        <4>1. CASE k = sweep.clock
          <5>1. c.status = "open" /\ d = REPLY!Checkpoints(c)
            BY <3>1, <4>1 DEF ReplyInv, REPLY!IsOpen
          <5>2. d \in REPLY!ClockType /\ d.status = "open"
            BY <3>1, <5>1, CheckpointsEffect
          <5> QED
            BY <5>1, <5>2 DEF Quiet
        <4>2. CASE k # sweep.clock
          BY <3>1, <4>2
        <4> QED
          BY <4>1, <4>2
      <3>3. CASE k = sweep.alert /\ d.urgent = "unseen"
        <4>1. marked(k) = [d EXCEPT !.urgent = "again"]
          BY <3>3
        <4>2. d.status = "open"
          BY <3>2, <3>3 DEF Quiet, REPLY!OpenAlert
        <4> PICK e : e = marked(k)
          OBVIOUS
        <4> HIDE DEF marked, checked
        <4>3. e \in REPLY!ClockType /\ e.status = "open"
          BY <3>2, <4>1, <4>2 DEF REPLY!ClockType, REPLY!AlertStates
        <4> QED
          BY <3>2, <4>2, <4>3 DEF Quiet
      <3>4. CASE ~(k = sweep.alert /\ d.urgent = "unseen")
        <4>1. marked(k) = d
          BY <3>4
        <4> QED
          BY <3>2, <4>1
      <3> QED
        BY <3>3, <3>4
    <2> HIDE DEF marked, checked
    <2>3. /\ clocks' \in Seq(REPLY!ClockType) /\ DOMAIN clocks' = DOMAIN clocks /\ Len(clocks') = Len(clocks)
      <3>1. DOMAIN clocks = 1..Len(clocks) /\ Len(clocks) \in Nat
        BY <1>0
      <3>2. clocks' \in [1..Len(clocks) -> REPLY!ClockType]
        BY <2>1, <2>2, <3>1
      <3> QED
        BY <3>1, <3>2
    <2>4. \A k \in DOMAIN clocks : clocks'[k].status = clocks[k].status /\ Quiet(clocks'[k])
      BY <2>1, <2>2
    <2> QED
      BY <1>1, <2>1, <2>3, <2>4, ClockIsMarked
  <1>4. CASE REPLY!SweepFails
    <2>1. sweep' = REPLY!Idle /\ clocks' = clocks /\ waiting' = waiting /\ hour' = hour /\ writer' = writer
      BY <1>4 DEF REPLY!SweepFails
    <2> QED
      BY <1>0, <1>1, <2>1, ClockIsMarked
  <1> QED
    BY <1>2, <1>3, <1>4

LEMMA ReplyStays ==
    ASSUME LastHour \in Nat, ReplyInv, [REPLY!Next]_(REPLY!vars)
    PROVE  ReplyInv'
  <1>0. /\ clocks \in Seq(REPLY!ClockType) /\ sweep \in SweepType
        /\ \A k \in DOMAIN clocks : clocks[k] \in REPLY!ClockType /\ Quiet(clocks[k])
    BY DEF ReplyInv
  <1>1. ASSUME NEW p \in Writers, NEW tier \in REPLY!Tiers, NEW immediate \in BOOLEAN,
               REPLY!ReadForMessage(p, tier, immediate)
        PROVE  ReplyInv'
    <2> DEFINE r == [op |-> "message", clock |-> 0, locks |-> FALSE, tier |-> tier, immediate |-> immediate]
    <2>1. REPLY!LockingRead(p, r)
      BY <1>1 DEF REPLY!ReadForMessage
    <2>2. r \in MessageWriter /\ r.clock = 0 /\ r.locks = FALSE
      BY DEF MessageWriter
    <2> HIDE DEF r
    <2> QED
      BY <2>1, <2>2, LockingReads
  <1>2. ASSUME NEW p \in Writers, REPLY!ReadForReply(p) PROVE ReplyInv'
    <2> DEFINE r == [op |-> "reply", clock |-> 0, locks |-> FALSE]
    <2>1. REPLY!LockingRead(p, r)
      BY <1>2 DEF REPLY!ReadForReply
    <2>2. r \in ReplyWriter /\ r.clock = 0 /\ r.locks = FALSE
      BY DEF ReplyWriter
    <2> HIDE DEF r
    <2> QED
      BY <2>1, <2>2, LockingReads
  <1>3. ASSUME NEW p \in Writers, NEW tier \in REPLY!Tiers, REPLY!ReadForRetag(p, tier) PROVE ReplyInv'
    <2> DEFINE r == [op |-> "retag", clock |-> 0, locks |-> FALSE, tier |-> tier]
    <2>1. REPLY!LockingRead(p, r) /\ REPLY!TheOpenClock # 0
      BY <1>3 DEF REPLY!ReadForRetag
    <2>2. r \in RetagWriter /\ r.clock = 0 /\ r.locks = FALSE
      BY DEF RetagWriter
    <2> HIDE DEF r
    <2> QED
      BY <2>1, <2>2, LockingReads
  <1>4. ASSUME NEW p \in Writers, NEW k \in DOMAIN clocks, REPLY!ReadForClose(p, k) PROVE ReplyInv'
    <2> DEFINE w == [op |-> "close", clock |-> k, locks |-> FALSE]
    <2>1. writer' = [writer EXCEPT ![p] = w] /\ UNCHANGED <<clocks, waiting, hour, sweep>>
      BY <1>4 DEF REPLY!ReadForClose, REPLY!Read
    <2>2. k \in Nat /\ k # 0 /\ k \in 0..Len(clocks)
      BY <1>0
    <2>3. w \in CloseWriter /\ w.op = "close" /\ w.clock = k /\ ~w.locks
      BY <2>2 DEF CloseWriter
    <2> HIDE DEF w
    <2>4. w \in WriterType /\ LocksHold(w)
      BY <2>2, <2>3 DEF WriterType, LocksHold
    <2> QED
      BY <2>1, <2>3, <2>4, WriterReads
  <1>5. ASSUME NEW p \in Writers,
               \/ REPLY!JoinClock(p) \/ REPLY!StartClock(p) \/ REPLY!RequestFails(p)
               \/ REPLY!Reply(p) \/ REPLY!CloseClock(p) \/ REPLY!ChangeClockTier(p)
        PROVE  ReplyInv'
    BY <1>5, WriterCommits
  <1>6. ASSUME NEW k \in DOMAIN clocks, NEW state \in {"seen", "handled"}, REPLY!SeeAlert(k, state)
        PROVE  ReplyInv'
    <2> PICK c : c = clocks[k]
      OBVIOUS
    <2> PICK t : t = [c EXCEPT !.urgent = state]
      OBVIOUS
    <2>1. /\ c.urgent \in {"unseen", "again"} /\ clocks' = [clocks EXCEPT ![k] = t]
          /\ waiting' = waiting /\ hour' = hour /\ writer' = writer /\ sweep' = sweep
      BY <1>6 DEF REPLY!SeeAlert
    <2>2. c \in REPLY!ClockType /\ c.status = "open"
      BY <1>0, <2>1 DEF Quiet, REPLY!OpenAlert
    <2>3. t \in REPLY!ClockType /\ t.status = "open" /\ Quiet(t)
      BY <2>2 DEF REPLY!ClockType, REPLY!AlertStates, Quiet
    <2>4. /\ clocks' \in Seq(REPLY!ClockType) /\ DOMAIN clocks' = DOMAIN clocks /\ Len(clocks') = Len(clocks)
          /\ \A j \in DOMAIN clocks : clocks'[j] = IF j = k THEN t ELSE clocks[j]
      BY <1>0, <2>1, <2>3
    <2>5. \A j \in DOMAIN clocks : clocks'[j].status = clocks[j].status /\ Quiet(clocks'[j])
      BY <1>0, <2>2, <2>3, <2>4
    <2> QED
      BY <1>0, <2>1, <2>4, <2>5, ClockIsMarked
  <1>7. CASE REPLY!HourPasses
    <2>1. hour' \in 0..LastHour /\ UNCHANGED <<clocks, waiting, writer, sweep>>
      BY <1>7 DEF REPLY!HourPasses, ReplyInv
    <2> QED
      BY <2>1 DEF ReplyInv, LocksHold, LocksApart, REPLY!UnansweredIsOnAClock, REPLY!TheOpenClock, REPLY!IsOpen
  <1>8. CASE UNCHANGED REPLY!vars
    BY <1>8 DEF REPLY!vars, ReplyInv, LocksHold, LocksApart, REPLY!UnansweredIsOnAClock,
                REPLY!TheOpenClock, REPLY!IsOpen
  <1> QED
    BY <1>1, <1>2, <1>3, <1>4, <1>5, <1>6, <1>7, <1>8, SweepSteps DEF REPLY!Next

\* A message nobody answered is on an open clock, and a clock that was stopped
\* has no open flag and no open alert, whatever messages, replies, closes,
\* re-tags and ticks overlap.
THEOREM UnansweredMessagesAreWatched ==
    ASSUME LastHour \in Nat
    PROVE  REPLY!Spec => [](REPLY!UnansweredIsOnAClock /\ REPLY!AnsweredClockIsQuiet)
  <1>1. REPLY!Init => ReplyInv
    <2> SUFFICES ASSUME REPLY!Init PROVE ReplyInv
      OBVIOUS
    <2>1. /\ clocks = <<>> /\ waiting = FALSE /\ hour = 0
          /\ writer = [p \in Writers |-> REPLY!NoOne] /\ sweep = REPLY!Idle
      BY DEF REPLY!Init
    <2>2. sweep \in SweepType /\ sweep.clock = 0 /\ sweep.alert = 0
      BY <2>1 DEF REPLY!Idle, SweepType
    <2>3. writer \in [Writers -> WriterType] /\ \A p \in Writers : LocksHold(writer[p]) /\ ~writer[p].locks
      BY <2>1, NoOneWrites
    <2>4. clocks \in Seq(REPLY!ClockType) /\ DOMAIN clocks = {} /\ Len(clocks) = 0
      BY <2>1
    <2>5. waiting \in BOOLEAN /\ REPLY!UnansweredIsOnAClock
      BY <2>1 DEF REPLY!UnansweredIsOnAClock
    <2> QED
      BY <2>1, <2>2, <2>3, <2>4, <2>5 DEF ReplyInv, LocksApart
  <1>2. ReplyInv /\ [REPLY!Next]_(REPLY!vars) => ReplyInv'
    BY ReplyStays
  <1>3. ReplyInv => REPLY!UnansweredIsOnAClock /\ REPLY!AnsweredClockIsQuiet
    BY DEF ReplyInv, Quiet, REPLY!AnsweredClockIsQuiet, REPLY!IsOpen
  <1> QED
    BY <1>1, <1>2, <1>3, PTL DEF REPLY!Spec

-----------------------------------------------------------------------------
(* Emergency alerts.                                                       *)

CONSTANTS Owners, Assigned, Attorneys, Messages, Rotas, MaxAlerts
VARIABLES sessionStatus, unack, alerts, timers, tick, request

EMG == INSTANCE EmergencyEscalation WITH status <- sessionStatus

IsAlert(x) ==
    \E track, paged, step, acknowledged, downgraded :
        x = [track |-> track, paged |-> paged, step |-> step,
             acknowledged |-> acknowledged, downgraded |-> downgraded]

\* A tick holds the timer of an alert that is as the tick read it.
TickSound(t) ==
    t = EMG!None \/ \E a, step :
        /\ a \in EMG!Alerts \cap timers
        /\ t = [op |-> "escalate", alert |-> a, open |-> EMG!Open(a), step |-> step]

\* A downgrade under way holds its alert's timer against the ticks.
RequestSound(r) ==
    /\ r.op \in {"acknowledge", "downgrade"} => r.alert \in EMG!Alerts
    /\ r.op = "downgrade" => r.alert \notin EMG!Taken
    /\ r.op = "message" => r.detected \subseteq EMG!Tracks

EmgInv ==
    /\ \E S : alerts \in Seq(S) /\ \A x \in S : IsAlert(x)
    /\ \E S : tick \in [Workers -> S]
    /\ \E S : request \in [Requests -> S]
    /\ EMG!EscalationGoesOn
    /\ \A w \in Workers : TickSound(tick[w])
    /\ \A v, w \in Workers : tick[v] # EMG!None /\ tick[w] # EMG!None /\ tick[v].alert = tick[w].alert => v = w
    /\ \A p \in Requests : RequestSound(request[p])

\* Who was paged for an answered alert.
QuietStep == \A a \in EMG!Alerts : ~EMG!Open(a) => alerts'[a].paged = alerts[a].paged

LEMMA TicksTake ==
    ASSUME EmgInv, NEW w \in Workers, tick[w] # EMG!None
    PROVE  /\ tick[w].alert \in EMG!Taken /\ tick[w].alert \in EMG!Alerts \cap timers
           /\ tick[w].open = EMG!Open(tick[w].alert)
  <1> PICK a, step :
           /\ a \in EMG!Alerts \cap timers
           /\ tick[w] = [op |-> "escalate", alert |-> a, open |-> EMG!Open(a), step |-> step]
    BY DEF EmgInv, TickSound
  <1>1. tick[w].alert = a /\ tick[w].open = EMG!Open(a)
    OBVIOUS
  <1>2. tick[w].alert \in EMG!Taken
    BY DEF EMG!Taken, EMG!Taking
  <1> QED
    BY <1>1, <1>2

LEMMA AlertsAreThere ==
    ASSUME EmgInv
    PROVE  /\ \A a \in EMG!Alerts : IsAlert(alerts[a]) /\ a \in Nat \ {0}
           /\ Len(alerts) \in Nat /\ EMG!Alerts = 1..Len(alerts)
  <1> PICK S : alerts \in Seq(S) /\ \A x \in S : IsAlert(x)
    BY DEF EmgInv
  <1> QED
    BY DEF EMG!Alerts

LEMMA OneAlertChanges ==
    ASSUME EmgInv, NEW a \in EMG!Alerts, NEW t, IsAlert(t), alerts' = [alerts EXCEPT ![a] = t]
    PROVE  /\ \E S : alerts' \in Seq(S) /\ \A x \in S : IsAlert(x)
           /\ EMG!Alerts' = EMG!Alerts
           /\ \A b \in EMG!Alerts : alerts'[b] = IF b = a THEN t ELSE alerts[b]
  <1> PICK S : alerts \in Seq(S) /\ \A x \in S : IsAlert(x)
    BY DEF EmgInv
  <1> PICK T : T = S \cup {t}
    OBVIOUS
  <1>1. alerts' \in Seq(T) /\ \A x \in T : IsAlert(x)
    BY DEF EMG!Alerts
  <1> QED
    BY <1>1 DEF EMG!Alerts

\* A request begins, goes on or ends; nothing else changes.
LEMMA RequestMoves ==
    ASSUME EmgInv, NEW p \in Requests, NEW r, RequestSound(r), request' = [request EXCEPT ![p] = r],
           UNCHANGED <<alerts, timers, tick>>
    PROVE  EmgInv' /\ QuietStep
  <1>1. request' \in [Requests -> {request[q] : q \in Requests} \cup {r}] /\ request'[p] = r
        /\ \A q \in Requests \ {p} : request'[q] = request[q]
    BY DEF EmgInv
  <1>2. \A q \in Requests : RequestSound(request'[q])
    BY <1>1 DEF EmgInv
  <1>3. \A q \in Requests : RequestSound(request[q])'
    BY <1>2 DEF RequestSound, EMG!Alerts, EMG!Taken, EMG!Taking
  <1>4. \E S : request' \in [Requests -> S]
    BY <1>1
  <1>5. \A w \in Workers : TickSound(tick[w])'
    BY DEF EmgInv, TickSound, EMG!Alerts, EMG!Open
  <1>6. EMG!EscalationGoesOn' /\ QuietStep
    BY DEF EmgInv, EMG!EscalationGoesOn, EMG!Alerts, EMG!Open, EMG!Escalates, QuietStep
  <1> QED
    BY <1>3, <1>4, <1>5, <1>6 DEF EmgInv

LEMMA NoRequestIsSound == RequestSound(EMG!None)
  <1>1. EMG!None.op = "none"
    BY DEF EMG!None
  <1> QED
    BY <1>1 DEF RequestSound

\* Staff answer an alert whose timer no tick holds.
LEMMA AlertIsAnswered ==
    ASSUME EmgInv, NEW p \in Requests, NEW a \in EMG!Alerts, a \notin EMG!Taken,
           NEW t, IsAlert(t), t.paged = alerts[a].paged, t.acknowledged \/ t.downgraded,
           alerts' = [alerts EXCEPT ![a] = t], timers' = timers \ {a}, tick' = tick,
           request' = [request EXCEPT ![p] = EMG!None]
    PROVE  EmgInv' /\ QuietStep
  <1>1. /\ \E S : alerts' \in Seq(S) /\ \A x \in S : IsAlert(x)
        /\ EMG!Alerts' = EMG!Alerts
        /\ \A b \in EMG!Alerts : alerts'[b] = IF b = a THEN t ELSE alerts[b]
    BY OneAlertChanges
  <1>2. \A b \in EMG!Alerts \ {a} : /\ EMG!Open(b)' <=> EMG!Open(b)
                                    /\ EMG!Escalates(b)' <=> EMG!Escalates(b)
    BY <1>1 DEF EMG!Open, EMG!Escalates
  <1>3. ~EMG!Open(a)'
    BY <1>1 DEF EMG!Open
  <1>4. EMG!EscalationGoesOn' /\ QuietStep
    BY <1>1, <1>2, <1>3 DEF EmgInv, EMG!EscalationGoesOn, QuietStep
  <1>5. ASSUME NEW w \in Workers PROVE TickSound(tick[w])'
    <2>1. CASE tick[w] = EMG!None
      BY <2>1 DEF TickSound, EMG!None
    <2>2. CASE tick[w] # EMG!None
      <3> PICK b, step :
              /\ b \in EMG!Alerts \cap timers
              /\ tick[w] = [op |-> "escalate", alert |-> b, open |-> EMG!Open(b), step |-> step]
        BY <2>2 DEF EmgInv, TickSound
      <3>1. b # a
        BY <2>2, TicksTake
      <3>2. b \in (EMG!Alerts \cap timers)' /\ alerts'[b] = alerts[b]
        BY <1>1, <3>1
      <3>3. tick'[w] = [op |-> "escalate", alert |-> b, open |-> EMG!Open(b)', step |-> step]
        BY <3>2 DEF EMG!Open
      <3> QED
        BY <3>2, <3>3 DEF TickSound
    <2> QED
      BY <2>1, <2>2
  <1>6. \A q \in Requests : request'[q] = IF q = p THEN EMG!None ELSE request[q]
    BY DEF EmgInv
  <1>7. \E S : request' \in [Requests -> S]
    <2>1. request' \in [Requests -> {request[q] : q \in Requests} \cup {EMG!None}]
      BY <1>6 DEF EmgInv
    <2> QED
      BY <2>1
  <1>8. ASSUME NEW q \in Requests PROVE RequestSound(request[q])'
    <2>1. RequestSound(request'[q])
      BY <1>6, NoRequestIsSound DEF EmgInv
    <2> QED
      BY <1>1, <2>1 DEF RequestSound, EMG!Taken, EMG!Taking
  <1> QED
    BY <1>1, <1>4, <1>5, <1>7, <1>8 DEF EmgInv

\* A tick takes a timer that nobody holds, or lets go of the one it had.
LEMMA TickMoves ==
    ASSUME EmgInv, NEW w \in Workers, NEW t, TickSound(t), tick' = [tick EXCEPT ![w] = t],
           t # EMG!None => t.alert \notin EMG!Taken \cup EMG!HeldByStaff,
           UNCHANGED <<alerts, timers, request>>
    PROVE  EmgInv' /\ QuietStep
  <1>1. /\ tick' \in [Workers -> {tick[v] : v \in Workers} \cup {t}]
        /\ \A v \in Workers : tick'[v] = IF v = w THEN t ELSE tick[v]
    BY DEF EmgInv
  <1>2. \E S : tick' \in [Workers -> S]
    BY <1>1
  <1>3. ASSUME NEW v \in Workers PROVE TickSound(tick[v])'
    <2>1. TickSound(tick'[v])
      BY <1>1 DEF EmgInv
    <2> QED
      BY <2>1 DEF TickSound, EMG!Alerts, EMG!Open
  <1>4. \A u, v \in Workers : tick'[u] # EMG!None /\ tick'[v] # EMG!None /\ tick'[u].alert = tick'[v].alert => u = v
    BY <1>1, TicksTake DEF EmgInv
  <1>5. ASSUME NEW q \in Requests PROVE RequestSound(request[q])'
    <2>1. request[q].op = "downgrade" => request[q].alert \in EMG!HeldByStaff /\ request[q].alert \notin EMG!Taken
      BY DEF EmgInv, RequestSound, EMG!HeldByStaff
    <2>2. request[q].op \in {"acknowledge", "downgrade"} => request[q].alert \in EMG!Alerts /\ request[q].alert # 0
      BY AlertsAreThere DEF EmgInv, RequestSound
    <2>3. request[q].op = "downgrade" => request[q].alert \notin EMG!Taken'
      BY <1>1, <2>1, <2>2 DEF EMG!Taken, EMG!Taking
    <2>4. request[q].op = "message" => request[q].detected \subseteq EMG!Tracks
      BY DEF EmgInv, RequestSound
    <2> QED
      BY <2>2, <2>3, <2>4 DEF RequestSound, EMG!Alerts
  <1>6. EMG!EscalationGoesOn' /\ QuietStep
    BY DEF EmgInv, EMG!EscalationGoesOn, EMG!Alerts, EMG!Open, EMG!Escalates, QuietStep
  <1> QED
    BY <1>2, <1>3, <1>4, <1>5, <1>6 DEF EmgInv, EMG!None

\* The tick writes the step and the people of the alert, nothing else of it.
LEMMA NextArePaged ==
    ASSUME EmgInv, NEW w \in Workers, EMG!HandleEscalation(w), tick[w] # EMG!None, tick[w].open,
           NEW a \in EMG!Alerts, a = tick[w].alert
    PROVE  \E t : /\ IsAlert(t) /\ t.track = alerts[a].track /\ alerts' = [alerts EXCEPT ![a] = t]
                  /\ t.acknowledged = alerts[a].acknowledged /\ t.downgraded = alerts[a].downgraded
  <1> PICK onCall \in Rotas :
          alerts' = [alerts EXCEPT ![a].step = EMG!NextStep(tick[w].step),
                         ![a].paged = @ \cup EMG!EscalationStep(EMG!NextStep(tick[w].step), onCall, alerts[a].track)]
    BY DEF EMG!HandleEscalation
  <1> DEFINE next == EMG!NextStep(tick[w].step)
             further == EMG!EscalationStep(next, onCall, alerts[a].track)
  <1> PICK old : old = alerts[a]
    OBVIOUS
  <1> PICK track, paged, step, acknowledged, downgraded :
          old = [track |-> track, paged |-> paged, step |-> step,
                 acknowledged |-> acknowledged, downgraded |-> downgraded]
    <2>1. IsAlert(old)
      BY AlertsAreThere
    <2> QED
      BY <2>1 DEF IsAlert
  <1> PICK t : t = [old EXCEPT !.step = next, !.paged = old.paged \cup further]
    OBVIOUS
  <1>1. alerts' = [alerts EXCEPT ![a] = t]
    <2> DEFINE mid == [alerts EXCEPT ![a].step = next]
    <2>1. alerts' = [mid EXCEPT ![a].paged = @ \cup further]
      OBVIOUS
    <2>2. mid[a] = [old EXCEPT !.step = next] /\ mid[a].paged = old.paged /\ DOMAIN mid = DOMAIN alerts
      BY DEF EMG!Alerts
    <2> HIDE DEF next, further
    <2>3. [[old EXCEPT !.step = next] EXCEPT !.paged = old.paged \cup further] = t
      OBVIOUS
    <2> HIDE DEF mid
    <2>4. alerts' = [mid EXCEPT ![a] = t]
      BY <2>1, <2>2, <2>3
    <2> QED
      BY <2>4 DEF mid
  <1> HIDE DEF next, further
  <1>2. IsAlert(t) /\ t.track = old.track /\ t.acknowledged = old.acknowledged /\ t.downgraded = old.downgraded
    BY DEF IsAlert
  <1> QED
    BY <1>1, <1>2

\* The tick's handler pages the next people, or finds the alert answered.
LEMMA EscalationIsHandled ==
    ASSUME EmgInv, NEW w \in Workers, EMG!HandleEscalation(w)
    PROVE  EmgInv' /\ QuietStep
  <1> PICK a : a = tick[w].alert
    OBVIOUS
  <1>1. tick[w] # EMG!None /\ tick' = [tick EXCEPT ![w] = EMG!None] /\ request' = request
    BY DEF EMG!HandleEscalation
  <1>2. a \in EMG!Alerts \cap timers /\ a \in EMG!Taken /\ a # 0 /\ tick[w].open = EMG!Open(a)
    BY <1>1, TicksTake, AlertsAreThere
  <1>3. \A v \in Workers : tick'[v] = IF v = w THEN EMG!None ELSE tick[v]
    BY <1>1 DEF EmgInv
  <1>4. \E S : tick' \in [Workers -> S]
    <2>1. tick' \in [Workers -> {tick[v] : v \in Workers} \cup {EMG!None}]
      BY <1>3, <1>1 DEF EmgInv
    <2> QED
      BY <2>1
  <1>5. \A v \in Workers \ {w} : tick[v] # EMG!None => tick[v].alert # a
    BY <1>1 DEF EmgInv
  <1>6. EMG!Taken' \subseteq EMG!Taken \cup {0}
    BY <1>3 DEF EMG!Taken, EMG!Taking, EMG!None
  <1>7. \A u, v \in Workers : tick'[u] # EMG!None /\ tick'[v] # EMG!None /\ tick'[u].alert = tick'[v].alert => u = v
    BY <1>3 DEF EmgInv
  <1>8. ASSUME EMG!Alerts' = EMG!Alerts PROVE \A q \in Requests : RequestSound(request[q])'
    <2> TAKE q \in Requests
    <2>1. request[q].op \in {"acknowledge", "downgrade"} => request[q].alert \in EMG!Alerts /\ request[q].alert # 0
      BY AlertsAreThere DEF EmgInv, RequestSound
    <2>2. request[q].op = "downgrade" => request[q].alert \notin EMG!Taken'
      BY <1>6, <2>1 DEF EmgInv, RequestSound
    <2> QED
      BY <1>1, <1>8, <2>1, <2>2 DEF RequestSound, EmgInv
  <1>9. ASSUME NEW v \in Workers, EMG!Alerts' = EMG!Alerts, timers \ {a} \subseteq timers',
               \A b \in EMG!Alerts \ {a} : alerts'[b] = alerts[b]
        PROVE  TickSound(tick[v])'
    <2>1. CASE tick'[v] = EMG!None
      BY <2>1 DEF TickSound, EMG!None
    <2>2. CASE tick'[v] # EMG!None
      <3>1. v # w /\ tick'[v] = tick[v] /\ tick[v] # EMG!None
        BY <1>3, <2>2
      <3> PICK b, step :
              /\ b \in EMG!Alerts \cap timers
              /\ tick[v] = [op |-> "escalate", alert |-> b, open |-> EMG!Open(b), step |-> step]
        BY <3>1 DEF EmgInv, TickSound
      <3>2. b # a
        BY <1>5, <3>1
      <3>3. b \in (EMG!Alerts \cap timers)' /\ alerts'[b] = alerts[b]
        BY <1>9, <3>2
      <3>4. tick'[v] = [op |-> "escalate", alert |-> b, open |-> EMG!Open(b)', step |-> step]
        BY <3>1, <3>3 DEF EMG!Open
      <3> QED
        BY <3>3, <3>4 DEF TickSound
    <2> QED
      BY <2>1, <2>2
  <1>10. CASE tick[w].open
    <2> PICK t : /\ IsAlert(t) /\ t.track = alerts[a].track /\ alerts' = [alerts EXCEPT ![a] = t]
                 /\ t.acknowledged = alerts[a].acknowledged /\ t.downgraded = alerts[a].downgraded
      BY <1>1, <1>2, <1>10, NextArePaged
    <2>3. /\ \E S : alerts' \in Seq(S) /\ \A x \in S : IsAlert(x)
          /\ EMG!Alerts' = EMG!Alerts
          /\ \A b \in EMG!Alerts : alerts'[b] = IF b = a THEN t ELSE alerts[b]
      BY <1>2, OneAlertChanges
    <2>4. timers' = timers
      BY <1>10 DEF EMG!HandleEscalation
    <2>5. \A b \in EMG!Alerts \ {a} : /\ EMG!Open(b)' <=> EMG!Open(b)
                                      /\ EMG!Escalates(b)' <=> EMG!Escalates(b)
      BY <2>3 DEF EMG!Open, EMG!Escalates
    <2>6. EMG!EscalationGoesOn'
      BY <1>2, <2>3, <2>4, <2>5 DEF EmgInv, EMG!EscalationGoesOn
    <2>7. EMG!Open(a)
      BY <1>2, <1>10
    <2>8. QuietStep
      BY <2>3, <2>7 DEF QuietStep
    <2>9. \A v \in Workers : TickSound(tick[v])'
      BY <1>9, <2>3, <2>4
    <2> QED
      BY <1>1, <1>4, <1>7, <1>8, <2>3, <2>6, <2>8, <2>9 DEF EmgInv, EMG!None
  <1>11. CASE ~tick[w].open
    <2>1. timers' = timers \ {a} /\ alerts' = alerts
      BY <1>11 DEF EMG!HandleEscalation
    <2>2. ~EMG!Open(a)
      BY <1>2, <1>11
    <2>3. EMG!EscalationGoesOn' /\ QuietStep
      BY <2>1, <2>2 DEF EmgInv, EMG!EscalationGoesOn, EMG!Alerts, EMG!Open, EMG!Escalates, QuietStep
    <2>4. EMG!Alerts' = EMG!Alerts
      BY <2>1 DEF EMG!Alerts
    <2>5. \A v \in Workers : TickSound(tick[v])'
      BY <1>9, <2>1, <2>4
    <2> QED
      BY <1>1, <1>4, <1>7, <1>8, <2>1, <2>3, <2>4, <2>5 DEF EmgInv, EMG!None
  <1> QED
    BY <1>10, <1>11

LEMMA RankedTracks == \A tracks : DOMAIN EMG!ByRank(tracks) = 1..Cardinality(tracks)
  <1>1. \A S : EMG!Cardinality(S) = Cardinality(S)
    BY DEF EMG!Cardinality, Cardinality
  <1> QED
    BY <1>1, Zenon DEF EMG!ByRank

\* A message raises alerts after those there are, each with its timer.
LEMMA EmergencyIsRaised ==
    ASSUME EmgInv, NEW p \in Requests, EMG!RaiseEmergency(p)
    PROVE  EmgInv' /\ QuietStep
  <1> PICK new : new = request[p].detected \ request[p].open
    OBVIOUS
  <1> PICK order : order = EMG!ByRank(new)
    OBVIOUS
  <1> PICK onCall \in Rotas : alerts' = alerts \o [i \in DOMAIN order |-> EMG!NewAlert(order[i], onCall)]
    BY DEF EMG!RaiseEmergency
  <1>1. /\ timers' = timers \cup {a \in DOMAIN alerts' \ EMG!Alerts :
                            alerts'[a].track # "deadline_risk" /\ alerts'[a].paged # {}}
        /\ request[p].op = "message"
        /\ request' = [request EXCEPT ![p] = EMG!None] /\ tick' = tick
    BY DEF EMG!RaiseEmergency, EMG!Ends
  <1>2. \E n \in Nat : DOMAIN order = 1..n
    <2>1. new \subseteq EMG!Tracks
      BY <1>1 DEF EmgInv, RequestSound
    <2>2. IsFiniteSet(EMG!Tracks)
      <3>1. EMG!Tracks = ({"safety"} \cup {"urgent_legal"}) \cup {"deadline_risk"}
        BY DEF EMG!Tracks
      <3> QED
        BY <3>1, FS_Singleton, FS_AddElement
    <2>3. Cardinality(new) \in Nat
      BY <2>1, <2>2, FS_Subset, FS_CardinalityType
    <2>4. DOMAIN order = 1..Cardinality(new)
      BY RankedTracks
    <2> QED
      BY <2>3, <2>4
  <1> PICK n \in Nat : DOMAIN order = 1..n
    BY <1>2
  <1> PICK raised : raised = [i \in DOMAIN order |-> EMG!NewAlert(order[i], onCall)]
    OBVIOUS
  <1> PICK S : alerts \in Seq(S) /\ \A x \in S : IsAlert(x)
    BY DEF EmgInv
  <1> PICK T : T = S \cup {raised[i] : i \in 1..n}
    OBVIOUS
  <1>3. \A x \in T : IsAlert(x)
    <2>1. \A i \in 1..n : IsAlert(raised[i])
      BY DEF EMG!NewAlert, IsAlert
    <2> QED
      BY <2>1
  <1>4. raised \in Seq(T) /\ alerts \in Seq(T)
    <2>1. raised \in [1..n -> T]
      OBVIOUS
    <2>2. raised \in Seq(T)
      BY <2>1, FunctionsAreSequences
    <2>3. \A i \in 1..Len(alerts) : alerts[i] \in T
      OBVIOUS
    <2> QED
      BY <2>2, <2>3
  <1>5. alerts' = alerts \o raised
    OBVIOUS
  <1>6. /\ alerts' \in Seq(T) /\ EMG!Alerts \subseteq EMG!Alerts'
        /\ \A a \in EMG!Alerts : alerts'[a] = alerts[a]
    <2>1. alerts \o raised \in Seq(T) /\ DOMAIN alerts \subseteq DOMAIN (alerts \o raised)
      BY SMTT(30), <1>4
    <2>2. \A a \in DOMAIN alerts : (alerts \o raised)[a] = alerts[a]
      BY <1>4
    <2> QED
      BY <1>5, <2>1, <2>2 DEF EMG!Alerts
  <1>7. \A a \in EMG!Alerts : (EMG!Open(a)' <=> EMG!Open(a)) /\ (EMG!Escalates(a)' <=> EMG!Escalates(a))
    BY <1>6 DEF EMG!Open, EMG!Escalates
  <1>8. \A a \in EMG!Alerts' \ EMG!Alerts : EMG!Escalates(a)' => a \in timers'
    BY <1>1 DEF EMG!Escalates, EMG!Alerts
  <1>9. EMG!EscalationGoesOn' /\ QuietStep
    BY <1>1, <1>6, <1>7, <1>8 DEF EmgInv, EMG!EscalationGoesOn, QuietStep
  <1>10. ASSUME NEW w \in Workers PROVE TickSound(tick[w])'
    <2>1. CASE tick[w] = EMG!None
      BY <1>1, <2>1 DEF TickSound, EMG!None
    <2>2. CASE tick[w] # EMG!None
      <3> PICK b, step :
              /\ b \in EMG!Alerts \cap timers
              /\ tick[w] = [op |-> "escalate", alert |-> b, open |-> EMG!Open(b), step |-> step]
        BY <2>2 DEF EmgInv, TickSound
      <3>1. b \in (EMG!Alerts \cap timers)' /\ (EMG!Open(b)' = EMG!Open(b))
        BY <1>1, <1>6 DEF EMG!Open
      <3>2. tick'[w] = [op |-> "escalate", alert |-> b, open |-> EMG!Open(b)', step |-> step]
        BY <1>1, <3>1
      <3> QED
        BY <3>1, <3>2 DEF TickSound
    <2> QED
      BY <2>1, <2>2
  <1>11. \A q \in Requests : request'[q] = IF q = p THEN EMG!None ELSE request[q]
    BY <1>1 DEF EmgInv
  <1>12. \E R : request' \in [Requests -> R]
    <2>1. request' \in [Requests -> {request[q] : q \in Requests} \cup {EMG!None}]
      BY <1>1, <1>11 DEF EmgInv
    <2> QED
      BY <2>1
  <1>13. ASSUME NEW q \in Requests PROVE RequestSound(request[q])'
    <2>1. RequestSound(request'[q])
      BY <1>11, NoRequestIsSound DEF EmgInv
    <2>2. EMG!Taken' = EMG!Taken
      BY <1>1 DEF EMG!Taken, EMG!Taking, EMG!None
    <2> QED
      BY <1>6, <2>1, <2>2 DEF RequestSound
  <1>14. \E R : alerts' \in Seq(R) /\ \A x \in R : IsAlert(x)
    BY <1>3, <1>6
  <1> QED
    BY <1>1, <1>9, <1>10, <1>12, <1>13, <1>14 DEF EmgInv, EMG!None

LEMMA EmergencyStays ==
    ASSUME EMG!EmergencyAssumption, EmgInv, [EMG!Next]_(EMG!vars)
    PROVE  EmgInv' /\ QuietStep
  <1>1. ASSUME NEW p \in Requests, NEW message \in Messages, EMG!Receive(p, message)
        PROVE  EmgInv' /\ QuietStep
    <2> DEFINE detected == EMG!Detected(message)
               open == {alerts[a].track : a \in {b \in EMG!Alerts : EMG!Open(b)}}
               r == [op |-> "message", detected |-> detected, open |-> open]
    <2>1. request' = [request EXCEPT ![p] = r] /\ UNCHANGED <<alerts, timers, tick>>
      BY <1>1 DEF EMG!Receive, EMG!Starts
    <2>2. detected \subseteq EMG!Tracks
      BY DEF EMG!Detected, EMG!TrackFor, EMG!Tracks
    <2> HIDE DEF open, detected
    <2>3. r.op = "message" /\ r.detected = detected
      OBVIOUS
    <2> HIDE DEF r
    <2>4. RequestSound(r)
      BY <2>2, <2>3 DEF RequestSound
    <2> QED
      BY <2>1, <2>4, RequestMoves
  <1>2. ASSUME NEW p \in Requests, NEW a \in EMG!Alerts, EMG!Acknowledge(p, a)
        PROVE  EmgInv' /\ QuietStep
    <2> DEFINE r == [op |-> "acknowledge", alert |-> a]
    <2>1. request' = [request EXCEPT ![p] = r] /\ UNCHANGED <<alerts, timers, tick>>
      BY <1>2 DEF EMG!Acknowledge, EMG!Starts
    <2>2. RequestSound(r)
      BY DEF RequestSound
    <2> HIDE DEF r
    <2> QED
      BY <2>1, <2>2, RequestMoves
  <1>3. ASSUME NEW p \in Requests, NEW a \in EMG!Alerts, EMG!Downgrade(p, a)
        PROVE  EmgInv' /\ QuietStep
    <2> DEFINE still == \E b \in EMG!Alerts \ {a} : alerts[b].track = "safety" /\ ~alerts[b].downgraded
               r == [op |-> "downgrade", alert |-> a, stillOpen |-> still]
    <2>1. /\ request' = [request EXCEPT ![p] = r] /\ UNCHANGED <<alerts, timers, tick>>
          /\ a \notin EMG!Taken
      BY <1>3 DEF EMG!Downgrade, EMG!Starts
    <2> HIDE DEF still
    <2>2. r.op = "downgrade" /\ r.alert = a
      OBVIOUS
    <2> HIDE DEF r
    <2>3. RequestSound(r)
      BY <2>1, <2>2 DEF RequestSound
    <2> QED
      BY <2>1, <2>3, RequestMoves
  <1>4. ASSUME NEW p \in Requests, EMG!CommitAcknowledge(p) \/ EMG!CommitDowngrade(p)
        PROVE  EmgInv' /\ QuietStep
    <2> PICK a : a = request[p].alert
      OBVIOUS
    <2>1. /\ request[p].op \in {"acknowledge", "downgrade"}
          /\ timers' = timers \ {a} /\ tick' = tick /\ request' = [request EXCEPT ![p] = EMG!None]
      BY <1>4 DEF EMG!CommitAcknowledge, EMG!CommitDowngrade, EMG!Ends
    <2>2. a \in EMG!Alerts /\ a \notin EMG!Taken
      BY <1>4 DEF EmgInv, RequestSound, EMG!CommitAcknowledge, EMG!CommitDowngrade
    <2>3. \E t : /\ IsAlert(t) /\ t.paged = alerts[a].paged /\ (t.acknowledged \/ t.downgraded)
                 /\ alerts' = [alerts EXCEPT ![a] = t]
      <3> PICK old : old = alerts[a]
        OBVIOUS
      <3> PICK track, paged, step, acknowledged, downgraded :
              old = [track |-> track, paged |-> paged, step |-> step,
                     acknowledged |-> acknowledged, downgraded |-> downgraded]
        <4>1. IsAlert(old)
          BY <2>2, AlertsAreThere
        <4> QED
          BY <4>1 DEF IsAlert
      <3>1. CASE EMG!CommitAcknowledge(p)
        <4> PICK t : t = [old EXCEPT !.acknowledged = TRUE]
          OBVIOUS
        <4>1. alerts' = [alerts EXCEPT ![a] = t]
          BY <3>1 DEF EMG!CommitAcknowledge
        <4>2. IsAlert(t) /\ t.paged = old.paged /\ t.acknowledged
          BY DEF IsAlert
        <4> QED
          BY <4>1, <4>2
      <3>2. CASE EMG!CommitDowngrade(p)
        <4> PICK t : t = [old EXCEPT !.downgraded = TRUE]
          OBVIOUS
        <4>1. alerts' = [alerts EXCEPT ![a] = t]
          BY <3>2 DEF EMG!CommitDowngrade
        <4>2. IsAlert(t) /\ t.paged = old.paged /\ t.downgraded
          BY DEF IsAlert
        <4> QED
          BY <4>1, <4>2
      <3> QED
        BY <1>4, <3>1, <3>2
    <2> QED
      BY <2>1, <2>2, <2>3, AlertIsAnswered
  <1>5. ASSUME NEW p \in Requests, EMG!MarkInterrupted(p) \/ EMG!Decline(p)
        PROVE  EmgInv' /\ QuietStep
    <2>1. /\ UNCHANGED <<alerts, timers, tick>>
          /\ \E op \in {"interrupted", "closed"} : request' = [request EXCEPT ![p] = [op |-> op]]
      BY <1>5 DEF EMG!MarkInterrupted, EMG!Decline, EMG!Starts
    <2> PICK op \in {"interrupted", "closed"} : request' = [request EXCEPT ![p] = [op |-> op]]
      BY <2>1
    <2>2. RequestSound([op |-> op])
      BY DEF RequestSound
    <2> QED
      BY <2>1, <2>2, RequestMoves
  <1>6. ASSUME NEW p \in Requests, EMG!CommitStatus(p) \/ EMG!RequestLost(p)
        PROVE  EmgInv' /\ QuietStep
    <2>1. UNCHANGED <<alerts, timers, tick>> /\ request' = [request EXCEPT ![p] = EMG!None]
      BY <1>6 DEF EMG!CommitStatus, EMG!RequestLost, EMG!Ends
    <2> QED
      BY <2>1, NoRequestIsSound, RequestMoves
  <1>7. ASSUME NEW w \in Workers, NEW a \in EMG!Alerts, EMG!TakeTimer(w, a)
        PROVE  EmgInv' /\ QuietStep
    <2> DEFINE t == [op |-> "escalate", alert |-> a, open |-> EMG!Open(a), step |-> alerts[a].step]
    <2>1. /\ tick' = [tick EXCEPT ![w] = t] /\ UNCHANGED <<alerts, timers, request>>
          /\ a \in timers /\ a \notin EMG!Taken \cup EMG!HeldByStaff
      BY <1>7 DEF EMG!TakeTimer
    <2>2. TickSound(t)
      BY <2>1 DEF TickSound
    <2>3. t.alert = a
      OBVIOUS
    <2> HIDE DEF t
    <2> QED
      BY <2>1, <2>2, <2>3, TickMoves
  <1>8. ASSUME NEW w \in Workers, EMG!HandlerFails(w)
        PROVE  EmgInv' /\ QuietStep
    <2>1. tick' = [tick EXCEPT ![w] = EMG!None] /\ UNCHANGED <<alerts, timers, request>>
      BY <1>8 DEF EMG!HandlerFails
    <2>2. TickSound(EMG!None)
      BY DEF TickSound
    <2> QED
      BY <2>1, <2>2, TickMoves
  <1>9. CASE EMG!CloseAsNotAnInquiry \/ UNCHANGED EMG!vars
    <2>1. UNCHANGED <<alerts, timers, tick, request>>
      BY <1>9 DEF EMG!CloseAsNotAnInquiry, EMG!vars
    <2> QED
      BY <2>1 DEF EmgInv, TickSound, RequestSound, QuietStep, EMG!EscalationGoesOn, EMG!Escalates,
                  EMG!Alerts, EMG!Open, EMG!Taken, EMG!Taking, EMG!None
  <1> QED
    BY <1>1, <1>2, <1>3, <1>4, <1>5, <1>6, <1>7, <1>8, <1>9, EmergencyIsRaised, EscalationIsHandled
       DEF EMG!Next, EMG!Request, EMG!Tick

\* The chain of people paged for an emergency goes on until somebody answers,
\* and then ends: an open alert that was ever told to anybody has a timer, and
\* nobody is added to an answered one, whatever messages, staff, ticks,
\* failures and deadlocks interleave.
THEOREM EmergenciesAreFollowedUp ==
    ASSUME EMG!EmergencyAssumption
    PROVE  EMG!Spec => []EMG!EscalationGoesOn /\ EMG!AnsweredMeansQuiet
  <1>1. EMG!Init => EmgInv
    <2> SUFFICES ASSUME EMG!Init PROVE EmgInv
      OBVIOUS
    <2>1. /\ alerts = <<>> /\ timers = {} /\ tick = [w \in Workers |-> EMG!None]
          /\ request = [p \in Requests |-> EMG!None]
      BY DEF EMG!Init
    <2>2. alerts \in Seq({}) /\ EMG!Alerts = {}
      BY <2>1 DEF EMG!Alerts
    <2>3. \E S : alerts \in Seq(S) /\ \A x \in S : IsAlert(x)
      BY <2>2
    <2>4. tick \in [Workers -> {EMG!None}] /\ request \in [Requests -> {EMG!None}]
      BY <2>1
    <2>5. (\E S : tick \in [Workers -> S]) /\ (\E S : request \in [Requests -> S])
      BY <2>4
    <2>6. (\A w \in Workers : TickSound(tick[w])) /\ (\A p \in Requests : RequestSound(request[p]))
      BY <2>1, NoRequestIsSound DEF TickSound
    <2> QED
      BY <2>1, <2>2, <2>3, <2>5, <2>6 DEF EmgInv, EMG!EscalationGoesOn
  <1>2. EMG!EmergencyAssumption /\ EmgInv /\ [EMG!Next]_(EMG!vars) => EmgInv' /\ QuietStep
    BY EmergencyStays
  <1>3. EmgInv => EMG!EscalationGoesOn
    BY DEF EmgInv
  <1>4. QuietStep => [\A a \in EMG!Alerts : ~EMG!Open(a) => alerts'[a].paged = alerts[a].paged]_(EMG!vars)
    BY DEF QuietStep
  <1> QED
    BY <1>1, <1>2, <1>3, <1>4, PTL DEF EMG!Spec, EMG!AnsweredMeansQuiet

-----------------------------------------------------------------------------
(* The outbox.                                                             *)

CONSTANTS Staff, MaxRows, MaxAttempts, Clients, Addresses, Batch, WatchBatch, Movers, MaxLost
VARIABLES emails, contact, gates, drain, copies, lost, aged, onDuty, followups, told

OUT == INSTANCE NotificationOutbox WITH outbox <- emails

IsRow(x) ==
    \E to, address, attempts, status, deferred :
        x = [to |-> to, address |-> address, attempts |-> attempts, status |-> status, waiting |-> deferred]

\* A row that is to be sent has no copy the outbox still owes an account of.
RowSound(r) ==
    /\ IsRow(emails[r])
    /\ copies[r] \in Nat /\ lost[r] \in Nat /\ copies[r] <= lost[r] + 1
    /\ emails[r].status \in {"pending", "held"} /\ r \notin OUT!Locked => copies[r] <= lost[r]

\* A drain holds rows that are to be sent; what it will write of one tells
\* whether the provider took a copy.
DrainSound(w) == \A r \in DOMAIN drain[w] :
    /\ r \in OUT!Rows /\ emails[r].status \in {"pending", "held"}
    /\ IsRow(drain[w][r])
    /\ drain[w][r].status # "sent" => copies[r] <= lost[r]

OutInv ==
    /\ \E S : emails \in Seq(S)
    /\ copies \in Seq(Nat) /\ lost \in Seq(Nat)
    /\ Len(copies) = Len(emails) /\ Len(lost) = Len(emails)
    /\ \E S : drain \in [Workers -> S]
    /\ \A r \in OUT!Rows : RowSound(r)
    /\ \A w \in Workers : DrainSound(w)
    /\ \A v, w \in Workers : DOMAIN drain[v] \cap DOMAIN drain[w] # {} => v = w

ReportsStay == \A r \in OUT!Rows : emails[r].status \in {"delivered", "bounced"}
                                      => emails'[r].status \in {"delivered", "bounced"}

\* What is known of the three lists.
LEMMA OutboxLists ==
    ASSUME OutInv
    PROVE  /\ OUT!Rows = 1..Len(emails) /\ Len(emails) \in Nat
           /\ DOMAIN copies = OUT!Rows /\ DOMAIN lost = OUT!Rows
           /\ \A r \in OUT!Rows : RowSound(r)
  BY DEF OutInv, OUT!Rows

\* Whatever is in its fields, a record of these fields is a row.
LEMMA FieldsMakeARow ==
    \A to, address, attempts, status, deferred :
        IsRow([to |-> to, address |-> address, attempts |-> attempts, status |-> status, waiting |-> deferred])
  BY Zenon DEF IsRow

\* A row keeps its form and has a status of its own when one field is written.
LEMMA RowWritten ==
    ASSUME NEW x, IsRow(x), NEW s
    PROVE  /\ IsRow([x EXCEPT !.status = s]) /\ [x EXCEPT !.status = s].status = s
           /\ IsRow([x EXCEPT !.waiting = s]) /\ [x EXCEPT !.waiting = s].status = x.status
           /\ IsRow([x EXCEPT !.attempts = s]) /\ [x EXCEPT !.attempts = s].status = x.status
  <1> PICK to, address, attempts, status, deferred :
          x = [to |-> to, address |-> address, attempts |-> attempts, status |-> status, waiting |-> deferred]
    BY DEF IsRow
  <1>1. \A a, b, c : IsRow([to |-> to, address |-> address, attempts |-> a, status |-> b, waiting |-> c])
    BY FieldsMakeARow
  <1>2. ASSUME NEW y, NEW a, NEW b, NEW c,
               y = [to |-> to, address |-> address, attempts |-> a, status |-> b, waiting |-> c]
        PROVE  IsRow(y)
    BY <1>1, <1>2, Zenon
  <1>3. IsRow([x EXCEPT !.status = s])
    <2> PICK y : y = [x EXCEPT !.status = s]
      OBVIOUS
    <2>1. y = [to |-> to, address |-> address, attempts |-> attempts, status |-> s, waiting |-> deferred]
      OBVIOUS
    <2> QED
      BY <1>2, <2>1
  <1>4. IsRow([x EXCEPT !.waiting = s])
    <2> PICK y : y = [x EXCEPT !.waiting = s]
      OBVIOUS
    <2>1. y = [to |-> to, address |-> address, attempts |-> attempts, status |-> status, waiting |-> s]
      OBVIOUS
    <2> QED
      BY <1>2, <2>1
  <1>5. IsRow([x EXCEPT !.attempts = s])
    <2> PICK y : y = [x EXCEPT !.attempts = s]
      OBVIOUS
    <2>1. y = [to |-> to, address |-> address, attempts |-> s, status |-> status, waiting |-> deferred]
      OBVIOUS
    <2> QED
      BY <1>2, <2>1
  <1>6. /\ [x EXCEPT !.status = s].status = s
        /\ [x EXCEPT !.waiting = s].status = x.status
        /\ [x EXCEPT !.attempts = s].status = x.status
    OBVIOUS
  <1> QED
    BY <1>3, <1>4, <1>5, <1>6

\* A row the provider did not take, or took without an answer, is not written as sent.
LEMMA ProcessedIsAccountedFor ==
    ASSUME NEW row, IsRow(row), NEW answer \in OUT!Answers
    PROVE  /\ IsRow(OUT!Processed(row, answer))
           /\ OUT!Stopped(row) = "no" /\ answer = "accepted" => OUT!Processed(row, answer).status = "sent"
           /\ OUT!Processed(row, answer).status = "sent" => OUT!Stopped(row) = "no" /\ answer = "accepted"
  <1> PICK to, address, attempts, status, deferred :
          row = [to |-> to, address |-> address, attempts |-> attempts, status |-> status, waiting |-> deferred]
    BY DEF IsRow
  <1>1. OUT!Stopped(row) \in {"no", "held", "suppressed"}
    BY DEF OUT!Stopped
  <1>2. CASE OUT!Stopped(row) # "no"
    <2>1. PICK s \in {"held", "suppressed"} : OUT!Processed(row, answer) = [row EXCEPT !.status = s]
      BY <1>1, <1>2 DEF OUT!Processed
    <2>2. PICK res : res = [row EXCEPT !.status = s]
      OBVIOUS
    <2>3. IsRow(res) /\ res.status # "sent"
      BY <2>2, RowWritten
    <2>4. OUT!Processed(row, answer) = res
      BY <2>1, <2>2
    <2> QED
      BY <1>2, <2>3, <2>4, Zenon
  <1>3. CASE OUT!Stopped(row) = "no" /\ answer = "accepted"
    <2>1. PICK n : n = attempts + 1
      OBVIOUS
    <2>2. OUT!Processed(row, answer) = [row EXCEPT !.status = "sent", !.attempts = n]
      BY <1>3, <2>1 DEF OUT!Processed
    <2>3. OUT!Processed(row, answer) =
             [to |-> to, address |-> address, attempts |-> n, status |-> "sent", waiting |-> deferred]
      BY <2>2
    <2>4. PICK res : res = [to |-> to, address |-> address, attempts |-> n, status |-> "sent", waiting |-> deferred]
      OBVIOUS
    <2>5. IsRow(res) /\ res.status = "sent"
      BY <2>4, FieldsMakeARow
    <2>6. OUT!Processed(row, answer) = res
      BY <2>3, <2>4
    <2> QED
      BY <1>3, <2>5, <2>6, Zenon
  <1>4. CASE OUT!Stopped(row) = "no" /\ answer # "accepted"
    <2>1. PICK n, giveUp, later : /\ n = attempts + 1 /\ giveUp = (n >= MaxAttempts) /\ later = ~giveUp
      OBVIOUS
    <2>2. PICK s : s = (IF giveUp THEN "failed" ELSE "pending")
      OBVIOUS
    <2>3. OUT!Processed(row, answer) = [row EXCEPT !.attempts = n, !.waiting = later, !.status = s]
      BY <1>4, <2>1, <2>2 DEF OUT!Processed, OUT!Refused
    <2>4. OUT!Processed(row, answer) =
             [to |-> to, address |-> address, attempts |-> n, status |-> s, waiting |-> later]
      BY <2>3
    <2>5. OUT!Processed(row, answer).status # "sent"
      BY <2>2, <2>4
    <2> QED
      BY <1>4, <2>4, <2>5 DEF IsRow
  <1> QED
    BY <1>2, <1>3, <1>4

\* A drain ends: its rows are free again and the others' stay as they are.
LEMMA DrainEnds ==
    ASSUME OutInv, NEW w \in Workers, drain' = [drain EXCEPT ![w] = OUT!Idle]
    PROVE  /\ \E S : drain' \in [Workers -> S]
           /\ \A v \in Workers : drain'[v] = IF v = w THEN <<>> ELSE drain[v]
           /\ \A r \in OUT!Locked' : r \in OUT!Locked /\ r \notin DOMAIN drain[w]
           /\ \A r \in OUT!Locked : r \in OUT!Locked' \/ r \in DOMAIN drain[w]
           /\ \A u, v \in Workers : DOMAIN drain'[u] \cap DOMAIN drain'[v] # {} => u = v
  <1>1. \A v \in Workers : drain'[v] = IF v = w THEN <<>> ELSE drain[v]
    BY DEF OutInv, OUT!Idle
  <1>2. drain' \in [Workers -> {drain[v] : v \in Workers} \cup {OUT!Idle}]
    BY <1>1 DEF OutInv, OUT!Idle
  <1>3. DOMAIN <<>> = {}
    OBVIOUS
  <1>4. \A v \in Workers : DOMAIN drain'[v] = IF v = w THEN {} ELSE DOMAIN drain[v]
    BY <1>1, <1>3
  <1>5. \A u, v \in Workers : DOMAIN drain'[u] \cap DOMAIN drain'[v] # {} => u = v
    BY <1>4 DEF OutInv
  <1>6. \A r \in OUT!Locked' : r \in OUT!Locked /\ r \notin DOMAIN drain[w]
    <2> SUFFICES ASSUME NEW r \in OUT!Locked' PROVE r \in OUT!Locked /\ r \notin DOMAIN drain[w]
      OBVIOUS
    <2>1. PICK v \in Workers : r \in DOMAIN drain'[v]
      BY DEF OUT!Locked
    <2>2. v # w /\ r \in DOMAIN drain[v]
      BY <1>4, <2>1
    <2> QED
      BY <2>2 DEF OutInv, OUT!Locked
  <1>7. \A r \in OUT!Locked : r \in OUT!Locked' \/ r \in DOMAIN drain[w]
    <2> SUFFICES ASSUME NEW r \in OUT!Locked, r \notin DOMAIN drain[w] PROVE r \in OUT!Locked'
      OBVIOUS
    <2>1. PICK v \in Workers : r \in DOMAIN drain[v]
      BY DEF OUT!Locked
    <2>2. r \in DOMAIN drain'[v]
      BY <1>4, <2>1
    <2> QED
      BY <2>2 DEF OUT!Locked
  <1> QED
    BY <1>1, <1>2, <1>5, <1>6, <1>7

LEMMA OutStays ==
    ASSUME OutInv, [OUT!Next]_(OUT!vars)
    PROVE  OutInv' /\ ReportsStay
  <1>r. /\ OUT!Rows = 1..Len(emails) /\ Len(emails) \in Nat
        /\ DOMAIN copies = OUT!Rows /\ DOMAIN lost = OUT!Rows
        /\ \A r \in OUT!Rows : RowSound(r)
    BY OutboxLists
  \* The outbox is rewritten row by row.
  <1>f. ASSUME NEW f, f = [r \in OUT!Rows |-> f[r]]
        PROVE  (\E S : f \in Seq(S)) /\ Len(f) = Len(emails) /\ DOMAIN f = OUT!Rows
    <2>1. f \in [1..Len(emails) -> {f[r] : r \in OUT!Rows}]
      BY <1>f, <1>r
    <2>2. f \in Seq({f[r] : r \in OUT!Rows})
      BY <1>r, <2>1, FunctionsAreSequences
    <2>3. DOMAIN f = 1..Len(emails)
      BY <2>1
    <2>4. Len(f) = Len(emails)
      BY <1>r, <2>2, <2>3
    <2> QED
      BY <1>r, <2>2, <2>3, <2>4
  <1>g. ASSUME NEW f, f = [r \in OUT!Rows |-> f[r]], \A r \in OUT!Rows : f[r] \in Nat
        PROVE  f \in Seq(Nat) /\ Len(f) = Len(emails)
    <2>1. f \in [1..Len(emails) -> Nat]
      BY <1>g, <1>r
    <2>2. f \in Seq(Nat)
      BY <1>r, <2>1, FunctionsAreSequences
    <2> QED
      BY <1>f, <1>g, <2>2
  <1>1. ASSUME NEW p \in OUT!People, NEW later \in BOOLEAN, OUT!Enqueue(p, later) PROVE OutInv' /\ ReportsStay
    <2> PICK new : new = OUT!PlanDelivery(p, later)
      OBVIOUS
    <2>1. /\ emails' = Append(emails, new) /\ copies' = Append(copies, 0) /\ lost' = Append(lost, 0)
          /\ UNCHANGED drain
      BY <1>1 DEF OUT!Enqueue
    <2>2. IsRow(new)
      BY DEF OUT!PlanDelivery, IsRow
    <2> PICK S : emails \in Seq(S)
      BY DEF OutInv
    <2> PICK n : n = Len(emails) + 1
      OBVIOUS
    <2>3. emails \in Seq(S \cup {new})
      <3>1. emails \in [1..Len(emails) -> S]
        OBVIOUS
      <3>2. emails \in [1..Len(emails) -> S \cup {new}]
        BY <3>1
      <3> QED
        BY <1>r, <3>2, FunctionsAreSequences
    <2>4. /\ emails' \in Seq(S \cup {new}) /\ Len(emails') = n /\ emails'[n] = new
          /\ \A r \in OUT!Rows : emails'[r] = emails[r]
      BY <1>r, <2>1, <2>3
    <2>5. /\ copies' \in Seq(Nat) /\ Len(copies') = n /\ copies'[n] = 0
          /\ \A r \in OUT!Rows : copies'[r] = copies[r]
      BY <1>r, <2>1 DEF OutInv
    <2>6. /\ lost' \in Seq(Nat) /\ Len(lost') = n /\ lost'[n] = 0
          /\ \A r \in OUT!Rows : lost'[r] = lost[r]
      BY <1>r, <2>1 DEF OutInv
    <2>7. OUT!Rows' = OUT!Rows \cup {n} /\ n \notin OUT!Rows
      <3>1. OUT!Rows' = 1..n
        BY <2>4 DEF OUT!Rows
      <3> QED
        BY <1>r, <3>1
    <2>8. OUT!Locked' = OUT!Locked
      BY <2>1 DEF OUT!Locked
    <2>9. \A r \in OUT!Rows' : RowSound(r)'
      <3>1. RowSound(n)'
        BY <2>2, <2>4, <2>5, <2>6 DEF RowSound
      <3>2. ASSUME NEW r \in OUT!Rows PROVE RowSound(r)'
        <4>1. RowSound(r)
          BY <1>r
        <4> QED
          BY <2>4, <2>5, <2>6, <2>8, <4>1 DEF RowSound
      <3> QED
        BY <2>7, <3>1, <3>2
    <2>10. \A w \in Workers : DrainSound(w)'
      BY ZenonT(30), <2>1, <2>4, <2>5, <2>6, <2>7 DEF OutInv, DrainSound
    <2>11. ReportsStay
      BY <2>4 DEF ReportsStay
    <2>12. (\E T : emails' \in Seq(T)) /\ Len(copies') = Len(emails') /\ Len(lost') = Len(emails')
      BY <2>4, <2>5, <2>6
    <2> QED
      BY <2>1, <2>5, <2>6, <2>9, <2>10, <2>11, <2>12 DEF OutInv
  <1>2. ASSUME NEW w \in Workers, OUT!DrainSends(w) PROVE OutInv' /\ ReportsStay
    <2>1. PICK answer \in [OUT!Claimed -> OUT!Answers] :
             /\ \A r \in OUT!Claimed : OUT!Stopped(emails[r]) # "no" => answer[r] = "refused"
             /\ drain' = [drain EXCEPT ![w] = [r \in OUT!Claimed |-> OUT!Processed(emails[r], answer[r])]]
             /\ copies' = [r \in OUT!Rows |-> copies[r] +
                    (IF r \in OUT!Claimed /\ OUT!Stopped(emails[r]) = "no" /\ answer[r] # "refused" THEN 1 ELSE 0)]
             /\ lost' = [r \in OUT!Rows |-> lost[r] +
                    (IF (r \in OUT!Claimed /\ OUT!Stopped(emails[r]) = "no" /\ answer[r] # "refused")
                        /\ answer[r] = "unanswered" THEN 1 ELSE 0)]
      BY <1>2 DEF OUT!DrainSends
    <2> PICK claimed : claimed = OUT!Claimed
      OBVIOUS
    <2> PICK mine : mine = [r \in claimed |-> OUT!Processed(emails[r], answer[r])]
      OBVIOUS
    <2>2. drain[w] = <<>> /\ UNCHANGED emails
      BY <1>2 DEF OUT!DrainSends, OUT!Idle
    <2>3. ASSUME NEW r \in claimed
          PROVE  /\ r \in OUT!Rows /\ r \notin OUT!Locked /\ emails[r].status \in {"pending", "held"}
                 /\ answer[r] \in OUT!Answers /\ mine[r] = OUT!Processed(emails[r], answer[r])
      BY <2>1, <2>3 DEF OUT!Claimed, OUT!Claimable, OUT!Due
    <2>4. \A v \in Workers : drain'[v] = IF v = w THEN mine ELSE drain[v]
      BY <2>1 DEF OutInv
    <2>5. DOMAIN mine = claimed /\ DOMAIN <<>> = {}
      OBVIOUS
    <2>6. drain' \in [Workers -> {drain[v] : v \in Workers} \cup {mine}]
      BY <2>1, <2>4 DEF OutInv
    <2>7. ASSUME NEW r \in OUT!Rows, r \notin claimed PROVE copies'[r] = copies[r] /\ lost'[r] = lost[r]
      <3>1. RowSound(r)
        BY <1>r
      <3>2. copies'[r] = copies[r] + 0 /\ lost'[r] = lost[r] + 0
        BY <2>1, <2>7
      <3> QED
        BY <3>1, <3>2 DEF RowSound
    <2>8. ASSUME NEW r \in claimed
          PROVE  /\ copies'[r] \in Nat /\ lost'[r] \in Nat /\ copies'[r] <= lost'[r] + 1
                 /\ IsRow(mine[r]) /\ (mine[r].status # "sent" => copies'[r] <= lost'[r])
      <3>1. copies[r] \in Nat /\ lost[r] \in Nat /\ copies[r] <= lost[r] /\ IsRow(emails[r])
        BY <1>r, <2>3 DEF RowSound
      <3>2. IsRow(mine[r]) /\ (OUT!Stopped(emails[r]) = "no" /\ answer[r] = "accepted" => mine[r].status = "sent")
        BY <2>3, <3>1, ProcessedIsAccountedFor
      <3>3. CASE OUT!Stopped(emails[r]) = "no" /\ answer[r] = "accepted"
        <4>1. copies'[r] = copies[r] + 1 /\ lost'[r] = lost[r] + 0
          BY <2>1, <2>3, <3>3
        <4> QED
          BY <3>1, <3>2, <3>3, <4>1
      <3>4. CASE OUT!Stopped(emails[r]) = "no" /\ answer[r] = "unanswered"
        <4>1. copies'[r] = copies[r] + 1 /\ lost'[r] = lost[r] + 1
          BY <2>1, <2>3, <3>4
        <4> QED
          BY <3>1, <3>2, <4>1
      <3>5. CASE answer[r] = "refused"
        <4>1. copies'[r] = copies[r] + 0 /\ lost'[r] = lost[r] + 0
          BY <2>1, <2>3, <3>5
        <4> QED
          BY <3>1, <3>2, <4>1
      <3> QED
        BY <2>1, <2>3, <3>3, <3>4, <3>5 DEF OUT!Answers
    <2>9. \A r : r \in OUT!Locked' <=> r \in OUT!Locked \/ r \in claimed
      <3>1. \A v \in Workers : DOMAIN drain'[v] = IF v = w THEN claimed ELSE DOMAIN drain[v]
        BY <2>4, <2>5
      <3>2. DOMAIN drain[w] = {}
        BY <2>2, <2>5
      <3> QED
        BY <3>1, <3>2 DEF OUT!Locked
    <2>10. OUT!Rows' = OUT!Rows
      BY <2>2 DEF OUT!Rows
    <2>11. ASSUME NEW r \in OUT!Rows PROVE RowSound(r)'
      <3>1. RowSound(r)
        BY <1>r
      <3>2. CASE r \in claimed
        BY <2>2, <2>8, <2>9, <3>1, <3>2 DEF RowSound
      <3>3. CASE r \notin claimed
        BY <2>2, <2>7, <2>9, <3>1, <3>3 DEF RowSound
      <3> QED
        BY <3>2, <3>3
    <2>12. ASSUME NEW v \in Workers PROVE DrainSound(v)'
      <3>1. CASE v = w
        BY <2>2, <2>3, <2>4, <2>5, <2>8, <2>10, <3>1 DEF DrainSound
      <3>2. CASE v # w
        <4> SUFFICES ASSUME NEW r \in DOMAIN drain[v]
                     PROVE  /\ r \in OUT!Rows' /\ emails'[r].status \in {"pending", "held"}
                            /\ IsRow(drain'[v][r]) /\ (drain'[v][r].status # "sent" => copies'[r] <= lost'[r])
          BY <2>4, <3>2 DEF DrainSound
        <4>1. /\ r \in OUT!Rows /\ emails[r].status \in {"pending", "held"}
              /\ IsRow(drain[v][r]) /\ (drain[v][r].status # "sent" => copies[r] <= lost[r])
          BY DEF OutInv, DrainSound
        <4>2. r \notin claimed
          BY <2>3 DEF OUT!Locked
        <4> QED
          BY <2>2, <2>4, <2>7, <2>10, <3>2, <4>1, <4>2
      <3> QED
        BY <3>1, <3>2
    <2>13. \A u, v \in Workers : DOMAIN drain'[u] \cap DOMAIN drain'[v] # {} => u = v
      <3>1. \A v \in Workers : DOMAIN drain'[v] = IF v = w THEN claimed ELSE DOMAIN drain[v]
        BY <2>4, <2>5
      <3>2. \A v \in Workers : claimed \cap DOMAIN drain[v] = {}
        BY <2>3 DEF OUT!Locked
      <3> QED
        BY <3>1, <3>2 DEF OutInv
    <2>14. \A r \in OUT!Rows : copies'[r] \in Nat /\ lost'[r] \in Nat
      BY <2>11 DEF RowSound
    <2>15. copies' = [r \in OUT!Rows |-> copies'[r]] /\ lost' = [r \in OUT!Rows |-> lost'[r]]
      BY <2>1
    <2>16. copies' \in Seq(Nat) /\ lost' \in Seq(Nat) /\ Len(copies') = Len(emails) /\ Len(lost') = Len(emails)
      BY <1>g, <2>14, <2>15
    <2>17. ReportsStay
      BY <2>2 DEF ReportsStay
    <2>18. \E S : drain' \in [Workers -> S]
      BY <2>6
    <2> QED
      BY <2>2, <2>10, <2>11, <2>12, <2>13, <2>16, <2>17, <2>18 DEF OutInv
  <1>3. ASSUME NEW w \in Workers, OUT!DrainCommit(w) PROVE OutInv' /\ ReportsStay
    <2>1. /\ emails' = [r \in OUT!Rows |-> IF r \in DOMAIN drain[w] THEN drain[w][r] ELSE emails[r]]
          /\ drain' = [drain EXCEPT ![w] = OUT!Idle] /\ UNCHANGED <<copies, lost>>
      BY <1>3 DEF OUT!DrainCommit
    <2>2. /\ \E S : drain' \in [Workers -> S]
          /\ \A v \in Workers : drain'[v] = IF v = w THEN <<>> ELSE drain[v]
          /\ \A r \in OUT!Locked' : r \in OUT!Locked /\ r \notin DOMAIN drain[w]
          /\ \A r \in OUT!Locked : r \in OUT!Locked' \/ r \in DOMAIN drain[w]
          /\ \A u, v \in Workers : DOMAIN drain'[u] \cap DOMAIN drain'[v] # {} => u = v
      BY <2>1, DrainEnds
    <2>3. emails' = [r \in OUT!Rows |-> emails'[r]]
      BY <2>1
    <2>4. (\E S : emails' \in Seq(S)) /\ Len(emails') = Len(emails) /\ OUT!Rows' = OUT!Rows
      BY <1>f, <2>3 DEF OUT!Rows
    <2>5. DrainSound(w)
      BY DEF OutInv
    <2>6. ASSUME NEW r \in OUT!Rows PROVE RowSound(r)'
      <3>1. RowSound(r)
        BY <1>r
      <3>2. CASE r \in DOMAIN drain[w]
        <4>1. emails'[r] = drain[w][r]
          BY <2>1, <3>2
        <4> QED
          BY <2>1, <2>5, <3>1, <3>2, <4>1 DEF RowSound, DrainSound
      <3>3. CASE r \notin DOMAIN drain[w]
        <4>1. emails'[r] = emails[r]
          BY <2>1, <3>3
        <4>2. r \in OUT!Locked => r \in OUT!Locked'
          BY <2>2, <3>3
        <4> QED
          BY <2>1, <3>1, <4>1, <4>2 DEF RowSound
      <3> QED
        BY <3>2, <3>3
    <2>7. ASSUME NEW v \in Workers PROVE DrainSound(v)'
      <3>1. CASE v = w
        BY <2>2, <3>1 DEF DrainSound
      <3>2. CASE v # w
        <4>1. \A r \in DOMAIN drain[v] : r \in OUT!Rows /\ r \notin DOMAIN drain[w]
          BY <3>2 DEF OutInv, DrainSound
        <4>2. \A r \in DOMAIN drain[v] : emails'[r] = emails[r]
          BY <2>1, <4>1
        <4>3. drain'[v] = drain[v] /\ DrainSound(v)
          BY <2>2, <3>2 DEF OutInv
        <4> QED
          BY <2>1, <2>4, <4>2, <4>3 DEF DrainSound
      <3> QED
        BY <3>1, <3>2
    <2>8. ReportsStay
      BY <2>1, <2>5 DEF ReportsStay, DrainSound
    <2> QED
      BY <2>1, <2>2, <2>4, <2>6, <2>7, <2>8 DEF OutInv
  <1>4. ASSUME NEW w \in Workers, OUT!DrainFails(w) PROVE OutInv' /\ ReportsStay
    <2> PICK sent : sent = {r \in DOMAIN drain[w] : drain[w][r].status = "sent"}
      OBVIOUS
    <2>1. /\ lost' = [r \in OUT!Rows |-> lost[r] + (IF r \in sent THEN 1 ELSE 0)]
          /\ drain' = [drain EXCEPT ![w] = OUT!Idle] /\ UNCHANGED <<emails, copies>>
      BY <1>4 DEF OUT!DrainFails
    <2>2. /\ \E S : drain' \in [Workers -> S]
          /\ \A v \in Workers : drain'[v] = IF v = w THEN <<>> ELSE drain[v]
          /\ \A r \in OUT!Locked' : r \in OUT!Locked /\ r \notin DOMAIN drain[w]
          /\ \A r \in OUT!Locked : r \in OUT!Locked' \/ r \in DOMAIN drain[w]
          /\ \A u, v \in Workers : DOMAIN drain'[u] \cap DOMAIN drain'[v] # {} => u = v
      BY <2>1, DrainEnds
    <2>3. ASSUME NEW r \in OUT!Rows
          PROVE  /\ lost'[r] \in Nat /\ lost'[r] >= lost[r]
                 /\ r \in sent => lost'[r] = lost[r] + 1
      <3>1. RowSound(r)
        BY <1>r
      <3>2. lost'[r] = lost[r] + (IF r \in sent THEN 1 ELSE 0)
        BY <2>1
      <3> QED
        BY <3>1, <3>2 DEF RowSound
    <2>4. DrainSound(w)
      BY DEF OutInv
    <2>5. OUT!Rows' = OUT!Rows
      BY <2>1 DEF OUT!Rows
    <2>6. ASSUME NEW r \in OUT!Rows PROVE RowSound(r)'
      <3>1. RowSound(r)
        BY <1>r
      <3>2. CASE r \in DOMAIN drain[w]
        <4>1. copies[r] <= lost'[r]
          BY <2>3, <2>4, <3>1, <3>2 DEF RowSound, DrainSound
        <4> QED
          BY <2>1, <2>3, <3>1, <4>1 DEF RowSound
      <3>3. CASE r \notin DOMAIN drain[w]
        <4>1. r \in OUT!Locked => r \in OUT!Locked'
          BY <2>2, <3>3
        <4> QED
          BY <2>1, <2>3, <3>1, <4>1 DEF RowSound
      <3> QED
        BY <3>2, <3>3
    <2>7. ASSUME NEW v \in Workers PROVE DrainSound(v)'
      <3>1. CASE v = w
        BY <2>2, <3>1 DEF DrainSound
      <3>2. CASE v # w
        <4> SUFFICES ASSUME NEW r \in DOMAIN drain[v]
                     PROVE  /\ r \in OUT!Rows' /\ emails'[r].status \in {"pending", "held"}
                            /\ IsRow(drain'[v][r]) /\ (drain'[v][r].status # "sent" => copies'[r] <= lost'[r])
          BY <2>2, <3>2 DEF DrainSound
        <4>1. /\ r \in OUT!Rows /\ emails[r].status \in {"pending", "held"}
              /\ IsRow(drain[v][r]) /\ (drain[v][r].status # "sent" => copies[r] <= lost[r])
          BY DEF OutInv, DrainSound
        <4>2. copies[r] \in Nat /\ lost[r] \in Nat
          BY <1>r, <4>1 DEF RowSound
        <4>3. lost'[r] \in Nat /\ lost'[r] >= lost[r]
          BY <2>3, <4>1
        <4>4. drain'[v][r].status # "sent" => copies'[r] <= lost'[r]
          BY <2>1, <2>2, <3>2, <4>1, <4>2, <4>3
        <4> QED
          BY <2>1, <2>2, <2>5, <3>2, <4>1, <4>4
      <3> QED
        BY <3>1, <3>2
    <2>8. lost' = [r \in OUT!Rows |-> lost'[r]]
      BY <2>1
    <2>9. lost' \in Seq(Nat) /\ Len(lost') = Len(emails)
      BY <1>g, <2>3, <2>8
    <2>10. ReportsStay
      BY <2>1 DEF ReportsStay
    <2> QED
      BY <2>1, <2>2, <2>5, <2>6, <2>7, <2>9, <2>10 DEF OutInv
  <1>5. ASSUME NEW r \in OUT!Rows, NEW s \in {"delivered", "bounced"}, OUT!RecordDeliveryStatus(r, s)
        PROVE  OutInv' /\ ReportsStay
    <2> PICK new : new = [emails[r] EXCEPT !.status = s]
      OBVIOUS
    <2>1. r \notin OUT!Locked /\ emails' = [emails EXCEPT ![r] = new] /\ UNCHANGED <<drain, copies, lost>>
      BY <1>5 DEF OUT!RecordDeliveryStatus
    <2>2. IsRow(new) /\ new.status = s
      <3>1. IsRow(emails[r])
        BY <1>r DEF RowSound
      <3>2. IsRow([emails[r] EXCEPT !.status = s]) /\ [emails[r] EXCEPT !.status = s].status = s
        BY <3>1, RowWritten
      <3> QED
        BY <3>2
    <2> PICK S : emails \in Seq(S)
      BY DEF OutInv
    <2>3. \A q \in OUT!Rows : emails'[q] = IF q = r THEN new ELSE emails[q]
      BY <2>1 DEF OUT!Rows
    <2>4. emails' = [q \in OUT!Rows |-> emails'[q]]
      BY <2>1 DEF OUT!Rows
    <2>5. (\E T : emails' \in Seq(T)) /\ Len(emails') = Len(emails) /\ OUT!Rows' = OUT!Rows
      BY <1>f, <2>4 DEF OUT!Rows
    <2>6. OUT!Locked' = OUT!Locked
      BY <2>1 DEF OUT!Locked
    <2>7. ASSUME NEW q \in OUT!Rows PROVE RowSound(q)'
      <3>1. RowSound(q)
        BY <1>r
      <3>2. CASE q = r
        BY <2>1, <2>2, <2>3, <3>1, <3>2 DEF RowSound
      <3>3. CASE q # r
        BY <2>1, <2>3, <2>6, <3>1, <3>3 DEF RowSound
      <3> QED
        BY <3>2, <3>3
    <2>8. ASSUME NEW v \in Workers PROVE DrainSound(v)'
      <3>1. \A q \in DOMAIN drain[v] : q \in OUT!Rows /\ q # r
        BY <2>1 DEF OutInv, DrainSound, OUT!Locked
      <3>2. \A q \in DOMAIN drain[v] : emails'[q] = emails[q]
        BY <2>3, <3>1
      <3>3. DrainSound(v)
        BY DEF OutInv
      <3> QED
        BY <2>1, <2>5, <3>2, <3>3 DEF DrainSound
    <2>9. ReportsStay
      BY <2>2, <2>3 DEF ReportsStay
    <2> QED
      BY <2>1, <2>5, <2>7, <2>8, <2>9 DEF OutInv
  <1>6. CASE OUT!TimePasses
    <2>1. /\ emails' = [r \in OUT!Rows |-> [emails[r] EXCEPT !.waiting = FALSE]] /\ UNCHANGED <<drain, copies, lost>>
      BY <1>6 DEF OUT!TimePasses
    <2>2. ASSUME NEW r \in OUT!Rows PROVE IsRow(emails'[r]) /\ emails'[r].status = emails[r].status
      <3>1. IsRow(emails[r]) /\ emails'[r] = [emails[r] EXCEPT !.waiting = FALSE]
        BY <1>r, <2>1 DEF RowSound
      <3>2. /\ IsRow([emails[r] EXCEPT !.waiting = FALSE])
            /\ [emails[r] EXCEPT !.waiting = FALSE].status = emails[r].status
        BY <3>1, RowWritten
      <3> QED
        BY <3>1, <3>2
    <2>3. emails' = [r \in OUT!Rows |-> emails'[r]]
      BY <2>1
    <2>4. (\E T : emails' \in Seq(T)) /\ Len(emails') = Len(emails) /\ OUT!Rows' = OUT!Rows
      BY <1>f, <2>3 DEF OUT!Rows
    <2>5. OUT!Locked' = OUT!Locked
      BY <2>1 DEF OUT!Locked
    <2>6. \A r \in OUT!Rows : RowSound(r)'
      BY <1>r, <2>1, <2>2, <2>5 DEF RowSound
    <2>7. \A w \in Workers : DrainSound(w)'
      BY <2>1, <2>2, <2>4 DEF OutInv, DrainSound
    <2>8. ReportsStay
      BY <2>2 DEF ReportsStay
    <2> QED
      BY <2>1, <2>4, <2>6, <2>7, <2>8 DEF OutInv
  <1>7. ASSUME UNCHANGED <<emails, drain, copies, lost>> PROVE OutInv' /\ ReportsStay
    <2>1. OUT!Rows' = OUT!Rows /\ OUT!Locked' = OUT!Locked
      BY <1>7 DEF OUT!Rows, OUT!Locked
    <2>2. \A r \in OUT!Rows' : RowSound(r)'
      BY <1>7, <1>r, <2>1 DEF RowSound
    <2>3. \A w \in Workers : DrainSound(w)'
      BY <1>7, <2>1 DEF OutInv, DrainSound
    <2>4. ReportsStay
      BY <1>7 DEF ReportsStay
    <2> QED
      BY <1>7, <2>2, <2>3, <2>4 DEF OutInv
  <1>8. CASE \/ OUT!DeliveryWatch \/ (\E r \in OUT!Rows : OUT!GrowOld(r)) \/ UNCHANGED OUT!vars
             \/ (\E p \in Movers, a \in OUT!Contacts : OUT!ChangeAddress(p, a))
             \/ \E g \in {"vendor", "wording"} : OUT!ChangeGate(g)
    BY <1>7, <1>8 DEF OUT!DeliveryWatch, OUT!GrowOld, OUT!ChangeAddress, OUT!ChangeGate, OUT!vars, OUT!watchVars
  <1> QED
    BY <1>1, <1>2, <1>3, <1>4, <1>5, <1>6, <1>8 DEF OUT!Next, OUT!Drain

LEMMA OutStarts == OUT!Init => OutInv
  <1> SUFFICES ASSUME OUT!Init PROVE OutInv
    OBVIOUS
  <1>1. emails = <<>> /\ copies = <<>> /\ lost = <<>> /\ drain = [w \in Workers |-> OUT!Idle]
    BY DEF OUT!Init
  <1>2. /\ emails \in Seq({}) /\ copies \in Seq(Nat) /\ lost \in Seq(Nat)
        /\ Len(copies) = Len(emails) /\ Len(lost) = Len(emails) /\ OUT!Rows = {}
    BY <1>1 DEF OUT!Rows
  <1>3. drain \in [Workers -> {OUT!Idle}] /\ \A w \in Workers : DOMAIN drain[w] = {}
    BY <1>1 DEF OUT!Idle
  <1>4. \A w \in Workers : DrainSound(w)
    BY <1>3 DEF DrainSound
  <1>5. \A v, w \in Workers : DOMAIN drain[v] \cap DOMAIN drain[w] = {}
    BY <1>3
  <1>6. (\E S : emails \in Seq(S)) /\ \E S : drain \in [Workers -> S]
    BY <1>2, <1>3
  <1> QED
    BY <1>2, <1>4, <1>5, <1>6 DEF OutInv

\* A person gets a message once, save for the copies whose sending a failed
\* drain or a lost answer made the outbox forget, however many ticks overlap
\* (drainNotificationOutbox).
THEOREM CopiesStayAccountedFor == OUT!Spec => []OUT!CopiesAreAccountedFor
  <1>1. OutInv /\ [OUT!Next]_(OUT!vars) => OutInv'
    BY OutStays
  <1>2. OutInv => OUT!CopiesAreAccountedFor
    BY DEF OutInv, RowSound, OUT!CopiesAreAccountedFor
  <1> QED
    BY OutStarts, <1>1, <1>2, PTL DEF OUT!Spec

\* A drain that took a row before its report came never overwrites the report
\* (processOutboxRow, recordDeliveryStatus).
THEOREM ReportsStayWritten == OUT!Spec => OUT!ReportsAreKept
  <1>1. OutInv /\ [OUT!Next]_(OUT!vars) => OutInv' /\ [ReportsStay]_(OUT!vars)
    BY OutStays
  <1>2. OUT!Spec => [][ReportsStay]_(OUT!vars)
    BY OutStarts, <1>1, PTL DEF OUT!Spec
  <1> QED
    BY <1>2 DEF OUT!ReportsAreKept, ReportsStay

-----------------------------------------------------------------------------
(* The sync of new parties.                                                *)

CONSTANTS Links, PerMilli, LastTime
VARIABLES now, links, cursor, sync, partyMatter, watch

SYNC == INSTANCE ConflictSync WITH matter <- partyMatter

Begun == {l \in Links : links[l].state # "none"}
SyncRank(s, l) == Cardinality({k \in s : SYNC!Before(k, l)})

IsLink(x) == \E state, at, behind : at \in Nat /\ x = [state |-> state, addedAt |-> at, late |-> behind]

\* A running sync has read rows that are there and stay, and whatever row was
\* there in time and is not among them comes after them all.
SyncInv ==
    /\ now \in Nat /\ \E S : links \in [Links -> S]
    /\ \A l \in Links : IsLink(links[l])
    /\ IsFiniteSet(Begun)
    /\ cursor.at \in Nat /\ cursor.id \in Links \cup {0}
    /\ sync.on =>
          /\ cursor.baselined /\ sync.read # {}
          /\ \A l \in sync.read : l \in Links /\ links[l].state \in {"added", "checked"}
          /\ \A l \in Links \ sync.read :
                links[l].state = "added" /\ SYNC!AfterCursor(l) /\ ~links[l].late
                    => \A k \in sync.read : ~SYNC!Before(l, k)

NoneIsPassed ==
    \A l \in Links :
        links[l].state = "added" /\ cursor.baselined /\ SYNC!AfterCursor(l) /\ ~links[l].late
            => SYNC!AfterCursor(l)' \/ links'[l].state = "checked"

\* What the program keeps of an instant is not after it.
LEMMA MilliIsBelow ==
    ASSUME SYNC!SyncAssumption
    PROVE  \A t \in Nat : SYNC!Milli(t) \in Nat /\ SYNC!Milli(t) <= t
  <1>1. PerMilli \in Nat \ {0}
    BY DEF SYNC!SyncAssumption
  <1> QED
    BY <1>1 DEF SYNC!Milli

\* The order of two rows is total and goes on over a third.
LEMMA SyncOrder ==
    ASSUME SYNC!SyncAssumption, SyncInv
    PROVE  /\ \A k, l \in Links : SYNC!Before(k, l) \/ SYNC!Before(l, k)
           /\ \A j, k, l \in Links : SYNC!Before(j, k) /\ SYNC!Before(k, l) => SYNC!Before(j, l)
           /\ \A k, l \in Links : SYNC!Before(k, l) /\ SYNC!Before(l, k) => k = l
  <1>1. \A l \in Links : links[l].addedAt \in Nat /\ l \in Nat
    BY DEF SyncInv, IsLink, SYNC!SyncAssumption
  <1> QED
    BY <1>1 DEF SYNC!Before

LEMMA RankGrows ==
    ASSUME SYNC!SyncAssumption, SyncInv, NEW s \in SUBSET Links, IsFiniteSet(s),
           NEW k \in s, NEW l \in s, SYNC!Before(k, l)
    PROVE  /\ SyncRank(s, k) \in Nat /\ SyncRank(s, l) \in Nat
           /\ SyncRank(s, k) <= SyncRank(s, l) /\ SyncRank(s, l) <= Cardinality(s)
           /\ k # l => SyncRank(s, k) < SyncRank(s, l)
  <1> PICK K : K = {j \in s : SYNC!Before(j, k)}
    OBVIOUS
  <1> PICK L : L = {j \in s : SYNC!Before(j, l)}
    OBVIOUS
  <1>1. K \subseteq L /\ L \subseteq s
    BY SyncOrder
  <1>2. IsFiniteSet(L) /\ IsFiniteSet(K) /\ Cardinality(K) <= Cardinality(L) /\ Cardinality(L) <= Cardinality(s)
        /\ (Cardinality(K) = Cardinality(L) => K = L)
    <2>1. IsFiniteSet(L) /\ Cardinality(L) <= Cardinality(s)
      BY <1>1, FS_Subset
    <2>2. IsFiniteSet(K) /\ Cardinality(K) <= Cardinality(L) /\ (Cardinality(L) = Cardinality(K) => L = K)
      BY <1>1, <2>1, FS_Subset
    <2> QED
      BY <2>1, <2>2
  <1>3. Cardinality(K) \in Nat /\ Cardinality(L) \in Nat
    BY <1>2, FS_CardinalityType
  <1>4. SYNC!Before(l, l)
    BY SyncOrder
  <1>5. k # l => l \in L /\ l \notin K
    BY <1>4, SyncOrder
  <1>6. k # l => Cardinality(K) # Cardinality(L)
    BY <1>2, <1>5
  <1> QED
    BY <1>2, <1>3, <1>6 DEF SyncRank

\* Of rows a sync has read one is the last.
LEMMA LastReadExists ==
    ASSUME SYNC!SyncAssumption, SyncInv, sync.on
    PROVE  SYNC!LastRead \in sync.read /\ \A k \in sync.read : SYNC!Before(k, SYNC!LastRead)
  <1> PICK s : s = sync.read
    OBVIOUS
  <1>1. s \in SUBSET Links /\ s # {} /\ s \subseteq Begun
    BY DEF SyncInv, Begun
  <1>2. IsFiniteSet(s)
    BY <1>1, FS_Subset DEF SyncInv
  <1>3. \A l \in s : SyncRank(s, l) \in 0..Cardinality(s)
    <2>1. \A l \in s : SYNC!Before(l, l)
      BY <1>1, SyncOrder
    <2> QED
      BY <1>1, <1>2, <2>1, RankGrows, FS_CardinalityType
  <1>4. PICK M : M = {SyncRank(s, l) : l \in s}
    OBVIOUS
  <1>5. M \subseteq 0..Cardinality(s) /\ M # {} /\ Cardinality(s) \in Nat
    BY <1>1, <1>2, <1>3, <1>4, FS_CardinalityType
  <1>6. PICK m \in M : \A n \in M : n <= m
    BY <1>5, GreatestNatural
  <1>7. PICK l \in s : m = SyncRank(s, l)
    BY <1>4, <1>6
  <1>8. ASSUME NEW k \in s PROVE SYNC!Before(k, l)
    <2>1. SyncRank(s, k) <= SyncRank(s, l)
      BY <1>4, <1>6, <1>7
    <2>2. SYNC!Before(l, k) => k = l
      <3> SUFFICES ASSUME SYNC!Before(l, k), k # l PROVE FALSE
        OBVIOUS
      <3>1. SyncRank(s, l) < SyncRank(s, k) /\ SyncRank(s, l) \in Nat /\ SyncRank(s, k) \in Nat
        BY <1>1, <1>2, RankGrows
      <3> QED
        BY <2>1, <3>1
    <2>3. k \in Links /\ l \in Links
      BY <1>1
    <2> QED
      BY <2>2, <2>3, SyncOrder
  <1>9. \E j \in sync.read : \A k \in sync.read : SYNC!Before(k, j)
    BY <1>8
  <1> QED
    BY <1>9 DEF SYNC!LastRead

\* A batch is the first rows of the order: what is left behind comes later.
LEMMA BatchComesFirst ==
    ASSUME SYNC!SyncAssumption, SyncInv, NEW s \in SUBSET Begun,
           NEW k \in SYNC!FirstBatch(s), NEW l \in s \ SYNC!FirstBatch(s)
    PROVE  ~SYNC!Before(l, k)
  <1> SUFFICES ASSUME SYNC!Before(l, k) PROVE FALSE
    OBVIOUS
  <1>1. \A S : SYNC!Cardinality(S) = Cardinality(S)
    BY DEF SYNC!Cardinality, Cardinality
  <1>2. SYNC!FirstBatch(s) = {j \in s : SyncRank(s, j) <= Batch}
    BY <1>1 DEF SYNC!FirstBatch, SyncRank
  <1>3. s \in SUBSET Links /\ IsFiniteSet(s)
    BY FS_Subset DEF SyncInv, Begun
  <1>4. SyncRank(s, l) <= SyncRank(s, k) /\ SyncRank(s, l) \in Nat /\ SyncRank(s, k) \in Nat
    BY <1>2, <1>3, RankGrows
  <1>5. Batch \in Nat
    BY DEF SYNC!SyncAssumption
  <1> QED
    BY <1>2, <1>4, <1>5

LEMMA FieldsMakeALink ==
    \A state, behind : \A at \in Nat : IsLink([state |-> state, addedAt |-> at, late |-> behind])
  BY Zenon DEF IsLink

\* One row begins, is committed or is checked.
LEMMA OneLinkChanges ==
    ASSUME SyncInv, NEW l \in Links, NEW x, IsLink(x), links' = [links EXCEPT ![l] = x]
    PROVE  /\ \E S : links' \in [Links -> S]
           /\ \A k \in Links : links'[k] = IF k = l THEN x ELSE links[k]
           /\ \A k \in Links : IsLink(links'[k])
           /\ x.state # "none" => IsFiniteSet(Begun')
  <1>1. \A k \in Links : links'[k] = IF k = l THEN x ELSE links[k]
    BY DEF SyncInv
  <1>2. links' \in [Links -> {links'[k] : k \in Links}]
    BY DEF SyncInv
  <1>3. \A k \in Links : IsLink(links'[k])
    BY <1>1 DEF SyncInv
  <1>4. ASSUME x.state # "none" PROVE IsFiniteSet(Begun')
    <2>1. Begun' = Begun \cup {l}
      BY <1>1, <1>4 DEF Begun
    <2> QED
      BY <2>1, FS_AddElement DEF SyncInv
  <1> QED
    BY <1>1, <1>2, <1>3, <1>4

LEMMA SyncStays ==
    ASSUME SYNC!SyncAssumption, SyncInv, [SYNC!Next]_(SYNC!vars)
    PROVE  SyncInv' /\ NoneIsPassed
  <1>1. ASSUME NEW l \in Links, SYNC!BeginAdding(l) PROVE SyncInv' /\ NoneIsPassed
    <2> PICK at \in {now, SYNC!Milli(now)} :
             links' = [links EXCEPT ![l] = [state |-> "begun", addedAt |-> at, late |-> FALSE]]
      BY <1>1 DEF SYNC!BeginAdding
    <2> PICK x : x = [state |-> "begun", addedAt |-> at, late |-> FALSE]
      OBVIOUS
    <2>1. links[l].state = "none" /\ links' = [links EXCEPT ![l] = x] /\ UNCHANGED <<now, cursor, sync>>
      BY <1>1 DEF SYNC!BeginAdding
    <2>a. at \in Nat
      BY MilliIsBelow DEF SyncInv
    <2>2. IsLink(x) /\ x.state = "begun"
      BY <2>a, FieldsMakeALink
    <2>3. /\ \E S : links' \in [Links -> S]
          /\ \A k \in Links : links'[k] = IF k = l THEN x ELSE links[k]
          /\ \A k \in Links : IsLink(links'[k])
          /\ IsFiniteSet(Begun')
      BY <2>1, <2>2, OneLinkChanges
    <2>4. \A k \in Links : k # l => (SYNC!AfterCursor(k)' <=> SYNC!AfterCursor(k))
      BY <2>1, <2>3 DEF SYNC!AfterCursor
    <2>5. NoneIsPassed
      BY <2>1, <2>4 DEF NoneIsPassed
    <2>6. ASSUME sync.on, NEW k \in Links \ sync.read, links'[k].state = "added", SYNC!AfterCursor(k)',
                 ~links'[k].late, NEW j \in sync.read
          PROVE  ~SYNC!Before(k, j)'
      <3>1. k # l /\ j \in Links /\ j # l
        BY <2>1, <2>2, <2>3, <2>6 DEF SyncInv
      <3>2. ~SYNC!Before(k, j)
        BY <2>3, <2>4, <2>6, <3>1 DEF SyncInv
      <3> QED
        BY <2>3, <3>1, <3>2 DEF SYNC!Before
    <2>7. sync'.on => /\ cursor'.baselined /\ sync'.read # {}
                      /\ \A k \in sync'.read : k \in Links /\ links'[k].state \in {"added", "checked"}
      BY <2>1, <2>2, <2>3 DEF SyncInv
    <2> QED
      BY <2>1, <2>3, <2>5, <2>6, <2>7 DEF SyncInv
  <1>2. ASSUME NEW l \in Links, SYNC!CommitAdding(l) PROVE SyncInv' /\ NoneIsPassed
    <2>p. PICK passed : passed = SYNC!PassedBy(l)
      OBVIOUS
    <2>1. links[l].state = "begun" /\ links' = [links EXCEPT ![l].state = "added", ![l].late = passed]
          /\ UNCHANGED <<now, cursor, sync>>
      BY <1>2, <2>p DEF SYNC!CommitAdding
    <2> PICK state, at, behind : at \in Nat /\ links[l] = [state |-> state, addedAt |-> at, late |-> behind]
      BY DEF SyncInv, IsLink
    <2> PICK x : x = [state |-> "added", addedAt |-> at, late |-> passed]
      OBVIOUS
    <2>2. IsLink(x) /\ x.state = "added" /\ x.addedAt = links[l].addedAt /\ x.late = passed
      BY FieldsMakeALink
    <2>c. [links[l] EXCEPT !.state = "added", !.late = passed] = x
      <3>1. PICK mid : mid = [links[l] EXCEPT !.state = "added"]
        OBVIOUS
      <3>2. mid = [state |-> "added", addedAt |-> at, late |-> behind]
        BY <3>1
      <3>3. [mid EXCEPT !.late = passed] = x
        BY <3>2
      <3> QED
        BY <3>1, <3>3, Zenon
    <2>3. links' = [links EXCEPT ![l] = x]
      BY <2>1, <2>c
    <2>4. /\ \E S : links' \in [Links -> S]
          /\ \A k \in Links : links'[k] = IF k = l THEN x ELSE links[k]
          /\ \A k \in Links : IsLink(links'[k])
          /\ IsFiniteSet(Begun')
      BY <2>2, <2>3, OneLinkChanges
    <2>5. \A k \in Links : links'[k].addedAt = links[k].addedAt
      BY <2>2, <2>4
    <2>6. /\ \A k \in Links : SYNC!AfterCursor(k)' <=> SYNC!AfterCursor(k)
          /\ \A j, k \in Links : SYNC!Before(j, k)' <=> SYNC!Before(j, k)
      BY <2>1, <2>5 DEF SYNC!AfterCursor, SYNC!Before
    <2>7. NoneIsPassed
      BY <2>6 DEF NoneIsPassed
    <2>8. ASSUME sync.on, NEW k \in Links \ sync.read, links'[k].state = "added", SYNC!AfterCursor(k)',
                 ~links'[k].late, NEW j \in sync.read
          PROVE  ~SYNC!Before(k, j)'
      <3>1. j \in Links
        BY <2>8 DEF SyncInv
      <3>2. CASE k = l
        <4>1. ~passed /\ cursor.baselined
          BY <2>2, <2>4, <2>8, <3>2 DEF SyncInv
        <4>2. ~SYNC!Before(l, j)
          BY <2>8, <2>p, <4>1 DEF SYNC!PassedBy
        <4> QED
          BY <2>6, <3>1, <3>2, <4>2
      <3>3. CASE k # l
        BY <2>4, <2>6, <2>8, <3>1, <3>3 DEF SyncInv
      <3> QED
        BY <3>2, <3>3
    <2>9. sync'.on => /\ cursor'.baselined /\ sync'.read # {}
                      /\ \A k \in sync'.read : k \in Links /\ links'[k].state \in {"added", "checked"}
      BY <2>1, <2>2, <2>4 DEF SyncInv
    <2> QED
      BY <2>1, <2>4, <2>7, <2>8, <2>9 DEF SyncInv
  <1>3. ASSUME NEW l \in Links, SYNC!CheckedAtOnce(l) PROVE SyncInv' /\ NoneIsPassed
    <2>1. links[l].state = "added" /\ links' = [links EXCEPT ![l].state = "checked"] /\ UNCHANGED <<now, cursor, sync>>
      BY <1>3 DEF SYNC!CheckedAtOnce
    <2> PICK state, at, behind : at \in Nat /\ links[l] = [state |-> state, addedAt |-> at, late |-> behind]
      BY DEF SyncInv, IsLink
    <2> PICK x : x = [state |-> "checked", addedAt |-> at, late |-> behind]
      OBVIOUS
    <2>2. IsLink(x) /\ x.state = "checked" /\ x.addedAt = links[l].addedAt
      BY FieldsMakeALink
    <2>c. [links[l] EXCEPT !.state = "checked"] = x
      OBVIOUS
    <2>3. links' = [links EXCEPT ![l] = x]
      BY <2>1, <2>c
    <2>4. /\ \E S : links' \in [Links -> S]
          /\ \A k \in Links : links'[k] = IF k = l THEN x ELSE links[k]
          /\ \A k \in Links : IsLink(links'[k])
          /\ IsFiniteSet(Begun')
      BY <2>2, <2>3, OneLinkChanges
    <2>5. \A k \in Links : links'[k].addedAt = links[k].addedAt
      BY <2>2, <2>4
    <2>6. /\ \A k \in Links : SYNC!AfterCursor(k)' <=> SYNC!AfterCursor(k)
          /\ \A j, k \in Links : SYNC!Before(j, k)' <=> SYNC!Before(j, k)
      BY <2>1, <2>5 DEF SYNC!AfterCursor, SYNC!Before
    <2>7. NoneIsPassed
      BY <2>6 DEF NoneIsPassed
    <2>8. sync'.on =>
             /\ cursor'.baselined /\ sync'.read # {}
             /\ \A k \in sync'.read : k \in Links /\ links'[k].state \in {"added", "checked"}
             /\ \A k \in Links \ sync'.read :
                   links'[k].state = "added" /\ SYNC!AfterCursor(k)' /\ ~links'[k].late
                       => \A j \in sync'.read : ~SYNC!Before(k, j)'
      BY <2>1, <2>2, <2>4, <2>6 DEF SyncInv
    <2> QED
      BY <2>1, <2>4, <2>7, <2>8 DEF SyncInv
  <1>4. ASSUME UNCHANGED <<links, cursor, sync>>, now' \in Nat PROVE SyncInv' /\ NoneIsPassed
    BY <1>4 DEF SyncInv, NoneIsPassed, Begun, SYNC!AfterCursor, SYNC!Before
  <1>5. CASE SYNC!Baseline
    <2>1. ~cursor.baselined /\ cursor' = [at |-> SYNC!Milli(now), id |-> 0, baselined |-> TRUE] /\ UNCHANGED <<now, links, sync>>
      BY <1>5 DEF SYNC!Baseline
    <2>2. ~sync'.on /\ cursor'.at \in Nat /\ cursor'.id = 0
      BY <2>1, MilliIsBelow DEF SyncInv
    <2>3. NoneIsPassed
      BY <2>1 DEF NoneIsPassed
    <2> QED
      BY <2>1, <2>2, <2>3 DEF SyncInv, Begun
  <1>6. CASE SYNC!ReadLinks
    <2> PICK s : s = {l \in SYNC!Visible : SYNC!AfterCursor(l)}
      OBVIOUS
    <2> PICK b : b = SYNC!FirstBatch(s)
      OBVIOUS
    <2>1. cursor.baselined /\ sync' = [on |-> TRUE, read |-> b] /\ b # {} /\ UNCHANGED <<now, links, cursor>>
      BY <1>6 DEF SYNC!ReadLinks
    <2>2. b \subseteq s /\ s \in SUBSET Begun
      BY DEF SYNC!FirstBatch, SYNC!Visible, Begun
    <2>3. \A k \in b : k \in Links /\ links[k].state \in {"added", "checked"}
      BY <2>2 DEF SYNC!Visible
    <2>4. ASSUME NEW l \in Links \ b, links[l].state = "added", SYNC!AfterCursor(l), NEW k \in b
          PROVE  ~SYNC!Before(l, k)
      <3>1. l \in s
        BY <2>4 DEF SYNC!Visible
      <3> QED
        BY <2>2, <2>4, <3>1, BatchComesFirst
    <2>5. NoneIsPassed
      BY <2>1 DEF NoneIsPassed, SYNC!AfterCursor
    <2>6. /\ \A l \in Links : SYNC!AfterCursor(l)' <=> SYNC!AfterCursor(l)
          /\ \A k, l \in Links : SYNC!Before(k, l)' <=> SYNC!Before(k, l)
      BY <2>1 DEF SYNC!AfterCursor, SYNC!Before
    <2>7. sync'.on /\ sync'.read = b
      BY <2>1
    <2> QED
      BY <2>1, <2>3, <2>4, <2>5, <2>6, <2>7 DEF SyncInv, Begun
  <1>7. CASE SYNC!SyncMatterParties
    <2> PICK last : last = SYNC!LastRead
      OBVIOUS
    <2>1. /\ sync.on /\ ~sync'.on /\ now' = now
          /\ links' = [l \in Links |-> IF l \in sync.read THEN [links[l] EXCEPT !.state = "checked"] ELSE links[l]]
          /\ cursor' = [at |-> SYNC!Milli(links[last].addedAt), id |-> last, baselined |-> TRUE]
      BY <1>7 DEF SYNC!SyncMatterParties, SYNC!CursorAfter, SYNC!NoSync
    <2>2. last \in sync.read /\ last \in Links
      BY <2>1, LastReadExists DEF SyncInv
    <2>3. last \in Nat \ {0} /\ links[last].addedAt \in Nat
      <3>1. IsLink(links[last])
        BY <2>2 DEF SyncInv
      <3>2. links[last].addedAt \in Nat
        <4> PICK state, at, behind : at \in Nat /\ links[last] = [state |-> state, addedAt |-> at, late |-> behind]
          BY Zenon, <3>1 DEF IsLink
        <4> QED
          OBVIOUS
      <3>3. last \in Nat \ {0}
        BY Zenon, <2>2 DEF SYNC!SyncAssumption
      <3> QED
        BY <3>2, <3>3
    <2>4. ASSUME NEW l \in Links
          PROVE  /\ links'[l].addedAt = links[l].addedAt /\ IsLink(links'[l])
                 /\ l \in sync.read => links'[l].state = "checked"
                 /\ links[l].state = "none" <=> links'[l].state = "none"
      <3> PICK state, at, behind : at \in Nat /\ links[l] = [state |-> state, addedAt |-> at, late |-> behind]
        BY DEF SyncInv, IsLink
      <3>1. CASE l \notin sync.read
        BY <2>1, <3>1 DEF SyncInv
      <3>2. CASE l \in sync.read
        <4> PICK x : x = [state |-> "checked", addedAt |-> at, late |-> behind]
          OBVIOUS
        <4>1. links'[l] = x
          BY <2>1, <3>2
        <4>2. IsLink(x) /\ x.state = "checked" /\ x.addedAt = at
          BY DEF IsLink
        <4>3. links[l].state # "none"
          BY <2>1, <3>2 DEF SyncInv
        <4> QED
          BY <4>1, <4>2, <4>3
      <3> QED
        BY <3>1, <3>2
    <2>5. Begun' = Begun
      BY <2>4 DEF Begun
    <2>6. links' \in [Links -> {links'[l] : l \in Links}]
      BY <2>1
    <2>7. ASSUME NEW l \in Links, links[l].state = "added", SYNC!AfterCursor(l), ~links[l].late, l \notin sync.read
          PROVE  SYNC!AfterCursor(l)'
      <3>1. ~SYNC!Before(l, last)
        BY <2>1, <2>2, <2>7 DEF SyncInv
      <3>2. links[l].addedAt \in Nat /\ l \in Nat
        BY DEF SyncInv, IsLink, SYNC!SyncAssumption
      <3>3. \/ links[l].addedAt > links[last].addedAt
            \/ links[l].addedAt = links[last].addedAt /\ l > last
        BY <2>3, <3>1, <3>2 DEF SYNC!Before
      <3>4. /\ cursor'.at \in Nat /\ cursor'.at <= links[last].addedAt
            /\ cursor'.id = last /\ links'[l].addedAt = links[l].addedAt
        BY <2>1, <2>3, <2>4, MilliIsBelow
      <3> QED
        BY <2>3, <3>2, <3>3, <3>4 DEF SYNC!AfterCursor
    <2>8. NoneIsPassed
      BY <2>4, <2>7 DEF NoneIsPassed
    <2>9. cursor'.at \in Nat /\ cursor'.id \in Links
      BY <2>1, <2>2, <2>3, MilliIsBelow
    <2> QED
      BY <2>1, <2>4, <2>5, <2>6, <2>8, <2>9 DEF SyncInv
  <1>8. CASE SYNC!SyncFails
    <2>1. ~sync'.on /\ UNCHANGED <<now, links, cursor>>
      BY <1>8 DEF SYNC!SyncFails, SYNC!NoSync
    <2> QED
      BY <2>1 DEF SyncInv, NoneIsPassed, Begun, SYNC!AfterCursor
  <1>9. CASE SYNC!TimePasses
    BY <1>4, <1>9 DEF SYNC!TimePasses, SyncInv
  <1>10. CASE SYNC!CloseMatter \/ SYNC!ReopenMatter \/ SYNC!RememberClosed \/ SYNC!DetectReopened
    <2>1. UNCHANGED <<now, links, cursor, sync>>
      BY <1>10 DEF SYNC!CloseMatter, SYNC!ReopenMatter, SYNC!RememberClosed, SYNC!DetectReopened
    <2> QED
      BY <1>4, <2>1 DEF SyncInv
  <1>11. CASE UNCHANGED SYNC!vars
    BY <1>4, <1>11 DEF SYNC!vars, SyncInv
  <1> QED
    BY <1>1, <1>2, <1>3, <1>5, <1>6, <1>7, <1>8, <1>9, <1>10, <1>11 DEF SYNC!Next, SYNC!NewParties, SYNC!Reopenings

\* However batches end within one millisecond, fail, and have rows committed
\* between their read and their write, a sync moves its cursor past a party
\* that was there in time only as it checks it (syncMatterParties).
THEOREM NobodyIsPassedOver ==
    ASSUME SYNC!SyncAssumption
    PROVE  SYNC!Spec => SYNC!NothingIsPassedOver
  <1>1. SYNC!Init => SyncInv
    <2> SUFFICES ASSUME SYNC!Init PROVE SyncInv
      OBVIOUS
    <2> PICK x : x = [state |-> "none", addedAt |-> 0, late |-> FALSE]
      OBVIOUS
    <2>1. /\ now = 0 /\ links = [l \in Links |-> x] /\ ~sync.on
          /\ cursor = [at |-> 0, id |-> 0, baselined |-> FALSE]
      BY DEF SYNC!Init, SYNC!Never, SYNC!NoSync
    <2>2. IsLink(x) /\ x.state = "none"
      BY DEF IsLink
    <2>3. Begun = {}
      BY <2>1, <2>2 DEF Begun
    <2>4. links \in [Links -> {x}] /\ \A l \in Links : IsLink(links[l])
      BY <2>1, <2>2
    <2> QED
      BY <2>1, <2>3, <2>4, FS_EmptySet DEF SyncInv
  <1>2. SyncInv /\ [SYNC!Next]_(SYNC!vars) => SyncInv' /\ [NoneIsPassed]_(SYNC!vars)
    BY SyncStays
  <1>3. SYNC!Spec => [][NoneIsPassed]_(SYNC!vars)
    BY <1>1, <1>2, PTL DEF SYNC!Spec
  <1> QED
    BY <1>3 DEF SYNC!NothingIsPassedOver, NoneIsPassed

-----------------------------------------------------------------------------
(* The versions of a file.                                                 *)

CONSTANTS Contents, MaxVersions, MaxAsks
VARIABLES files, group, signoffs, asked, retained, fileCalls, indexers

DOC == INSTANCE DocumentVersions WITH versions <- files, asks <- signoffs, request <- fileCalls, worker <- indexers

IsFile(x) ==
    \E number, bytes, restricted, attempts, state, text :
        x = [number |-> number, bytes |-> bytes, restricted |-> restricted, attempts |-> attempts,
             status |-> state, text |-> text]

FilesSound ==
    /\ \E S : files \in Seq(S)
    /\ files # <<>> /\ \A v \in DOMAIN files : IsFile(files[v])
    /\ \E agreement : group = [current |-> Len(files), agreement |-> agreement]
    /\ DOC!VersionsAreConsecutive

\* An upload holds the lock of the group, so it appends to what it read.
UploadSound(c) == c.op = "upload" =>
    /\ c.previous = Len(files) /\ c.version = Len(files) + 1
    /\ c.bytes # files[Len(files)].bytes

DocInv ==
    /\ FilesSound
    /\ \E S : fileCalls \in [Requests -> S]
    /\ \A p \in Requests : UploadSound(fileCalls[p])
    /\ \A p, q \in Requests : fileCalls[p].op = "upload" /\ fileCalls[q].op = "upload" => p = q

LEMMA FieldsMakeAFile ==
    \A number, bytes, restricted, attempts, state, text :
        IsFile([number |-> number, bytes |-> bytes, restricted |-> restricted, attempts |-> attempts,
                status |-> state, text |-> text])
  BY Zenon DEF IsFile

\* Whatever is written of a file, its number and bytes stay.
LEMMA FileWritten ==
    ASSUME NEW x, IsFile(x), NEW s, NEW y,
           \/ y = [x EXCEPT !.status = s] \/ y = [x EXCEPT !.restricted = s]
           \/ y = [x EXCEPT !.text = s] \/ y = [x EXCEPT !.attempts = s]
    PROVE  IsFile(y) /\ y.number = x.number /\ y.bytes = x.bytes
  <1> PICK number, bytes, restricted, attempts, state, text :
          x = [number |-> number, bytes |-> bytes, restricted |-> restricted, attempts |-> attempts,
               status |-> state, text |-> text]
    BY DEF IsFile
  <1>1. PICK a, b, c, d :
          y = [number |-> number, bytes |-> bytes, restricted |-> a, attempts |-> b, status |-> c, text |-> d]
    <2>1. CASE y = [x EXCEPT !.status = s]
      <3>1. y = [number |-> number, bytes |-> bytes, restricted |-> restricted, attempts |-> attempts, status |-> s, text |-> text]
        BY <2>1
      <3> QED
        BY <3>1, Zenon
    <2>2. CASE y = [x EXCEPT !.restricted = s]
      <3>1. y = [number |-> number, bytes |-> bytes, restricted |-> s, attempts |-> attempts, status |-> state, text |-> text]
        BY <2>2
      <3> QED
        BY <3>1, Zenon
    <2>3. CASE y = [x EXCEPT !.text = s]
      <3>1. y = [number |-> number, bytes |-> bytes, restricted |-> restricted, attempts |-> attempts, status |-> state, text |-> s]
        BY <2>3
      <3> QED
        BY <3>1, Zenon
    <2>4. CASE y = [x EXCEPT !.attempts = s]
      <3>1. y = [number |-> number, bytes |-> bytes, restricted |-> restricted, attempts |-> s, status |-> state, text |-> text]
        BY <2>4
      <3> QED
        BY <3>1, Zenon
    <2> QED
      BY <2>1, <2>2, <2>3, <2>4
  <1>2. IsFile(y)
    BY <1>1, FieldsMakeAFile, Zenon
  <1> QED
    BY <1>1, <1>2

LEMMA AttemptsWritten ==
    ASSUME NEW x, IsFile(x), NEW s, NEW y, y = [x EXCEPT !.attempts = s]
    PROVE  IsFile(y) /\ y.number = x.number /\ y.bytes = x.bytes
  BY FileWritten, Zenon

\* A version whose number and bytes stay is written: the file stays sound.
LEMMA FileStays ==
    ASSUME FilesSound, NEW v, NEW new, files' = [files EXCEPT ![v] = new], UNCHANGED group,
           v \in DOMAIN files => IsFile(new) /\ new.number = files[v].number /\ new.bytes = files[v].bytes
    PROVE  FilesSound' /\ Len(files') = Len(files) /\ \A w \in DOMAIN files : files'[w].bytes = files[w].bytes
  <1> PICK S : files \in Seq(S)
    BY DEF FilesSound
  <1>1. DOMAIN files = 1..Len(files) /\ Len(files) \in Nat /\ Len(files) # 0
    BY DEF FilesSound
  <1>2. \A w \in DOMAIN files : files'[w] = IF w = v THEN new ELSE files[w]
    OBVIOUS
  <1>3. PICK n \in Nat : n = Len(files) /\ DOMAIN files = 1..n
    BY <1>1
  <1>4. files' \in [1..n -> S \cup {new}]
    <2>1. files \in [1..n -> S]
      BY <1>3
    <2>2. DOMAIN files' = 1..n /\ files' = [w \in 1..n |-> files'[w]]
      BY <2>1
    <2>3. \A w \in 1..n : files'[w] \in S \cup {new}
      BY <1>2, <1>3, <2>1
    <2> QED
      BY <2>2, <2>3, Zenon
  <1>5. files' \in Seq(S \cup {new}) /\ Len(files') = Len(files) /\ DOMAIN files' = DOMAIN files
    <2>1. files' \in Seq(S \cup {new})
      BY <1>4, FunctionsAreSequences, Zenon
    <2>2. DOMAIN files' = 1..n
      BY <1>4
    <2> QED
      BY <1>3, <2>1, <2>2
  <1>6. \A w \in DOMAIN files : IsFile(files'[w]) /\ files'[w].number = files[w].number /\ files'[w].bytes = files[w].bytes
    BY <1>2 DEF FilesSound
  <1>7. \A w \in 2..Len(files) : w \in DOMAIN files /\ w - 1 \in DOMAIN files
    BY <1>1
  <1>8. DOC!VersionsAreConsecutive'
    BY <1>1, <1>5, <1>6, <1>7 DEF DOC!VersionsAreConsecutive, FilesSound
  <1>9. files' # <<>>
    BY <1>1, <1>5
  <1> QED
    BY <1>5, <1>6, <1>8, <1>9 DEF FilesSound

\* A request goes on to another call.
LEMMA FileCallGoes ==
    ASSUME DocInv, NEW p \in Requests, NEW c, fileCalls' = [fileCalls EXCEPT ![p] = c]
    PROVE  /\ \E S : fileCalls' \in [Requests -> S]
           /\ \A q \in Requests : fileCalls'[q] = IF q = p THEN c ELSE fileCalls[q]
  <1>1. fileCalls' \in [Requests -> {fileCalls[q] : q \in Requests} \cup {c}]
    BY DEF DocInv
  <1> QED
    BY <1>1 DEF DocInv

\* A call ends, or turns into one that uploads nothing.
LEMMA FileCallsStay ==
    ASSUME DocInv, FilesSound', Len(files') = Len(files), \A w \in DOMAIN files : files'[w].bytes = files[w].bytes,
           NEW p \in Requests, NEW c, fileCalls' = [fileCalls EXCEPT ![p] = c], c.op # "upload"
    PROVE  DocInv'
  <1>1. /\ \E S : fileCalls' \in [Requests -> S]
        /\ \A q \in Requests : fileCalls'[q] = IF q = p THEN c ELSE fileCalls[q]
    BY FileCallGoes
  <1>2. Len(files) \in DOMAIN files
    <2> PICK S : files \in Seq(S)
      BY DEF DocInv, FilesSound
    <2> QED
      BY DEF DocInv, FilesSound
  <1>3. \A q \in Requests : UploadSound(fileCalls[q])'
    BY <1>1, <1>2 DEF DocInv, UploadSound
  <1> QED
    BY <1>1, <1>3 DEF DocInv

LEMMA DocStays ==
    ASSUME DocInv, [DOC!Next]_(DOC!vars)
    PROVE  DocInv'
  <1>n. PICK N : N = Len(files)
    OBVIOUS
  <1>f. files[N] = DOC!Current /\ N \in Nat /\ DOMAIN files = 1..N /\ N \in DOMAIN files /\ files[N].number = N
    <2> PICK S : files \in Seq(S)
      BY DEF DocInv, FilesSound
    <2>1. group.current = N
      BY <1>n DEF DocInv, FilesSound
    <2>2. N \in Nat /\ DOMAIN files = 1..N /\ N \in DOMAIN files
      BY <1>n DEF DocInv, FilesSound
    <2> QED
      BY <2>1, <2>2 DEF DocInv, FilesSound, DOC!Current, DOC!VersionsAreConsecutive
  <1>i. DOC!Idle.op = "none"
    BY DEF DOC!Idle
  \* What writes one version and ends a call or none.
  <1>w. ASSUME NEW v, NEW new, files' = [files EXCEPT ![v] = new], UNCHANGED group,
               v \in DOMAIN files => IsFile(new) /\ new.number = files[v].number /\ new.bytes = files[v].bytes,
               UNCHANGED fileCalls \/ \E p \in Requests : fileCalls' = [fileCalls EXCEPT ![p] = DOC!Idle]
        PROVE  DocInv'
    <2>1. FilesSound' /\ Len(files') = Len(files) /\ \A w \in DOMAIN files : files'[w].bytes = files[w].bytes
      BY <1>w, FileStays DEF DocInv
    <2>2. CASE UNCHANGED fileCalls
      BY <1>f, <1>n, <2>1, <2>2 DEF DocInv, UploadSound
    <2>3. CASE \E p \in Requests : fileCalls' = [fileCalls EXCEPT ![p] = DOC!Idle]
      BY <1>i, <2>1, <2>3, FileCallsStay
    <2> QED
      BY <1>w, <2>2, <2>3
  <1>s. ASSUME NEW v, NEW s, DOC!Writes(v, s), UNCHANGED group,
               \E p \in Requests : DOC!Done(p)
        PROVE  DocInv'
    <2>0. PICK new : new = [files[v] EXCEPT !.status = s]
      OBVIOUS
    <2>1. files' = [files EXCEPT ![v] = new]
      BY <1>s, <2>0 DEF DOC!Writes
    <2>2. v \in DOMAIN files => IsFile(files[v])
      BY DEF DocInv, FilesSound
    <2>3. v \in DOMAIN files => IsFile(new) /\ new.number = files[v].number /\ new.bytes = files[v].bytes
      <3> SUFFICES ASSUME v \in DOMAIN files
                   PROVE  IsFile(new) /\ new.number = files[v].number /\ new.bytes = files[v].bytes
        OBVIOUS
      <3>1. PICK x : x = files[v]
        OBVIOUS
      <3>2. IsFile(x) /\ new = [x EXCEPT !.status = s]
        BY <2>0, <2>2, <3>1
      <3>3. \/ new = [x EXCEPT !.status = s] \/ new = [x EXCEPT !.restricted = s]
           \/ new = [x EXCEPT !.text = s] \/ new = [x EXCEPT !.attempts = s]
        BY <3>2, Zenon
      <3>4. IsFile(new) /\ new.number = x.number /\ new.bytes = x.bytes
        BY <3>2, <3>3, FileWritten, Zenon
      <3> QED
        BY <3>1, <3>4
    <2>4. \E p \in Requests : fileCalls' = [fileCalls EXCEPT ![p] = DOC!Idle]
      BY <1>s DEF DOC!Done
    <2> QED
      BY <1>s, <1>w, <2>1, <2>3, <2>4
  <1>u. ASSUME UNCHANGED <<files, group, fileCalls>> PROVE DocInv'
    BY <1>u DEF DocInv, FilesSound, UploadSound, DOC!VersionsAreConsecutive
  <1>r. ASSUME NEW p \in Requests, NEW c, c.op # "upload", fileCalls' = [fileCalls EXCEPT ![p] = c],
               UNCHANGED <<files, group>>
        PROVE  DocInv'
    <2>1. FilesSound' /\ Len(files') = Len(files) /\ \A w \in DOMAIN files : files'[w].bytes = files[w].bytes
      BY <1>r DEF DocInv, FilesSound, DOC!VersionsAreConsecutive
    <2> QED
      BY <1>r, <2>1, FileCallsStay
  <1>1. CASE DOC!Retag
    <2>0. PICK s : s = ~DOC!Current.restricted
      OBVIOUS
    <2>r. PICK new : new = [files[N] EXCEPT !.restricted = s]
      OBVIOUS
    <2>1. group.current = N
      BY <1>n DEF DocInv, FilesSound
    <2>2. files' = [files EXCEPT ![N] = new] /\ UNCHANGED <<group, fileCalls>>
      BY <1>1, <2>0, <2>1, <2>r DEF DOC!Retag
    <2>3. IsFile(new) /\ new.number = files[N].number /\ new.bytes = files[N].bytes
      <3>1. PICK x : x = files[N]
        OBVIOUS
      <3>2. IsFile(x) /\ new = [x EXCEPT !.restricted = s]
        BY <1>f, <2>r, <3>1 DEF DocInv, FilesSound
      <3>3. \/ new = [x EXCEPT !.status = s] \/ new = [x EXCEPT !.restricted = s]
           \/ new = [x EXCEPT !.text = s] \/ new = [x EXCEPT !.attempts = s]
        BY <3>2, Zenon
      <3>4. IsFile(new) /\ new.number = x.number /\ new.bytes = x.bytes
        BY <3>2, <3>3, FileWritten, Zenon
      <3> QED
        BY <3>1, <3>4
    <2> QED
      BY <1>w, <2>2, <2>3
  <1>2. ASSUME NEW p \in Requests, NEW bytes \in Contents, DOC!BeginUpload(p, bytes) PROVE DocInv'
    <2> PICK supersede : supersede = (DOC!Current.status # "superseded")
      OBVIOUS
    <2> PICK c : c = [op |-> "upload", bytes |-> bytes, previous |-> group.current,
                      version |-> DOC!Current.number + 1, restricted |-> DOC!Current.restricted,
                      supersede |-> supersede]
      OBVIOUS
    <2>1. /\ ~DOC!GroupLocked /\ bytes # DOC!Current.bytes
          /\ fileCalls' = [fileCalls EXCEPT ![p] = c] /\ UNCHANGED <<files, group>>
      BY <1>2 DEF DOC!BeginUpload, DOC!Reads
    <2>2. /\ \E S : fileCalls' \in [Requests -> S]
          /\ \A q \in Requests : fileCalls'[q] = IF q = p THEN c ELSE fileCalls[q]
      BY <2>1, FileCallGoes
    <2>3. group.current = N
      BY <1>n DEF DocInv, FilesSound
    <2>4. c.previous = N /\ c.version = N + 1 /\ c.bytes # files[N].bytes
      BY <1>f, <2>1, <2>3
    <2>5. \A q \in Requests : fileCalls[q].op # "upload"
      BY <2>1 DEF DOC!GroupLocked
    <2>6. \A q \in Requests : UploadSound(fileCalls[q])'
      BY <1>n, <2>1, <2>2, <2>4, <2>5 DEF UploadSound
    <2>7. FilesSound'
      BY <2>1 DEF DocInv, FilesSound, DOC!VersionsAreConsecutive
    <2> QED
      BY <2>2, <2>5, <2>6, <2>7 DEF DocInv
  <1>3. ASSUME NEW p \in Requests, DOC!CommitUpload(p) PROVE DocInv'
    <2> PICK c : c = fileCalls[p]
      OBVIOUS
    <2>1. PICK text : /\ c.op = "upload"
                      /\ files' = Append(
                            [v \in DOMAIN files |->
                                IF v = c.previous /\ c.supersede
                                THEN [files[v] EXCEPT !.status = "superseded"] ELSE files[v]],
                            [number |-> c.version, bytes |-> c.bytes, status |-> "uploaded",
                             restricted |-> c.restricted, text |-> text,
                             attempts |-> DOC!AttemptsOnUpload(text)])
                      /\ group' = [group EXCEPT !.current = Len(files')]
                      /\ fileCalls' = [fileCalls EXCEPT ![p] = DOC!Idle]
      BY <1>3 DEF DOC!CommitUpload, DOC!Done
    <2> PICK attempts : attempts = DOC!AttemptsOnUpload(text)
      OBVIOUS
    <2>2. PICK new : new = [number |-> c.version, bytes |-> c.bytes, status |-> "uploaded",
                            restricted |-> c.restricted, text |-> text, attempts |-> attempts]
      OBVIOUS
    <2>3. PICK old : old = [v \in DOMAIN files |-> IF v = c.previous /\ c.supersede
                                THEN [files[v] EXCEPT !.status = "superseded"] ELSE files[v]]
      OBVIOUS
    <2>4. files' = Append(old, new)
      BY <2>1, <2>2, <2>3
    <2>5. c.version = N + 1 /\ c.bytes # files[N].bytes
      BY <1>n, <2>1 DEF DocInv, UploadSound
    <2>6. IsFile(new) /\ new.number = N + 1 /\ new.bytes # files[N].bytes
      <3>1. PICK a, b, r : a = c.version /\ b = c.bytes /\ r = c.restricted
        OBVIOUS
      <3>2. new = [number |-> a, bytes |-> b, restricted |-> r, attempts |-> attempts,
                   status |-> "uploaded", text |-> text]
        BY <2>2, <3>1
      <3>3. IsFile(new)
        BY <3>2, FieldsMakeAFile
      <3> QED
        BY <2>5, <3>1, <3>2, <3>3
    <2>7. ASSUME NEW v \in DOMAIN files
          PROVE  IsFile(old[v]) /\ old[v].number = files[v].number /\ old[v].bytes = files[v].bytes
      <3>1. PICK x : x = files[v]
        OBVIOUS
      <3>2. IsFile(x)
        BY <3>1 DEF DocInv, FilesSound
      <3>3. PICK y : y = [x EXCEPT !.status = "superseded"]
        OBVIOUS
      <3>4. IsFile(y) /\ y.number = x.number /\ y.bytes = x.bytes
        BY <3>2, <3>3, FileWritten, Zenon
      <3>5. old[v] = x \/ old[v] = y
        BY <2>3, <3>1, <3>3
      <3> QED
        BY <3>1, <3>2, <3>4, <3>5
    <2>8. PICK T : T = {old[v] : v \in DOMAIN files} \cup {new}
      OBVIOUS
    <2>9. old \in Seq(T) /\ Len(old) = N
      <3>1. old \in [1..N -> T]
        BY <1>f, <2>3, <2>8
      <3> QED
        BY <1>f, <3>1
    <2>10. files' \in Seq(T) /\ Len(files') = N + 1 /\ files'[N + 1] = new /\ \A v \in 1..N : files'[v] = old[v]
      BY <1>f, <2>4, <2>8, <2>9
    <2>11. DOMAIN files' = 1..(N + 1) /\ files' # <<>>
      BY <1>f, <2>10
    <2>12. \A v \in 1..(N + 1) : v \in 1..N \/ v = N + 1
      BY <1>f
    <2>13. \A v \in DOMAIN files' : IsFile(files'[v]) /\ files'[v].number = v
      BY <1>f, <2>6, <2>7, <2>10, <2>11, <2>12 DEF DocInv, FilesSound, DOC!VersionsAreConsecutive
    <2>14. \A v \in 2..(N + 1) : files'[v].bytes # files'[v - 1].bytes
      <3> SUFFICES ASSUME NEW v \in 2..(N + 1) PROVE files'[v].bytes # files'[v - 1].bytes
        OBVIOUS
      <3>1. v - 1 \in 1..N /\ files'[v - 1] = old[v - 1] /\ old[v - 1].bytes = files[v - 1].bytes
        BY <1>f, <2>7, <2>10
      <3>2. CASE v = N + 1
        BY <1>f, <2>6, <2>10, <3>1, <3>2
      <3>3. CASE v # N + 1
        <4>1. v \in 1..N /\ v \in 2..Len(files)
          BY <1>f, <1>n, <3>3
        <4>2. files'[v].bytes = files[v].bytes
          BY <1>f, <2>7, <2>10, <4>1
        <4>3. files[v].bytes # files[v - 1].bytes
          BY <4>1 DEF DocInv, FilesSound, DOC!VersionsAreConsecutive
        <4> QED
          BY <3>1, <4>2, <4>3
      <3> QED
        BY <3>2, <3>3
    <2>15. \E agreement : group' = [current |-> Len(files'), agreement |-> agreement]
      <3>1. PICK agreement : group = [current |-> N, agreement |-> agreement]
        BY <1>n DEF DocInv, FilesSound
      <3>2. group' = [current |-> N + 1, agreement |-> agreement]
        BY <2>1, <2>10, <3>1
      <3> QED
        BY <2>10, <3>2
    <2>16. FilesSound'
      <3>1. group'.current = Len(files')
        BY <2>15
      <3>2. DOC!VersionsAreConsecutive'
        BY <2>10, <2>13, <2>14, <3>1 DEF DOC!VersionsAreConsecutive
      <3>3. \E S : files' \in Seq(S)
        BY <2>10
      <3> QED
        BY <2>11, <2>13, <2>15, <3>2, <3>3 DEF FilesSound
    <2>17. /\ \E S : fileCalls' \in [Requests -> S]
           /\ \A q \in Requests : fileCalls'[q] = IF q = p THEN DOC!Idle ELSE fileCalls[q]
      BY <2>1, FileCallGoes
    <2>18. \A q \in Requests : fileCalls'[q].op # "upload"
      BY <1>i, <2>1, <2>17 DEF DocInv
    <2> QED
      BY <2>16, <2>17, <2>18 DEF DocInv, UploadSound
  <1>4. ASSUME NEW p \in Requests, DOC!Abandon(p) PROVE DocInv'
    BY <1>4, <1>i, <1>r DEF DOC!Abandon, DOC!Done
  <1>5. ASSUME NEW p \in Requests, DOC!RequestClientSignoff(p) PROVE DocInv'
    BY <1>5, <1>s DEF DOC!RequestClientSignoff
  <1>6. ASSUME NEW p \in Requests, NEW s, DOC!RecordClientDecision(p, s) PROVE DocInv'
    BY <1>6, <1>s DEF DOC!RecordClientDecision
  <1>7. ASSUME NEW p \in Requests, DOC!RecordClientSignature(p) PROVE DocInv'
    BY <1>7, <1>s DEF DOC!RecordClientSignature
  <1>8. ASSUME NEW p \in Requests, DOC!RecordFirmCountersignature(p) PROVE DocInv'
    BY <1>8, <1>s DEF DOC!RecordFirmCountersignature
  <1>9. ASSUME NEW p \in Requests, NEW v \in DOMAIN files,
               \/ DOC!ReadForSignoff(p, v) \/ DOC!ReadForDecision(p, v)
               \/ DOC!ReadAgreement(p, v, "client_review", "sign")
               \/ DOC!ReadAgreement(p, v, "client_approved", "countersign")
        PROVE  DocInv'
    <2>1. \E c : DOC!Reads(p, c) /\ c.op # "upload"
      <3>1. CASE DOC!ReadForSignoff(p, v)
        BY <3>1 DEF DOC!ReadForSignoff
      <3>2. CASE DOC!ReadForDecision(p, v)
        <4>1. PICK tasks : DOC!Reads(p, [op |-> "decide", doc |-> v, tasks |-> tasks])
          BY <3>2 DEF DOC!ReadForDecision
        <4>2. PICK c : c = [op |-> "decide", doc |-> v, tasks |-> tasks]
          OBVIOUS
        <4>3. DOC!Reads(p, c) /\ c.op # "upload"
          BY <4>1, <4>2
        <4> QED
          BY <4>3, Zenon
      <3>3. CASE DOC!ReadAgreement(p, v, "client_review", "sign")
        BY <3>3 DEF DOC!ReadAgreement
      <3>4. CASE DOC!ReadAgreement(p, v, "client_approved", "countersign")
        BY <3>4 DEF DOC!ReadAgreement
      <3> QED
        BY <1>9, <3>1, <3>2, <3>3, <3>4
    <2> QED
      BY <1>r, <2>1 DEF DOC!Reads
  <1>10. ASSUME NEW w \in Workers, NEW v \in DOMAIN files, DOC!ReadText(w, v) PROVE DocInv'
    BY <1>10, <1>u DEF DOC!ReadText
  <1>11. ASSUME NEW w \in Workers, NEW text, NEW n, DOC!WriteText(w, text, n) PROVE DocInv'
    <2>0. PICK v : v = indexers[w].doc
      OBVIOUS
    <2>1. PICK mid : mid = [files[v] EXCEPT !.text = text]
      OBVIOUS
    <2>2. PICK new : new = [mid EXCEPT !.attempts = n]
      OBVIOUS
    <2>3. files' = [files EXCEPT ![v] = [files[v] EXCEPT !.text = text, !.attempts = n]] /\ UNCHANGED <<group, fileCalls>>
      BY <1>11, <2>0 DEF DOC!WriteText
    <2>4. files' = [files EXCEPT ![v] = new]
      BY <2>1, <2>2, <2>3, Zenon
    <2>5. v \in DOMAIN files => IsFile(new) /\ new.number = files[v].number /\ new.bytes = files[v].bytes
      <3> SUFFICES ASSUME v \in DOMAIN files
                   PROVE  IsFile(new) /\ new.number = files[v].number /\ new.bytes = files[v].bytes
        OBVIOUS
      <3>1. PICK x : x = files[v]
        OBVIOUS
      <3>2. IsFile(x) /\ mid = [x EXCEPT !.text = text]
        BY <2>1, <3>1 DEF DocInv, FilesSound
      <3>3. IsFile(mid) /\ mid.number = x.number /\ mid.bytes = x.bytes
        BY <3>2, FileWritten, Zenon
      <3>5. IsFile(new) /\ new.number = mid.number /\ new.bytes = mid.bytes
        BY <2>2, <3>3, AttemptsWritten
      <3> QED
        BY <3>1, <3>3, <3>5
    <2> QED
      BY <1>w, <2>3, <2>4, <2>5
  <1>12. ASSUME NEW w \in Workers, DOC!IndexVersionText(w) PROVE DocInv'
    BY <1>11, <1>12 DEF DOC!IndexVersionText
  <1>13. CASE UNCHANGED DOC!vars
    BY <1>13, <1>u DEF DOC!vars
  <1> QED
    BY <1>1, <1>2, <1>3, <1>4, <1>5, <1>6, <1>7, <1>8, <1>9, <1>10, <1>12, <1>13 DEF DOC!Next

\* However many people upload a file at the same time, sign it off and tag it,
\* its versions are numbered one after another, the newest is the current one,
\* and none repeats the bytes of the one before (uploadDocument).
THEOREM VersionsStayConsecutive == DOC!Spec => []DOC!VersionsAreConsecutive
  <1>1. DOC!Init => DocInv
    <2> SUFFICES ASSUME DOC!Init PROVE DocInv
      OBVIOUS
    <2>1. PICK agreement, bytes : /\ files = <<DOC!NewFile(agreement, bytes)>>
                                  /\ group = [current |-> 1, agreement |-> agreement]
                                  /\ fileCalls = [p \in Requests |-> DOC!Idle]
      BY DEF DOC!Init
    <2>2. PICK new : new = DOC!NewFile(agreement, bytes)
      OBVIOUS
    <2>3. PICK state : state = (IF agreement THEN "client_review" ELSE "uploaded")
      OBVIOUS
    <2> PICK text, attempts : text = DOC!TextOnUpload(bytes) /\ attempts = DOC!AttemptsOnUpload(text)
      OBVIOUS
    <2>4. new = [number |-> 1, bytes |-> bytes, restricted |-> FALSE, attempts |-> attempts, status |-> state, text |-> text]
      BY <2>2, <2>3 DEF DOC!NewFile
    <2>5. IsFile(new) /\ new.number = 1
      BY <2>4, FieldsMakeAFile
    <2>6. files = <<new>> /\ files \in Seq({new}) /\ Len(files) = 1 /\ DOMAIN files = {1} /\ files[1] = new
      BY <2>1, <2>2
    <2>7. \A v \in DOMAIN files : IsFile(files[v]) /\ files[v].number = v
      BY <2>5, <2>6
    <2>8. DOC!VersionsAreConsecutive
      BY <2>1, <2>6, <2>7 DEF DOC!VersionsAreConsecutive
    <2>9. FilesSound
      <3>1. group = [current |-> Len(files), agreement |-> agreement] /\ files # <<>>
        BY <2>1, <2>6
      <3>2. \E a : group = [current |-> Len(files), agreement |-> a]
        BY <3>1, Zenon
      <3> QED
        BY <2>6, <2>7, <2>8, <3>1, <3>2 DEF FilesSound
    <2>10. fileCalls \in [Requests -> {DOC!Idle}] /\ \A p \in Requests : fileCalls[p].op = "none"
      BY <2>1 DEF DOC!Idle
    <2> QED
      BY <2>9, <2>10 DEF DocInv, UploadSound
  <1>2. DocInv /\ [DOC!Next]_(DOC!vars) => DocInv'
    BY DocStays
  <1>3. DocInv => DOC!VersionsAreConsecutive
    BY DEF DocInv, FilesSound
  <1> QED
    BY <1>1, <1>2, <1>3, PTL DEF DOC!Spec

-----------------------------------------------------------------------------
(* The sign-offs behind a gate.                                            *)

CONSTANTS Reviewers, Wordings, AsDrafted, Calls, MaxAge, MaxWrites
VARIABLES rows, writes, draft, process, call

GATE == INSTANCE Approvals

GateTyped ==
    /\ rows \in Seq(GATE!RowType) /\ writes \in Nat /\ draft \in Nat
    /\ process \in [draft : Nat, ticks : BOOLEAN, snapshot : Seq(GATE!RowType), age : Nat]
    /\ call \in [Calls -> [step : {"idle", "reading", "arriving", "ready"},
                           read : Seq(GATE!RowType), began : Nat]]

\* Each row was written, and what revoked it was a write too.
RowsDated == \A i \in DOMAIN rows : rows[i].at \in 1 .. writes /\ rows[i].revoked \in 0 .. writes

\* The rows as they were after the first t writes.
AsOf(read, t) ==
    /\ DOMAIN read = {i \in DOMAIN rows : rows[i].at <= t}
    /\ \A i \in DOMAIN read :
          /\ read[i].kind = rows[i].kind /\ read[i].text = rows[i].text /\ read[i].draft = rows[i].draft
          /\ read[i].revoked = IF rows[i].revoked \in 1 .. t THEN rows[i].revoked ELSE 0

\* What a call has read, and what the process goes by, is the table of one
\* moment; that of a tick is from no earlier than the tick.
GateInv ==
    /\ GateTyped /\ RowsDated
    /\ \E t \in 0 .. writes : AsOf(process.snapshot, t)
    /\ \A c \in Calls : call[c].began <= writes
    /\ \A c \in Calls : call[c].step = "arriving" => \E t \in call[c].began .. writes : AsOf(call[c].read, t)
    /\ \A c \in Calls : process.ticks /\ call[c].step = "ready" =>
          process.snapshot = <<>> \/ \E t \in call[c].began .. writes : AsOf(process.snapshot, t)
    /\ process.ticks => \A c, d \in Calls : call[c].step # "idle" /\ call[d].step # "idle" => c = d

\* A later write changes nothing of what the table was before.
LEMMA PastStays ==
    ASSUME GateTyped, RowsDated, NEW n \in Nat, DOMAIN rows \subseteq DOMAIN rows', n = writes + 1,
           \A i \in DOMAIN rows' \ DOMAIN rows : rows'[i].at = n,
           \A i \in DOMAIN rows :
              /\ rows'[i].kind = rows[i].kind /\ rows'[i].text = rows[i].text
              /\ rows'[i].draft = rows[i].draft /\ rows'[i].at = rows[i].at
              /\ rows'[i].revoked = rows[i].revoked \/ (rows[i].revoked = 0 /\ rows'[i].revoked = n),
           NEW read, NEW t \in 0 .. writes, AsOf(read, t)
    PROVE  AsOf(read, t)'
  <1>1. writes \in Nat /\ t \in Nat /\ t < n
    BY DEF GateTyped
  <1>2. {i \in DOMAIN rows' : rows'[i].at <= t} = {i \in DOMAIN rows : rows[i].at <= t}
    BY <1>1
  <1>3. \A i \in DOMAIN rows : rows[i].revoked \in Nat
    BY <1>1 DEF RowsDated
  <1>4. \A i \in DOMAIN rows : rows'[i].revoked \in 1 .. t <=> rows[i].revoked \in 1 .. t
    BY <1>1, <1>3
  <1>5. \A i \in DOMAIN rows : rows'[i].revoked \in 1 .. t => rows'[i].revoked = rows[i].revoked
    BY <1>1, <1>3
  <1> QED
    BY <1>2, <1>4, <1>5 DEF AsOf

\* The table as it is now, and a process that knows of nothing.
LEMMA NowAndNever ==
    ASSUME GateTyped, RowsDated
    PROVE  AsOf(rows, writes) /\ AsOf(<<>>, 0) /\ writes \in Nat /\ <<>> \in Seq(GATE!RowType)
  <1>1. writes \in Nat
    BY DEF GateTyped
  <1>2. \A i \in DOMAIN rows : rows[i].at \in 1 .. writes /\ rows[i].revoked \in 0 .. writes
    BY DEF RowsDated
  <1>3. AsOf(rows, writes)
    <2>1. {i \in DOMAIN rows : rows[i].at <= writes} = DOMAIN rows
      <3>1. \A i \in DOMAIN rows : rows[i].at <= writes
        BY <1>1, <1>2
      <3> QED
        BY <3>1, Zenon
    <2>2. \A i \in DOMAIN rows : rows[i].revoked = IF rows[i].revoked \in 1 .. writes THEN rows[i].revoked ELSE 0
      BY <1>1, <1>2
    <2> QED
      BY <2>1, <2>2 DEF AsOf
  <1>4. AsOf(<<>>, 0)
    <2>1. {i \in DOMAIN rows : rows[i].at <= 0} = {} /\ DOMAIN <<>> = {}
      BY <1>1, <1>2
    <2> QED
      BY <2>1 DEF AsOf
  <1> QED
    BY <1>1, <1>3, <1>4

LEMMA GateStarts ==
    ASSUME GATE!ApprovalsAssumption, GATE!Init
    PROVE  GateInv
  <1>1. PICK ticks \in BOOLEAN : process = GATE!Started(ticks)
    BY DEF GATE!Init
  <1>2. rows = <<>> /\ writes = 0 /\ draft = 1 /\ call = [c \in Calls |-> GATE!Idle]
    BY DEF GATE!Init
  <1>3. process = [draft |-> 1, ticks |-> ticks, snapshot |-> <<>>, age |-> MaxAge] /\ MaxAge \in Nat
    BY <1>1, <1>2 DEF GATE!Started, GATE!ApprovalsAssumption
  <1>4. /\ \A c \in Calls : call[c].step = "idle" /\ call[c].began = 0
        /\ call \in [Calls -> [step : {"idle", "reading", "arriving", "ready"},
                               read : Seq(GATE!RowType), began : Nat]]
    BY <1>2 DEF GATE!Idle
  <1>5. GateTyped /\ RowsDated
    BY <1>2, <1>3, <1>4 DEF GateTyped, RowsDated
  <1>6. AsOf(process.snapshot, 0) /\ 0 \in 0 .. writes
    BY <1>2, <1>3, <1>5, NowAndNever
  <1> QED
    BY <1>2, <1>3, <1>4, <1>5, <1>6 DEF GateInv

\* Somebody signs off, a sign-off is revoked or the code is released: what is
\* held of the table stays what it was at its moment.
LEMMA WriteKeepsGate ==
    ASSUME GateInv, writes' = writes + 1, UNCHANGED <<process, call>>,
           rows' \in Seq(GATE!RowType), draft' \in Nat,
           DOMAIN rows \subseteq DOMAIN rows',
           \A i \in DOMAIN rows' \ DOMAIN rows : rows'[i].at = writes + 1 /\ rows'[i].revoked = 0,
           \A i \in DOMAIN rows :
              /\ rows'[i].kind = rows[i].kind /\ rows'[i].text = rows[i].text
              /\ rows'[i].draft = rows[i].draft /\ rows'[i].at = rows[i].at
              /\ rows'[i].revoked = rows[i].revoked \/ (rows[i].revoked = 0 /\ rows'[i].revoked = writes + 1)
    PROVE  GateInv'
  <1>1. GateTyped /\ RowsDated /\ writes \in Nat /\ writes + 1 \in Nat
    BY DEF GateInv, GateTyped
  <1>2. \A read : \A t \in 0 .. writes : AsOf(read, t) => AsOf(read, t)'
    BY <1>1, PastStays
  <1>3. GateTyped'
    BY <1>1 DEF GateTyped
  <1>4. RowsDated'
    <2> SUFFICES ASSUME NEW i \in DOMAIN rows'
                 PROVE  rows'[i].at \in 1 .. writes + 1 /\ rows'[i].revoked \in 0 .. writes + 1
      BY DEF RowsDated
    <2>1. CASE i \in DOMAIN rows
      <3>1. rows[i].at \in 1 .. writes /\ rows[i].revoked \in 0 .. writes
        BY <1>1, <2>1 DEF RowsDated
      <3> QED
        BY <1>1, <2>1, <3>1
    <2>2. CASE i \notin DOMAIN rows
      BY <1>1, <2>2
    <2> QED
      BY <2>1, <2>2
  <1>5. \E t \in 0 .. writes' : AsOf(process.snapshot, t)'
    BY <1>1, <1>2 DEF GateInv
  <1>6. ASSUME NEW c \in Calls
        PROVE  /\ call[c].began <= writes'
               /\ call[c].step = "arriving" =>
                     \E t \in call[c].began .. writes' : AsOf(call[c].read, t)'
               /\ process.ticks /\ call[c].step = "ready" =>
                     process.snapshot = <<>> \/ \E t \in call[c].began .. writes' : AsOf(process.snapshot, t)'
    <2>1. call[c].began \in Nat /\ call[c].began <= writes
      BY DEF GateInv, GateTyped
    <2>2. \A t \in call[c].began .. writes : t \in 0 .. writes /\ t \in call[c].began .. writes'
      BY <1>1, <2>1
    <2> QED
      BY <1>1, <1>2, <2>1, <2>2 DEF GateInv
  <1> QED
    BY <1>3, <1>4, <1>5, <1>6 DEF GateInv

\* A call goes on to a step of its own, with what it has read, and the process
\* goes by a snapshot of the table as it was at some moment; that of a call
\* that is ready is as new as the call.
LEMMA CallKeepsGate ==
    ASSUME GateInv, UNCHANGED <<rows, writes, draft>>,
           NEW c \in Calls, NEW new \in [step : {"idle", "reading", "arriving", "ready"},
                                         read : Seq(GATE!RowType), began : Nat],
           call' = [call EXCEPT ![c] = new], new.began <= writes,
           new.step = "arriving" => \E t \in new.began .. writes : AsOf(new.read, t),
           NEW age \in Nat, NEW snapshot \in Seq(GATE!RowType),
           process' = [process EXCEPT !.snapshot = snapshot, !.age = age],
           \E t \in 0 .. writes : AsOf(snapshot, t),
           snapshot = process.snapshot \/ call[c].step # "idle",
           process.ticks /\ new.step = "ready" =>
              snapshot = <<>> \/ \E t \in new.began .. writes : AsOf(snapshot, t),
           process.ticks /\ call[c].step = "idle" => \A d \in Calls : call[d].step = "idle"
    PROVE  GateInv'
  <1>1. /\ GateTyped /\ RowsDated
        /\ \A d \in Calls : call'[d] = IF d = c THEN new ELSE call[d]
        /\ process'.ticks = process.ticks /\ process'.snapshot = snapshot
    BY DEF GateInv, GateTyped
  <1>2. GateTyped' /\ RowsDated'
    BY <1>1 DEF GateTyped, RowsDated
  <1>3. \A read, t : AsOf(read, t)' <=> AsOf(read, t)
    BY DEF AsOf
  <1>4. \E t \in 0 .. writes' : AsOf(process.snapshot, t)'
    BY <1>1, <1>3
  <1>5. ASSUME NEW d \in Calls
        PROVE  /\ call'[d].began <= writes'
               /\ call'[d].step = "arriving" =>
                     \E t \in call'[d].began .. writes' : AsOf(call[d].read, t)'
               /\ process'.ticks /\ call'[d].step = "ready" =>
                     process'.snapshot = <<>> \/ \E t \in call'[d].began .. writes' : AsOf(process.snapshot, t)'
    <2>1. CASE d = c
      BY <1>1, <1>3, <2>1
    <2>2. CASE d # c
      <3>1. call'[d] = call[d]
        BY <1>1, <2>2
      <3>2. /\ call[d].began <= writes
            /\ call[d].step = "arriving" => \E t \in call[d].began .. writes : AsOf(call[d].read, t)
        BY DEF GateInv
      <3>3. process.ticks /\ call[d].step = "ready" => snapshot = process.snapshot
        BY <2>2 DEF GateInv
      <3>4. process.ticks /\ call[d].step = "ready" =>
               snapshot = <<>> \/ \E t \in call[d].began .. writes : AsOf(snapshot, t)
        BY <3>3 DEF GateInv
      <3> QED
        BY <1>1, <1>3, <3>1, <3>2, <3>4
    <2> QED
      BY <2>1, <2>2
  <1>6. process'.ticks =>
           \A d, e \in Calls : call'[d].step # "idle" /\ call'[e].step # "idle" => d = e
    BY <1>1 DEF GateInv
  <1> QED
    BY <1>2, <1>4, <1>5, <1>6 DEF GateInv

LEMMA GateStays ==
    ASSUME GATE!ApprovalsAssumption, GateInv, [GATE!Next]_(GATE!vars)
    PROVE  GateInv'
  <1> DEFINE CallType == [step : {"idle", "reading", "arriving", "ready"},
                          read : Seq(GATE!RowType), began : Nat]
  <1>1. /\ GateTyped /\ RowsDated /\ AsOf(rows, writes) /\ AsOf(<<>>, 0) /\ <<>> \in Seq(GATE!RowType)
        /\ writes \in Nat /\ 0 \in 0 .. writes /\ MaxAge \in Nat /\ draft \in Nat /\ rows \in Seq(GATE!RowType)
    BY NowAndNever DEF GateInv, GateTyped, GATE!ApprovalsAssumption
  <1>2. /\ process.snapshot \in Seq(GATE!RowType) /\ process.age \in Nat
        /\ process = [process EXCEPT !.snapshot = process.snapshot, !.age = process.age]
        /\ \E t \in 0 .. writes : AsOf(process.snapshot, t)
    BY <1>1 DEF GateTyped, GateInv
  <1>3. ASSUME NEW k \in Reviewers, NEW text \in Wordings \cup {AsDrafted}, GATE!Approve(k, text)
        PROVE  GateInv'
    <2> DEFINE row == [kind |-> k, text |-> text, draft |-> draft, at |-> writes + 1, revoked |-> 0]
    <2>1. /\ rows' = Append(rows, row) /\ writes' = writes + 1 /\ UNCHANGED <<draft, process, call>>
          /\ row \in GATE!RowType /\ row.at = writes + 1 /\ row.revoked = 0
      BY <1>1, <1>3 DEF GATE!Approve, GATE!RowType
    <2> HIDE DEF row
    <2>2. /\ rows' \in Seq(GATE!RowType) /\ DOMAIN rows \subseteq DOMAIN rows'
          /\ \A i \in DOMAIN rows : rows'[i] = rows[i]
          /\ \A i \in DOMAIN rows' \ DOMAIN rows : rows'[i] = row
      BY <1>1, <2>1
    <2> QED
      BY <1>1, <2>1, <2>2, WriteKeepsGate
  <1>4. ASSUME NEW k \in Reviewers, GATE!Revoke(k) PROVE GateInv'
    <2>1. /\ writes' = writes + 1 /\ UNCHANGED <<draft, process, call>>
          /\ rows' = [i \in DOMAIN rows |->
                         IF rows[i].kind = k /\ rows[i].revoked = 0
                         THEN [rows[i] EXCEPT !.revoked = writes + 1] ELSE rows[i]]
      BY <1>4 DEF GATE!Revoke
    <2>2. DOMAIN rows = 1 .. Len(rows) /\ Len(rows) \in Nat /\ \A i \in DOMAIN rows : rows[i] \in GATE!RowType
      BY <1>1
    <2>3. \A i \in DOMAIN rows :
             /\ rows'[i] \in GATE!RowType
             /\ rows'[i].kind = rows[i].kind /\ rows'[i].text = rows[i].text
             /\ rows'[i].draft = rows[i].draft /\ rows'[i].at = rows[i].at
             /\ rows'[i].revoked = rows[i].revoked \/ (rows[i].revoked = 0 /\ rows'[i].revoked = writes + 1)
      <3> SUFFICES ASSUME NEW i \in DOMAIN rows
                   PROVE  /\ rows'[i] \in GATE!RowType
                          /\ rows'[i].kind = rows[i].kind /\ rows'[i].text = rows[i].text
                          /\ rows'[i].draft = rows[i].draft /\ rows'[i].at = rows[i].at
                          /\ rows'[i].revoked = rows[i].revoked \/ (rows[i].revoked = 0 /\ rows'[i].revoked = writes + 1)
        OBVIOUS
      <3>1. rows[i] \in GATE!RowType /\ writes + 1 \in Nat
        BY <1>1, <2>2
      <3>2. CASE rows[i].kind = k /\ rows[i].revoked = 0
        <4>1. rows'[i] = [rows[i] EXCEPT !.revoked = writes + 1]
          BY <2>1, <3>2
        <4> QED
          BY <3>1, <3>2, <4>1 DEF GATE!RowType
      <3>3. CASE ~(rows[i].kind = k /\ rows[i].revoked = 0)
        <4>1. rows'[i] = rows[i]
          BY <2>1, <3>3
        <4> QED
          BY <3>1, <4>1
      <3> QED
        BY <3>2, <3>3
    <2>4. rows' \in Seq(GATE!RowType) /\ DOMAIN rows' = DOMAIN rows
      <3>1. rows' \in [1 .. Len(rows) -> GATE!RowType]
        BY <2>1, <2>2, <2>3
      <3> QED
        BY <2>1, <2>2, <3>1, FunctionsAreSequences
    <2> QED
      BY <1>1, <2>1, <2>3, <2>4, WriteKeepsGate
  <1>5. ASSUME GATE!Release PROVE GateInv'
    <2>1. draft' \in Nat /\ writes' = writes + 1 /\ UNCHANGED <<rows, process, call>>
      BY <1>1, <1>5 DEF GATE!Release
    <2> QED
      BY <1>1, <2>1, WriteKeepsGate
  <1>6. ASSUME GATE!Restart PROVE GateInv'
    <2>1. /\ process' = [draft |-> draft, ticks |-> process.ticks, snapshot |-> <<>>, age |-> MaxAge]
          /\ call' = [c \in Calls |-> [step |-> "idle", read |-> <<>>, began |-> 0]]
          /\ UNCHANGED <<rows, writes, draft>>
      BY <1>6 DEF GATE!Restart, GATE!Started, GATE!Idle
    <2>2. process.ticks \in BOOLEAN
      BY <1>1 DEF GateTyped
    <2>3. GateTyped' /\ RowsDated'
      BY <1>1, <2>1, <2>2 DEF GateTyped, RowsDated
    <2>4. AsOf(<<>>, 0)'
      BY <1>1, <2>1 DEF AsOf
    <2>5. \A c \in Calls : call'[c].step = "idle" /\ call'[c].began = 0
      BY <2>1
    <2> QED
      BY <1>1, <2>1, <2>3, <2>4, <2>5 DEF GateInv
  <1>7. ASSUME GATE!TimePasses PROVE GateInv'
    <2>1. process' = [process EXCEPT !.age = @ + 1] /\ UNCHANGED <<rows, writes, draft, call>>
      BY <1>7 DEF GATE!TimePasses
    <2>2. process'.snapshot = process.snapshot /\ process'.ticks = process.ticks /\ GateTyped'
      BY SMTT(30), <1>1, <2>1 DEF GateTyped
    <2> QED
      BY <2>1, <2>2 DEF GateInv, RowsDated, AsOf
  <1>8. ASSUME NEW c \in Calls PROVE call[c] \in CallType /\ call[c].began <= writes
    BY <1>1 DEF GateTyped, GateInv
  <1>9. ASSUME NEW c \in Calls, GATE!Begin(c) PROVE GateInv'
    <2> DEFINE new == [step |-> IF ~process.ticks /\ process.age < MaxAge THEN "ready" ELSE "reading",
                       read |-> <<>>, began |-> IF process.ticks THEN writes ELSE 0]
    <2>1. /\ call[c].step = "idle" /\ (process.ticks => \A d \in Calls : call[d].step = "idle")
          /\ call' = [call EXCEPT ![c] = new] /\ UNCHANGED <<rows, writes, draft, process>>
      BY <1>9 DEF GATE!Begin
    <2>2. new \in CallType /\ new.began <= writes /\ new.step # "arriving" /\ ~(process.ticks /\ new.step = "ready")
      BY <1>1
    <2> HIDE DEF new
    <2>3. process' = [process EXCEPT !.snapshot = process.snapshot, !.age = process.age]
      BY <1>2, <2>1
    <2> QED
      BY <1>2, <2>1, <2>2, <2>3, CallKeepsGate
  <1>10. ASSUME NEW c \in Calls, GATE!Read(c) PROVE GateInv'
    <2>1. PICK new : new = [call[c] EXCEPT !.step = "arriving", !.read = rows]
      OBVIOUS
    <2>2. /\ call[c].step # "idle" /\ call' = [call EXCEPT ![c] = new]
          /\ UNCHANGED <<rows, writes, draft, process>>
      BY <1>1, <1>10, <2>1 DEF GATE!Read, GateTyped
    <2>3. /\ new \in CallType /\ new.began = call[c].began /\ new.began <= writes
          /\ new.step = "arriving" /\ new.read = rows
      BY <1>1, <1>8, <2>1
    <2>4. writes \in new.began .. writes
      BY <1>1, <2>3
    <2>5. process' = [process EXCEPT !.snapshot = process.snapshot, !.age = process.age]
      BY <1>2, <2>2
    <2> QED
      BY <1>1, <1>2, <2>2, <2>3, <2>4, <2>5, CallKeepsGate
  <1>11. ASSUME NEW c \in Calls, GATE!Arrive(c) \/ GATE!LoadFails(c) PROVE GateInv'
    <2>1. PICK new : new = [call[c] EXCEPT !.step = "ready", !.read = <<>>]
      OBVIOUS
    <2>2. PICK snapshot \in {call[c].read, <<>>} :
             /\ snapshot # <<>> => GATE!Arrive(c)
             /\ process' = [process EXCEPT !.snapshot = snapshot, !.age = 0]
      BY <1>11 DEF GATE!Arrive, GATE!LoadFails, GATE!Install
    <2>3. /\ call[c].step # "idle" /\ call' = [call EXCEPT ![c] = new]
          /\ UNCHANGED <<rows, writes, draft>>
          /\ GATE!Arrive(c) => call[c].step = "arriving"
      BY <1>1, <1>11, <2>1 DEF GATE!Arrive, GATE!LoadFails, GateTyped
    <2>4. /\ new \in CallType /\ new.began = call[c].began /\ new.began <= writes
          /\ new.step = "ready"
      BY <1>1, <1>8, <2>1
    <2>5. snapshot = <<>> \/ \E t \in new.began .. writes : AsOf(snapshot, t)
      BY <2>2, <2>3, <2>4 DEF GateInv
    <2>6. snapshot \in Seq(GATE!RowType) /\ new.began \in Nat
      BY <1>1, <1>8, <2>2, <2>4
    <2>7. \E t \in 0 .. writes : AsOf(snapshot, t)
      BY <1>1, <2>5, <2>6
    <2> QED
      BY <1>1, <2>2, <2>3, <2>4, <2>5, <2>6, <2>7, CallKeepsGate
  <1>12. ASSUME NEW c \in Calls, GATE!Finish(c) PROVE GateInv'
    <2>1. /\ call[c].step # "idle" /\ call' = [call EXCEPT ![c] = GATE!Idle]
          /\ UNCHANGED <<rows, writes, draft, process>>
      BY <1>12 DEF GATE!Finish
    <2>2. GATE!Idle \in CallType /\ GATE!Idle.began <= writes /\ GATE!Idle.step = "idle"
      BY <1>1 DEF GATE!Idle
    <2>3. process' = [process EXCEPT !.snapshot = process.snapshot, !.age = process.age]
      BY <1>2, <2>1
    <2> QED
      BY <1>2, <2>1, <2>2, <2>3, CallKeepsGate
  <1>13. CASE UNCHANGED GATE!vars
    <2>1. UNCHANGED <<rows, writes, draft, process, call>>
      BY <1>13 DEF GATE!vars
    <2>2. \A read, t : AsOf(read, t)' <=> AsOf(read, t)
      BY <2>1 DEF AsOf
    <2>3. GateTyped' /\ RowsDated'
      BY <1>1, <2>1 DEF GateTyped, RowsDated
    <2> QED
      BY <2>1, <2>2, <2>3 DEF GateInv
  <1> QED
    BY <1>3, <1>4, <1>5, <1>6, <1>7, <1>9, <1>10, <1>11, <1>12, <1>13 DEF GATE!Next

LEMMA OpenWasSignedOff ==
    ASSUME GateInv
    PROVE  GATE!SignedOffAtOnce
  <1> SUFFICES ASSUME GATE!Open
               PROVE  \E t \in 0 .. writes :
                         /\ \A k \in Reviewers : \E i \in GATE!StoodAt(t) :
                               /\ rows[i].kind = k
                               /\ rows[i].text # AsDrafted \/ rows[i].draft = process.draft
                               /\ GATE!Shown = AsDrafted => rows[i].draft = process.draft
                         /\ GATE!Shown # AsDrafted => \E i \in GATE!StoodAt(t) : rows[i].text = GATE!Shown
    BY DEF GATE!SignedOffAtOnce
  <1> DEFINE read == process.snapshot
  <1>1. PICK t \in 0 .. writes : AsOf(read, t)
    BY DEF GateInv
  <1>2. /\ DOMAIN rows = 1 .. Len(rows) /\ Len(rows) \in Nat
        /\ \A i \in DOMAIN rows : rows[i].revoked \in Nat /\ DOMAIN read \subseteq DOMAIN rows
    BY <1>1 DEF GateInv, GateTyped, RowsDated, AsOf
  <1>3. ASSUME NEW i \in GATE!Valid
        PROVE  /\ i \in GATE!StoodAt(t) /\ rows[i].kind = read[i].kind /\ rows[i].text = read[i].text
               /\ rows[i].draft = read[i].draft
               /\ rows[i].text = AsDrafted => rows[i].draft = process.draft
    <2>1. i \in DOMAIN read /\ read[i].revoked = 0 /\ (read[i].text = AsDrafted => read[i].draft = process.draft)
      BY DEF GATE!Valid, GATE!Counts
    <2>2. rows[i].revoked \notin 1 .. t
      BY <1>1, <2>1 DEF AsOf
    <2> QED
      BY <1>1, <2>1, <2>2 DEF AsOf, GATE!StoodAt
  <1>4. GATE!Worded # {} => \E i \in GATE!Worded : GATE!Shown = read[i].text
    <2> SUFFICES ASSUME GATE!Worded # {} PROVE \E i \in GATE!Worded : GATE!Shown = read[i].text
      OBVIOUS
    <2>1. GATE!Worded \subseteq 0 .. Len(rows)
      BY <1>1, <1>2 DEF GATE!Worded, GATE!Valid, AsOf
    <2>2. \E i \in GATE!Worded : \A j \in GATE!Worded : j <= i
      BY <1>2, <2>1, GreatestNatural
    <2> QED
      BY <2>2 DEF GATE!Shown
  <1>5. GATE!Shown = AsDrafted <=> GATE!Worded = {}
    BY <1>4 DEF GATE!Shown, GATE!Worded
  <1>6. ASSUME NEW k \in Reviewers
        PROVE  \E i \in GATE!StoodAt(t) :
                  /\ rows[i].kind = k
                  /\ rows[i].text # AsDrafted \/ rows[i].draft = process.draft
                  /\ GATE!Shown = AsDrafted => rows[i].draft = process.draft
    <2>1. PICK i \in GATE!Valid : read[i].kind = k
      BY DEF GATE!Open, GATE!Pending
    <2>2. GATE!Shown = AsDrafted => rows[i].text = AsDrafted
      BY <1>3, <1>5 DEF GATE!Worded
    <2> QED
      BY <1>3, <2>1, <2>2
  <1>7. GATE!Shown # AsDrafted => \E i \in GATE!StoodAt(t) : rows[i].text = GATE!Shown
    BY <1>3, <1>4, <1>5 DEF GATE!Worded
  <1> QED
    BY <1>1, <1>6, <1>7

LEMMA TicksSee ==
    ASSUME GateInv
    PROVE  GATE!TicksSeeRevocations
  <1> SUFFICES ASSUME NEW c \in Calls, process.ticks, call[c].step = "ready",
                      NEW i \in DOMAIN process.snapshot, rows[i].revoked \in 1 .. call[c].began
               PROVE  process.snapshot[i].revoked # 0
    BY DEF GATE!TicksSeeRevocations
  <1>1. PICK t \in call[c].began .. writes : AsOf(process.snapshot, t)
    BY DEF GateInv
  <1>2. rows[i].revoked \in 1 .. t
    BY SMTT(30), <1>1 DEF GateInv, GateTyped
  <1>3. process.snapshot[i].revoked = rows[i].revoked
    BY <1>1, <1>2 DEF AsOf
  <1> QED
    BY <1>3

\* Whatever is signed off, revoked and released while calls begin, read, fail
\* and overlap: an open gate was signed off by everybody it asks for at one
\* moment, for what is shown, and what was revoked before a tick began is
\* revoked for all it does (approvals.ts, ensureServerApprovals).
THEOREM OpenGatesWereSignedOff ==
    ASSUME GATE!ApprovalsAssumption
    PROVE  GATE!Spec => [](GATE!SignedOffAtOnce /\ GATE!TicksSeeRevocations)
  <1>1. GATE!Init => GateInv
    BY GateStarts
  <1>2. GateInv /\ [GATE!Next]_(GATE!vars) => GateInv'
    BY GateStays
  <1>3. GateInv => GATE!SignedOffAtOnce /\ GATE!TicksSeeRevocations
    BY OpenWasSignedOff, TicksSee
  <1> QED
    BY <1>1, <1>2, <1>3, PTL DEF GATE!Spec
=============================================================================
