---------------------------- MODULE SpeedToLead ----------------------------
(***************************************************************************)
(* The first human response to one inquiry (src/src/engines/intake/        *)
(* speedToLead): the clock starts with the first message that can be       *)
(* answered and opens a task of the firm; a contact, enough attempts, an   *)
(* emergency, a decline or "not an inquiry" stops it.  Checks watch the    *)
(* task: overdue, escalate; the warning before, told to whom the overdue   *)
(* check tells, is left out.  Whom the firm names for this stays the same. *)
(*                                                                         *)
(* A request reads the session and commits later, at READ COMMITTED.  The  *)
(* business hours of the targets are reduced to the order of the checks.   *)
(***************************************************************************)
EXTENDS Naturals, Sequences

CONSTANTS
    Callers,   \* requests handled at a time
    Tickers,   \* ticks under way at a time
    Firms,     \* whom a firm may have: [managers, owners, admins], the first two
               \* as named in its settings, the administrators in office
    Closings,  \* the outcomes the clock is stopped with
    MaxTasks   \* bound: response tasks opened

VARIABLES
    answer,   \* the session's part of the clock: see AnswerType
    tasks,    \* the response tasks, in the order they were opened
    checks,   \* the checks still to come: [task, stage]
    elapsed,  \* how many of the stages have come due
    flagged,  \* per task, who has an open flag about it
    told,     \* per task, the owners who were ever told that it is late
    lead,     \* the requests under way
    check,    \* the checks under way
    contacts  \* this firm's people, one of Firms

vars == <<answer, tasks, checks, elapsed, flagged, told, lead, check, contacts>>

Stages == <<"overdue", "escalate">>
Outcomes == {"contacted", "attempted", "bypassed_emergency", "not_an_inquiry", "declined"}
AnswerType == [started : BOOLEAN, outcome : Outcomes \cup {"none"},
               contacted : BOOLEAN, task : 0..MaxTasks]
NoCall == [op |-> "none", locked |-> FALSE]
NoCheck == [stage |-> "none", of |-> [task |-> 0, stage |-> 0], open |-> FALSE]

\* Requests that write the session's row before they look at the task hold it
\* from then on; the others look first.
LocksFirst == {"contacted", "declined"}

Init ==
    /\ answer = [started |-> FALSE, outcome |-> "none", contacted |-> FALSE, task |-> 0]
    /\ tasks = <<>> /\ checks = {} /\ elapsed = 0
    /\ flagged = <<>> /\ told = <<>>
    /\ lead = [p \in Callers |-> NoCall]
    /\ check = [w \in Tickers |-> NoCheck]
    /\ contacts \in Firms

Open(k) == k \in DOMAIN tasks /\ tasks[k] = "open"
SessionFree(p) == \A q \in Callers \ {p} : ~lead[q].locked

Call(p, r) ==
    /\ lead[p] = NoCall
    /\ lead' = [lead EXCEPT ![p] = r]
    /\ UNCHANGED <<answer, tasks, checks, elapsed, flagged, told, check, contacts>>

-----------------------------------------------------------------------------
(* The clock starts.                                                       *)

ReadForStart(p) ==
    /\ ~answer.started /\ answer.outcome = "none"
    /\ Call(p, [op |-> "start", locked |-> FALSE])

StartResponseClock(p) ==
    /\ lead[p].op = "start"
    /\ SessionFree(p)
    /\ Len(tasks) < MaxTasks
    /\ LET k == Len(tasks) + 1 IN
          /\ tasks' = Append(tasks, "open")
          /\ flagged' = Append(flagged, {}) /\ told' = Append(told, {})
          /\ answer' = [answer EXCEPT !.started = TRUE, !.task = k]
          /\ checks' = checks \cup {[task |-> k, stage |-> s] : s \in DOMAIN Stages}
    /\ lead' = [lead EXCEPT ![p] = NoCall]
    /\ UNCHANGED <<elapsed, check, contacts>>

-----------------------------------------------------------------------------
(* The clock is stopped.                                                   *)

\* An inquiry is closed as none whatever its clock says, the others leave a
\* stopped clock alone; an attempt too many is one of the outcomes, and one that
\* is not yet enough changes none of this.
ReadForClose(p, outcome) ==
    /\ outcome = "contacted" => ~answer.contacted
    /\ outcome \in {"attempted", "bypassed_emergency"} => answer.outcome = "none"
    /\ Call(p, [op |-> outcome, locked |-> FALSE, stopped |-> answer.outcome # "none",
                task |-> answer.task, open |-> Open(answer.task)])

\* closeClockForDecline asks for the outcome once the session is written.
LockSession(p) ==
    /\ lead[p].op \in LocksFirst /\ ~lead[p].locked
    /\ SessionFree(p)
    /\ lead' = [lead EXCEPT ![p] =
          [@ EXCEPT !.locked = TRUE, !.task = answer.task, !.open = Open(answer.task),
                    !.stopped = IF lead[p].op = "declined" THEN answer.outcome # "none" ELSE @]]
    /\ UNCHANGED <<answer, tasks, checks, elapsed, flagged, told, check, contacts>>

\* completeTask and cancelTask write a task only while it is open and throw
\* otherwise, which undoes all the request has done.
TaskTaken(p) == lead[p].open /\ ~Open(lead[p].task)

CloseTask(p) ==
    IF lead[p].open
    THEN /\ tasks' = [tasks EXCEPT ![lead[p].task] =
                         IF lead[p].op \in {"bypassed_emergency", "not_an_inquiry"}
                         THEN "cancelled" ELSE "done"]
         /\ flagged' = [flagged EXCEPT ![lead[p].task] = {}]
    ELSE UNCHANGED <<tasks, flagged>>

CloseClock(p) ==
    /\ lead[p].op \in Outcomes
    /\ lead[p].op \in LocksFirst => lead[p].locked
    /\ SessionFree(p) /\ ~TaskTaken(p)
    /\ IF lead[p].op \in LocksFirst /\ lead[p].stopped
       THEN UNCHANGED <<tasks, flagged>> ELSE CloseTask(p)
    /\ answer' =
          [answer EXCEPT
              !.outcome = IF lead[p].op \in LocksFirst /\ lead[p].stopped THEN @ ELSE lead[p].op,
              !.contacted = @ \/ lead[p].op = "contacted"]
    /\ lead' = [lead EXCEPT ![p] = NoCall]
    /\ UNCHANGED <<checks, elapsed, told, check, contacts>>

\* The request fails: its task was closed meanwhile, a deadlock, a lost connection.
CallFails(p) ==
    /\ lead[p] # NoCall
    /\ lead' = [lead EXCEPT ![p] = NoCall]
    /\ UNCHANGED <<answer, tasks, checks, elapsed, flagged, told, check, contacts>>

\* Staff resolve the flags of a task by hand.
ResolveFlags(k) ==
    /\ flagged[k] # {}
    /\ flagged' = [flagged EXCEPT ![k] = {}]
    /\ UNCHANGED <<answer, tasks, checks, elapsed, told, lead, check, contacts>>

-----------------------------------------------------------------------------
(* The checks.                                                             *)

StagePasses ==
    /\ elapsed < Len(Stages) /\ tasks # <<>>
    /\ elapsed' = elapsed + 1
    /\ UNCHANGED <<answer, tasks, checks, flagged, told, lead, check, contacts>>

TakeCheck(w, c) ==
    /\ check[w] = NoCheck
    /\ c.stage <= elapsed
    /\ \A v \in Tickers : check[v].of # c
    /\ check' = [check EXCEPT ![w] = [stage |-> Stages[c.stage], of |-> c, open |-> Open(c.task)]]
    /\ UNCHANGED <<answer, tasks, checks, elapsed, flagged, told, lead, contacts>>

\* Whom the firm names, or else its administrators; managers default to owners.
Owners == IF contacts.owners # {} THEN contacts.owners ELSE contacts.admins
Managers == IF contacts.managers # {} THEN contacts.managers ELSE Owners

\* Seeded bug: a flag that is open already is not extended to the owners.
AudienceOnce(stage, already) ==
    IF already # {} THEN already ELSE Managers \cup (IF stage = "escalate" THEN Owners ELSE {})

\* Whom the check tells: a flag is raised to the managers, unless it is open
\* already; the second check adds the owners to it.
Audience(stage, already) ==
    (IF already # {} THEN already ELSE Managers) \cup (IF stage = "escalate" THEN Owners ELSE {})

\* With nobody at all the overdue check ends; the other cannot raise its flag.
HandleSpeedToLeadCheck(w) ==
    /\ check[w] # NoCheck
    /\ check[w].open /\ check[w].stage = "escalate" => Managers # {}
    /\ LET k == check[w].of.task IN
          /\ IF check[w].open /\ Managers # {}
             THEN /\ flagged' = [flagged EXCEPT ![k] = Audience(check[w].stage, @)]
                  /\ told' = [told EXCEPT ![k] = @ \cup (Owners \cap Audience(check[w].stage, flagged[k]))]
             ELSE UNCHANGED <<flagged, told>>
          /\ checks' = checks \ {check[w].of}
    /\ check' = [check EXCEPT ![w] = NoCheck]
    /\ UNCHANGED <<answer, tasks, elapsed, lead, contacts>>

CheckFails(w) ==
    /\ check[w] # NoCheck
    /\ check' = [check EXCEPT ![w] = NoCheck]
    /\ UNCHANGED <<answer, tasks, checks, elapsed, flagged, told, lead, contacts>>

-----------------------------------------------------------------------------
Next ==
    \/ \E p \in Callers :
          \/ ReadForStart(p) \/ StartResponseClock(p)
          \/ \E outcome \in Closings : ReadForClose(p, outcome)
          \/ LockSession(p) \/ CloseClock(p) \/ CallFails(p)
    \/ \E k \in DOMAIN tasks : ResolveFlags(k)
    \/ StagePasses
    \/ \E w \in Tickers :
          \/ \E c \in checks : TakeCheck(w, c)
          \/ HandleSpeedToLeadCheck(w) \/ CheckFails(w)

Spec == Init /\ [][Next]_vars

\* Time passes, the tick comes every minute; a check that fails is retried and
\* does not fail for ever.
Fairness ==
    /\ WF_vars(StagePasses)
    /\ WF_vars(\E w \in Tickers, c \in checks : TakeCheck(w, c))
    /\ \A w \in Tickers : WF_vars(HandleSpeedToLeadCheck(w))
    /\ <>[][\A w \in Tickers : ~CheckFails(w)]_vars
FairSpec == Spec /\ Fairness

-----------------------------------------------------------------------------
(* Properties.                                                             *)

TypeOK ==
    /\ answer \in AnswerType
    /\ tasks \in Seq({"open", "done", "cancelled"})
    /\ checks \subseteq [task : DOMAIN tasks, stage : DOMAIN Stages]
    /\ elapsed \in 0..Len(Stages) /\ contacts \in Firms
    /\ DOMAIN flagged = DOMAIN tasks /\ DOMAIN told = DOMAIN tasks
    /\ \A p \in Callers : lead[p].op \in Outcomes \cup {"start", "none"}
    /\ \A w \in Tickers : check[w] = NoCheck \/ check[w].of \in checks

\* A response task that nobody closes is put before every owner of the firm,
\* and before its administrators where no owner is named: also the task a
\* second, concurrent start of the clock left behind, and whether or not the
\* managers heard of it first (handleSpeedToLeadCheck, resolveEscalationContacts).
UnansweredReachesOwners ==
    \A k \in 1..MaxTasks : Open(k) ~> (~Open(k) \/ Owners \subseteq told[k])
=============================================================================
