---------------------------- MODULE ConflictGate ----------------------------
(***************************************************************************)
(* The conflict checks of one matter, the decisions on them with their     *)
(* consents and screens, and the matter's stored gate                      *)
(* (src/src/engines/conflict-check: checks, decisions, decisionService,    *)
(* screens, timers).  A transaction decides what to write and computes the *)
(* gate from what is committed and its own writes; its writes and its gate *)
(* appear when it commits.  What was checked may be stale by then.         *)
(*                                                                         *)
(* The rule gates are approved; a consent counts as signed once it is      *)
(* countersigned where the firm asks for that.  Checks of a person (a new  *)
(* hire, a lawyer's own interest) are left out.                            *)
(***************************************************************************)
EXTENDS Naturals, Sequences, FiniteSets

CONSTANTS
    Clients,       \* whose consent a decision may ask for
    Requests,      \* transactions under way at a time
    MaxChecks,     \* bound on the checks of the matter
    MaxDecisions   \* bound on the decisions

ASSUME BoundsAssumption == MaxChecks \in Nat /\ MaxDecisions \in Nat

VARIABLES
    file,   \* [checks, decisions, waivers, screens]: what is committed
    tasks,  \* open tasks: the decision of a check, a consent's signature
    stage,  \* the matter's stage: not engaged yet, declined, engaged
    gate,   \* the stored gate
    request, \* what each transaction is about to commit
    behind,  \* history: the transactions under way that did not see the last commit
    crossed  \* history: one of those was committed, and no gate stored by another since

vars == <<file, tasks, stage, gate, request, behind, crossed>>

Kinds == {"cleared", "proceed_with_consent", "proceed_with_screen", "declined"}
CheckType == [outcome : {"clear", "possible", "definite"}, decided : BOOLEAN]
DecisionType == [check : 1..MaxChecks, kind : Kinds, supersedes : 0..MaxDecisions]
WaiverStatuses == {"none", "draft", "approved", "sent", "signed", "refused", "expired", "cancelled"}
ScreenStatuses == {"none", "requested", "active", "lifted"}
Tasks == [of : {"check"}, check : 1..MaxChecks]
             \cup [of : {"waiver"}, decision : 1..MaxDecisions, client : Clients]
Idle == [op |-> "none"]

Init ==
    /\ file = [checks |-> <<>>, decisions |-> <<>>,
               waivers |-> [d \in 1..MaxDecisions |-> [c \in Clients |-> "none"]],
               screens |-> [d \in 1..MaxDecisions |-> "none"]]
    /\ tasks = {}
    /\ stage \in {"prospective", "engaged"}
    /\ gate = "closed"
    /\ request = [p \in Requests |-> Idle]
    /\ behind = {} /\ crossed = FALSE

-----------------------------------------------------------------------------
(* The gate.                                                               *)

\* The decisions on a check that no other one corrects.
Standing(f, c) ==
    {d \in DOMAIN f.decisions :
        /\ f.decisions[d].check = c
        /\ \A e \in DOMAIN f.decisions : f.decisions[e].supersedes # d}
Latest(f, c) == CHOOSE d \in Standing(f, c) : \A e \in Standing(f, c) : d >= e

AllSigned(f, d) ==
    LET live == {c \in Clients : f.waivers[d][c] \notin {"none", "cancelled"}}
    IN  live # {} /\ \A c \in live : f.waivers[d][c] = "signed"
ScreensActive(f, d) == f.screens[d] # "requested"

CheckGateOpen(f, c) ==
    \/ f.checks[c].outcome = "clear"
    \/ /\ Standing(f, c) # {}
       /\ LET d == Latest(f, c) IN
          CASE f.decisions[d].kind = "cleared" -> TRUE
            [] f.decisions[d].kind = "declined" -> FALSE
            [] f.decisions[d].kind = "proceed_with_consent" -> AllSigned(f, d) /\ ScreensActive(f, d)
            [] f.decisions[d].kind = "proceed_with_screen" -> f.screens[d] # "none" /\ ScreensActive(f, d)

CombinedGate(f) ==
    IF f.checks # <<>> /\ \A c \in DOMAIN f.checks : CheckGateOpen(f, c) THEN "open" ELSE "closed"

-----------------------------------------------------------------------------
(* What a transaction writes, as a function of what is committed then.     *)

AddCheck(f, r) ==
    [f EXCEPT !.checks = Append(@, [outcome |-> r.outcome, decided |-> FALSE])]

\* A correction cancels what the decision it supersedes set in motion.
AddDecision(f, r) ==
    LET new == Len(f.decisions) + 1
        cancelled(d, c) == /\ d = r.supersedes
                           /\ f.waivers[d][c] \in {"draft", "approved", "sent"}
    IN  [checks |-> [f.checks EXCEPT ![r.check].decided = TRUE],
         decisions |-> Append(f.decisions, [check |-> r.check, kind |-> r.kind, supersedes |-> r.supersedes]),
         waivers |-> [d \in 1..MaxDecisions |-> [c \in Clients |->
             IF d = new /\ r.kind = "proceed_with_consent" /\ c \in r.clients THEN "draft"
             ELSE IF cancelled(d, c) THEN "cancelled" ELSE f.waivers[d][c]]],
         screens |-> [d \in 1..MaxDecisions |->
             IF d = new /\ r.screen THEN "requested"
             ELSE IF d = r.supersedes /\ f.screens[d] = "requested" THEN "lifted" ELSE f.screens[d]]]

Written(f, r) ==
    CASE r.op = "check"    -> AddCheck(f, r)
      [] r.op = "decision" -> AddDecision(f, r)
      [] r.op = "waiver"   -> [f EXCEPT !.waivers[r.decision][r.client] = r.status]
      [] r.op = "screen"   -> [f EXCEPT !.screens[r.decision] = r.status]

\* Seeded bug: a new check leaves the gate as it is until it is decided.
RefreshesNotOnChecks(r) ==
    \/ r.op = "decision"
    \/ r.op \in {"waiver", "screen"} /\ r.status \in {"signed", "refused", "expired", "active"}

\* Which operations recompute the gate: all that can change it but the lifting
\* of a screen.
Refreshes(r) == r.op \in {"check", "decision"} \/ r.status \in {"signed", "refused", "expired", "active"}

Begin(p, r) ==
    /\ request[p] = Idle
    /\ request' = [request EXCEPT ![p] =
                      [r EXCEPT !.gate = IF Refreshes(r) THEN CombinedGate(Written(file, r)) ELSE "kept"]]
    /\ UNCHANGED <<file, tasks, stage, gate, behind, crossed>>

-----------------------------------------------------------------------------
(* What each handler checks.                                               *)

RunConflictCheck(p) ==
    /\ Len(file.checks) < MaxChecks
    /\ \E outcome \in {"clear", "possible", "definite"} :
          Begin(p, [op |-> "check", outcome |-> outcome, gate |-> "kept"])

\* A first decision on an open check, or a correction of the standing one; a
\* definite result can only be declined, or cleared in writing.
ValidDecision(r) ==
    LET check == file.checks[r.check] IN
    /\ check.outcome # "clear"
    /\ IF r.supersedes = 0 THEN ~check.decided
       ELSE r.supersedes \in Standing(file, r.check) /\ r.supersedes = Latest(file, r.check)
    /\ check.outcome = "definite" => r.kind \in {"declined", "cleared"}
    /\ (r.clients # {}) = (r.kind = "proceed_with_consent")
    /\ r.kind = "proceed_with_screen" => r.screen
    /\ r.kind \in {"cleared", "declined"} => ~r.screen

DecisionTask(r) == IF r.supersedes = 0 THEN {[of |-> "check", check |-> r.check]} ELSE {}

RecordDecision(p) ==
    /\ Len(file.decisions) < MaxDecisions
    /\ \E c \in DOMAIN file.checks, kind \in Kinds, old \in 0..MaxDecisions,
          clients \in SUBSET Clients, screen \in BOOLEAN :
          LET r == [op |-> "decision", check |-> c, kind |-> kind, supersedes |-> old,
                    clients |-> clients, screen |-> screen, gate |-> "kept"]
          IN  ValidDecision(r) /\ Begin(p, r)

WaiverTask(d, c) == [of |-> "waiver", decision |-> d, client |-> c]

\* Approved by the attorney, sent for signature, signed (also on paper),
\* refused, or not signed by the outer limit.
WaiverMoves(from) ==
    CASE from = "draft" -> {"approved"}
      [] from = "approved" -> {"sent", "signed", "refused"}
      [] from = "sent" -> {"signed", "refused", "expired"}
      [] OTHER -> {}

ChangeWaiver(p) ==
    \E d \in DOMAIN file.decisions, c \in Clients :
        \E status \in WaiverMoves(file.waivers[d][c]) :
            Begin(p, [op |-> "waiver", decision |-> d, client |-> c, status |-> status, gate |-> "kept",
                      task |-> tasks \cap {WaiverTask(d, c)}])

\* Activated once the notice is sent, or lifted by the conflicts attorney.
ChangeScreen(p) ==
    \E d \in DOMAIN file.decisions, status \in {"active", "lifted"} :
        /\ file.screens[d] \in (IF status = "active" THEN {"requested"} ELSE {"requested", "active"})
        /\ Begin(p, [op |-> "screen", decision |-> d, status |-> status, gate |-> "kept"])

-----------------------------------------------------------------------------
(* The commit.  Completing a task somebody has closed meanwhile fails the  *)
(* whole transaction, so only one first decision and one answer of a       *)
(* client get through.                                                     *)

TasksAfter(r) ==
    CASE r.op = "check" ->
           tasks \cup (IF r.outcome = "clear" THEN {} ELSE {[of |-> "check", check |-> Len(file.checks) + 1]})
      [] r.op = "decision" -> tasks \ DecisionTask(r)
      [] r.op = "waiver" -> IF r.status = "sent" THEN tasks \cup {WaiverTask(r.decision, r.client)}
                            ELSE IF r.status \in {"signed", "refused", "expired"} THEN tasks \ r.task ELSE tasks
      [] OTHER -> tasks

\* Seeded bug: the decision's task is completed only if it is still open.
CompletesIfOpen(r) == IF r.op = "waiver" /\ r.status \in {"signed", "refused", "expired"} THEN r.task ELSE {}

Completes(r) ==
    CASE r.op = "decision" -> DecisionTask(r)
      [] r.op = "waiver" /\ r.status \in {"signed", "refused", "expired"} -> r.task
      [] OTHER -> {}

\* Only a matter not yet engaged ends as declined.
StageAfter(r) ==
    IF r.op = "decision" /\ r.kind = "declined" /\ stage = "prospective" THEN "declined_conflict" ELSE stage

Fits(r) == /\ r.op = "check" => Len(file.checks) < MaxChecks
           /\ r.op = "decision" => Len(file.decisions) < MaxDecisions

Commit(p) ==
    LET r == request[p] IN
    /\ r # Idle /\ Fits(r)
    /\ Completes(r) \subseteq tasks
    /\ file' = Written(file, r)
    /\ tasks' = TasksAfter(r)
    /\ stage' = StageAfter(r)
    /\ gate' = IF r.gate = "kept" THEN gate ELSE r.gate
    /\ request' = [request EXCEPT ![p] = Idle]
    /\ behind' = {q \in Requests \ {p} : request[q] # Idle}
    /\ crossed' = (p \in behind \/ (crossed /\ ~Refreshes(r)))

Rollback(p) ==
    /\ request[p] # Idle
    /\ request' = [request EXCEPT ![p] = Idle]
    /\ behind' = behind \ {p}
    /\ UNCHANGED <<file, tasks, stage, gate, crossed>>

-----------------------------------------------------------------------------
Next ==
    \E p \in Requests :
        \/ RunConflictCheck(p) \/ RecordDecision(p)
        \/ ChangeWaiver(p) \/ ChangeScreen(p)
        \/ Commit(p) \/ Rollback(p)

Spec == Init /\ [][Next]_vars

-----------------------------------------------------------------------------
(* Properties.                                                             *)

TypeOK ==
    /\ file.checks \in Seq(CheckType) /\ file.decisions \in Seq(DecisionType)
    /\ file.waivers \in [1..MaxDecisions -> [Clients -> WaiverStatuses]]
    /\ file.screens \in [1..MaxDecisions -> ScreenStatuses]
    /\ tasks \subseteq Tasks
    /\ stage \in {"prospective", "engaged", "declined_conflict"}
    /\ gate \in {"open", "closed"}
    /\ behind \subseteq Requests /\ crossed \in BOOLEAN

\* "A subject's gate is open only when EVERY one of its checks is": the stored
\* gate lets nothing through that the checks, the standing decisions, the
\* consents and the screens behind it do not allow.  A transaction whose reads
\* another has overtaken may store an open gate that is not deserved; nothing
\* else does, and the next gate stored by one that saw every commit is right.
OpenGateIsDeserved == ~crossed /\ gate = "open" => CombinedGate(file) = "open"

\* Of two attorneys deciding an open check at the same time one gets through,
\* and a check nobody has decided has its task: what opens the gate is one
\* person's act, and is asked for.
FirstDecisions(c) == {d \in DOMAIN file.decisions : file.decisions[d].check = c /\ file.decisions[d].supersedes = 0}
OneFirstDecision ==
    \A c \in DOMAIN file.checks :
        /\ Cardinality(FirstDecisions(c)) = (IF file.checks[c].decided THEN 1 ELSE 0)
        /\ file.checks[c].outcome # "clear" =>
              (file.checks[c].decided \/ [of |-> "check", check |-> c] \in tasks)
=============================================================================
