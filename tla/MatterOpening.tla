--------------------------- MODULE MatterOpening ---------------------------
(***************************************************************************)
(* A prospect becomes an open matter (src/src/engines/intake/opening): the *)
(* gates (conflict, agreement, fee, first payment), the lawyer's opening   *)
(* and the hand-offs to the other engines, which the worker runs and staff *)
(* retry.  A run of the hand-offs reads their rows without a lock and      *)
(* writes them at its commit; each hand-off has a savepoint of its own.    *)
(*                                                                         *)
(* The approvals of the opening's rules are in force and the firm has an   *)
(* owner to tell.  Minutes between attempts are left out.                  *)
(***************************************************************************)
EXTENDS Naturals

CONSTANTS
    Items,       \* hand-offs of the opening
    Runners,     \* runs of the hand-offs and other requests at a time
    MaxAttempts, \* MAX_HANDOFF_ATTEMPTS
    MaxRetries   \* bound: retries asked for by staff

OpeningAssumption == MaxAttempts \in Nat \ {0} /\ MaxRetries \in Nat

VARIABLES
    conflict, \* the latest result, and whether the parties changed after it
    evidence, \* the live evidence of the other gates
    check,    \* a task to run the conflict check is open
    told,     \* the lawyer was told that a re-check has been requested
    matter,   \* [opened, session]: the opening's row, the intake session
    handoffs, \* the hand-off rows
    timer,    \* a run of the hand-offs is scheduled
    flagged,  \* hand-offs the owners were told about, since the last retry
    retries,  \* retries asked for
    runner    \* what each run or request has read

vars == <<conflict, evidence, check, told, matter, handoffs, timer, flagged, retries, runner>>

Fees == {"none", "retainer", "fixed_fee", "upfront"}
EvidenceType == [agreement : BOOLEAN, fee : Fees, payment : BOOLEAN]
Settled == {"done", "requested", "blocked_pending_approval", "not_applicable"}
HandoffType == [status : Settled \cup {"none", "pending", "failed"},
                attempts : 0..MaxAttempts, task : BOOLEAN]
Idle == [op |-> "none"]

Init ==
    /\ conflict = [state |-> "none", changed |-> FALSE]
    /\ evidence = [agreement |-> FALSE, fee |-> "none", payment |-> FALSE]
    /\ check = FALSE /\ told = FALSE
    /\ matter = [opened |-> FALSE, session |-> "active"]
    /\ handoffs = [i \in Items |-> [status |-> "none", attempts |-> 0, task |-> FALSE]]
    /\ timer = FALSE /\ flagged = {} /\ retries = 0
    /\ runner = [p \in Runners |-> Idle]

gateVars == <<conflict, evidence, check, told>>
setupVars == <<handoffs, timer, flagged>>

Starts(p, r) == runner[p] = Idle /\ runner' = [runner EXCEPT ![p] = r]
Ends(p) == runner' = [runner EXCEPT ![p] = Idle]

-----------------------------------------------------------------------------
(* The gates.                                                              *)

PaymentRequired(fee) == fee \in {"retainer", "upfront"}
ConflictCleared(c) == c.state \in {"clear", "attorney_cleared"}
CanOpen(c, e) ==
    /\ ConflictCleared(c) /\ ~c.changed
    /\ e.agreement /\ e.fee # "none"
    /\ PaymentRequired(e.fee) => e.payment

\* External: the conflict engine's result, a lawyer's clearing of it, a party
\* who joins the matter; after the opening nothing here looks at them.
CheckResult(state) ==
    /\ ~matter.opened
    /\ conflict' = [state |-> state, changed |-> FALSE]
    /\ check' = FALSE /\ told' = FALSE
    /\ UNCHANGED <<evidence, matter, setupVars, retries, runner>>
AttorneyClears ==
    /\ ~matter.opened /\ conflict.state = "possible_pending"
    /\ conflict' = [conflict EXCEPT !.state = "attorney_cleared"]
    /\ UNCHANGED <<evidence, check, told, matter, setupVars, retries, runner>>
PartyAdded ==
    /\ ~matter.opened /\ ~conflict.changed /\ conflict.state # "none"
    /\ conflict' = [conflict EXCEPT !.changed = TRUE]
    /\ UNCHANGED <<evidence, check, told, matter, setupVars, retries, runner>>

\* The newest evidence of a gate replaces the earlier one.
RecordGateEvidence(e) ==
    /\ ~matter.opened
    /\ \/ e = [evidence EXCEPT !.agreement = TRUE]
       \/ e = [evidence EXCEPT !.payment = TRUE]
       \/ e.fee # "none" /\ e = [evidence EXCEPT !.fee = e.fee]
    /\ evidence' = e
    /\ UNCHANGED <<conflict, check, told, matter, setupVars, retries, runner>>

ReadForOpening(p) ==
    /\ ~matter.opened /\ ConflictCleared(conflict)
    /\ CanOpen(conflict, evidence) \/ conflict.changed
    /\ Starts(p, [op |-> "open", may |-> CanOpen(conflict, evidence), fee |-> evidence.fee,
                  recheck |-> ConflictCleared(conflict) /\ conflict.changed])
    /\ UNCHANGED <<gateVars, matter, setupVars, retries>>

InitialStatus(item, fee) ==
    IF item = "trust_ledger" /\ fee # "retainer" THEN "not_applicable" ELSE "pending"

\* The opening's row is unique: a second opening of the matter fails.
OpenMatter(p) ==
    /\ runner[p].op = "open" /\ runner[p].may /\ ~matter.opened
    /\ matter' = [opened |-> TRUE, session |-> "retained"]
    /\ handoffs' = [i \in Items |-> [status |-> InitialStatus(i, runner[p].fee),
                                     attempts |-> 0, task |-> FALSE]]
    /\ timer' = TRUE
    /\ Ends(p)
    /\ UNCHANGED <<gateVars, flagged, retries>>

\* The request for a re-check is written, and undone with the rest of the
\* transaction when openMatter then throws.
RecheckRefusal(p) ==
    /\ runner[p].op = "open" /\ runner[p].recheck
    /\ told' = (~check /\ conflict.changed)
    /\ Ends(p)
    /\ UNCHANGED <<conflict, evidence, check, matter, setupVars, retries>>

RequestFails(p) ==
    /\ runner[p] # Idle
    /\ timer' = (timer \/ runner[p].op = "tick")
    /\ Ends(p)
    /\ UNCHANGED <<gateVars, matter, handoffs, flagged, retries>>

-----------------------------------------------------------------------------
(* The hand-offs.                                                          *)

ShouldRun(h) == h.status \in {"pending", "failed"} /\ h.attempts < MaxAttempts
Due(rows) == {i \in Items : ShouldRun(rows[i])}
\* A retry locks the row it resets.
LockedRows == {runner[q].item : q \in {r \in Runners : runner[r].op = "retry"}}

\* The tick takes the timer it works off: it is back if the run fails.
TakeTimer(p) ==
    /\ timer /\ timer' = FALSE
    /\ Starts(p, [op |-> "tick", rows |-> handoffs])
    /\ UNCHANGED <<gateVars, matter, handoffs, flagged, retries>>

\* Seeded bug: a retry does not start counting anew.
ResetRowKeepsAttempts(h) == [h EXCEPT !.status = "pending"]

ResetRow(h) == [h EXCEPT !.status = "pending", !.attempts = 0]

RetryHandoff(p, i) ==
    /\ handoffs[i].status \in {"failed", "blocked_pending_approval"}
    /\ i \notin LockedRows /\ retries < MaxRetries
    /\ Starts(p, [op |-> "retry", item |-> i, rows |-> [handoffs EXCEPT ![i] = ResetRow(@)]])
    /\ retries' = retries + 1
    /\ UNCHANGED <<gateVars, matter, setupVars>>

\* What a hand-off can come to: a row with a task already is not run again.
Outcomes(i, h) ==
    IF h.task THEN {"requested"}
    ELSE IF i = "trust_ledger"
    THEN {IF evidence.fee = "retainer" THEN "requested" ELSE "not_applicable",
          "blocked_pending_approval", "failed"}
    ELSE {"done", "requested", "failed"}

RowAfter(h, outcome) ==
    [status |-> outcome, attempts |-> h.attempts + 1, task |-> h.task \/ outcome = "requested"]

\* The rows read are written back, whatever they have become.
ProcessHandoffs(p) ==
    /\ runner[p].op \in {"tick", "retry"}
    /\ LET rows == runner[p].rows
           due == Due(rows)
       IN /\ runner[p].op = "tick" => due \cap LockedRows = {}
          /\ \E outcome \in [due -> Settled \cup {"failed"}] :
                /\ \A i \in due : outcome[i] \in Outcomes(i, rows[i])
                /\ handoffs' = [i \in Items |-> IF i \in due THEN RowAfter(rows[i], outcome[i]) ELSE handoffs[i]]
                /\ LET failed == {i \in due : outcome[i] = "failed"} IN
                   /\ timer' = (timer \/ \E i \in failed : rows[i].attempts + 1 < MaxAttempts)
                   /\ flagged' = (IF runner[p].op = "retry" THEN flagged \ {runner[p].item} ELSE flagged)
                                    \cup {i \in failed : rows[i].attempts + 1 >= MaxAttempts}
    /\ Ends(p)
    /\ UNCHANGED <<gateVars, matter, retries>>

-----------------------------------------------------------------------------
Next ==
    \/ \E state \in {"clear", "possible_pending", "declined"} : CheckResult(state)
    \/ AttorneyClears \/ PartyAdded
    \/ \E e \in EvidenceType : RecordGateEvidence(e)
    \/ \E p \in Runners :
          \/ ReadForOpening(p) \/ OpenMatter(p) \/ RecheckRefusal(p)
          \/ TakeTimer(p) \/ \E i \in Items : RetryHandoff(p, i)
          \/ ProcessHandoffs(p) \/ RequestFails(p)

Spec == Init /\ [][Next]_vars

\* The tick comes every minute; a run that fails is repeated, and does not
\* fail for ever.
Fairness ==
    /\ WF_vars(\E p \in Runners : TakeTimer(p))
    /\ \A p \in Runners : WF_vars(ProcessHandoffs(p))
    /\ <>[][\A p \in Runners : ~RequestFails(p)]_vars
FairSpec == Spec /\ Fairness

-----------------------------------------------------------------------------
(* Properties.                                                             *)

TypeOK ==
    /\ evidence \in EvidenceType
    /\ handoffs \in [Items -> HandoffType]
    /\ flagged \subseteq Items
    /\ \A p \in Runners : runner[p].op \in {"none", "open", "tick", "retry"}

\* Every hand-off of an opened matter is done, asked for, waiting for an
\* approval, or the owners are told that it keeps failing: also when a retry
\* and the tick run it at the same time from rows read before the other's.
SetupSettles ==
    \A i \in Items :
        handoffs[i].status \in {"pending", "failed"}
            ~> (handoffs[i].status \in Settled \/ i \in flagged)

\* openMatter's refusal says "A re-check has been requested; the matter can
\* open once it is clear": somebody who is told so finds the request.
RecheckIsAskedFor == told => check
=============================================================================
