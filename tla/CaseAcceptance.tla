--------------------------- MODULE CaseAcceptance ---------------------------
(***************************************************************************)
(* The firm's case-acceptance rules on one inquiry                         *)
(* (src/src/engines/intake/acceptance): an evaluation accepts, declines on *)
(* its own where every guard allows it, or asks a lawyer; lawyers decide   *)
(* borderline evaluations.  A request reads at first and writes at its     *)
(* commit.  The write is by id alone: of two lawyers who both found an     *)
(* evaluation undecided, the later one's decision replaces the earlier     *)
(* one's, and finds no review task left to close.                          *)
(*                                                                         *)
(* A rule is reduced to what decideFit looks at: the kind of a rule that   *)
(* failed, whether it may decline, and whether any was unknown.            *)
(***************************************************************************)
EXTENDS Naturals, Sequences

CONSTANTS
    Requests,       \* requests under way at a time
    MaxEvaluations  \* bound: evaluations of the inquiry

VARIABLES
    evaluations, \* the intake_fit_evaluations rows: see EvaluationType
    reviews,     \* evaluations with an open review task
    inquiry,     \* [emergency, conflict, closed, stage, fit]
    notices,     \* decline notices queued
    deciding     \* what each request has read

vars == <<evaluations, reviews, inquiry, notices, deciding>>

RuleKinds == {"practice_area", "county", "language", "criteria", "capacity"}
EvaluationType ==
    [outcome : {"fit", "borderline", "no_fit"},
     decision : {"none", "accept", "decline", "more_info"}]
Idle == [op |-> "none"]

Init ==
    /\ evaluations = <<>> /\ reviews = {} /\ notices = 0
    /\ inquiry = [emergency |-> FALSE, conflict |-> FALSE, closed |-> FALSE,
                  stage |-> "intake", fit |-> "none"]
    /\ deciding = [p \in Requests |-> Idle]

-----------------------------------------------------------------------------
(* The rules.                                                              *)

\* A shortage of lawyers never declines; a rule may where the firm marked it.
MayDecline(fail) == fail.auto /\ fail.kind # "capacity"

\* fails: the rules that failed, as [kind, auto]; sure: the classifier's
\* confidence and the firm's and the founder's consent to declining on its own.
DecideFit(fails, unknown, sure, guards) ==
    IF fails = {} /\ ~unknown THEN "fit"
    ELSE IF /\ \E f \in fails : MayDecline(f)
            /\ sure /\ ~guards.emergency /\ ~guards.conflict
            /\ \A f \in fails : f.kind # "capacity"
    THEN "no_fit" ELSE "borderline"

\* The results that tell the cases of decideFit apart.
Results ==
    [fails : {{}, {[kind |-> "county", auto |-> TRUE]}, {[kind |-> "language", auto |-> FALSE]},
              {[kind |-> "county", auto |-> TRUE], [kind |-> "capacity", auto |-> FALSE]}},
     unknown : BOOLEAN, sure : BOOLEAN]

-----------------------------------------------------------------------------
Starts(p, r) ==
    /\ deciding[p] = Idle
    /\ deciding' = [deciding EXCEPT ![p] = r]
    /\ UNCHANGED <<evaluations, reviews, inquiry, notices>>
Ends(p) == deciding' = [deciding EXCEPT ![p] = Idle]

\* The notice is queued once per inquiry: its dedupe key is the inquiry's.
\* A lawyer's decline leaves the outcome of the evaluation as it was.
Declined(fit) ==
    inquiry' = [inquiry EXCEPT !.closed = TRUE, !.stage = "did_not_hire", !.fit = fit]
NoticeSent == notices' = 1

ReadForFit(p) ==
    /\ ~inquiry.closed
    /\ \E r \in Results :
          Starts(p, [op |-> "evaluate", outcome |-> DecideFit(r.fails, r.unknown, r.sure, inquiry)])

EvaluateFit(p) ==
    /\ deciding[p].op = "evaluate" /\ Len(evaluations) < MaxEvaluations
    /\ LET outcome == deciding[p].outcome IN
       /\ evaluations' = Append(evaluations, [outcome |-> outcome, decision |-> "none"])
       /\ reviews' = IF outcome = "borderline" THEN reviews \cup {Len(evaluations) + 1} ELSE reviews
       /\ IF outcome = "no_fit" THEN Declined(outcome) /\ NoticeSent
          ELSE inquiry' = [inquiry EXCEPT !.fit = outcome] /\ UNCHANGED notices
    /\ Ends(p)

\* Undecided, or sent back for more information; a decline waits for an
\* emergency, but neither asks whether the inquiry is closed by now.
ReadForDecision(p, e, decision) ==
    /\ evaluations[e].outcome = "borderline"
    /\ evaluations[e].decision \in {"none", "more_info"}
    /\ decision = "decline" => ~inquiry.emergency
    /\ Starts(p, [op |-> "decide", evaluation |-> e, decision |-> decision])

\* Seeded bug: deciding closes the open review tasks of the inquiry.
ClosesAll(e) == reviews

\* The review tasks a decision on evaluation e closes: its own, if it is open.
Closes(e) == {e} \cap reviews

\* Whether the evaluation was decided meanwhile is not asked again.
DecideBorderline(p) ==
    LET e == deciding[p].evaluation IN
    /\ deciding[p].op = "decide"
    /\ evaluations' = [evaluations EXCEPT ![e].decision = deciding[p].decision]
    /\ reviews' = reviews \ Closes(e)
    /\ CASE deciding[p].decision = "decline" -> Declined(inquiry.fit) /\ NoticeSent
         [] deciding[p].decision = "accept" ->
               inquiry' = [inquiry EXCEPT !.fit = "fit"] /\ UNCHANGED notices
         [] OTHER -> UNCHANGED <<inquiry, notices>>
    /\ Ends(p)

RequestFails(p) ==
    /\ deciding[p] # Idle
    /\ Ends(p)
    /\ UNCHANGED <<evaluations, reviews, inquiry, notices>>

\* Elsewhere: an emergency comes and is handled, a possible conflict is found
\* and decided, the matter is opened.
Elsewhere ==
    /\ \/ inquiry' = [inquiry EXCEPT !.emergency = ~@]
       \/ inquiry' = [inquiry EXCEPT !.conflict = ~@]
       \/ ~inquiry.closed /\ inquiry' = [inquiry EXCEPT !.closed = TRUE, !.stage = "retained"]
    /\ UNCHANGED <<evaluations, reviews, notices, deciding>>

-----------------------------------------------------------------------------
Next ==
    \/ \E p \in Requests :
          \/ ReadForFit(p) \/ EvaluateFit(p)
          \/ \E e \in DOMAIN evaluations, decision \in {"accept", "decline", "more_info"} :
                ReadForDecision(p, e, decision)
          \/ DecideBorderline(p) \/ RequestFails(p)
    \/ Elsewhere

Spec == Init /\ [][Next]_vars

-----------------------------------------------------------------------------
(* Properties.                                                             *)

TypeOK ==
    /\ evaluations \in Seq(EvaluationType)
    /\ reviews \subseteq DOMAIN evaluations
    /\ notices \in {0, 1}

\* c73: what the rules cannot settle is before a lawyer until a lawyer's
\* decision on it is recorded, and no longer: neither a decision on another
\* evaluation of the inquiry takes it off the list, nor does one of two
\* decisions on it, the later replacing the earlier, leave it there.
BorderlineIsReviewed ==
    \A e \in DOMAIN evaluations :
        (evaluations[e].outcome = "borderline" /\ evaluations[e].decision = "none") <=> e \in reviews
=============================================================================
