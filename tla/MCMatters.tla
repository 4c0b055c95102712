----------------------------- MODULE MCMatters -----------------------------
(***************************************************************************)
(* What happens to an inquiry until it is a matter: the conversation, the  *)
(* firm's acceptance rules, what a conflict check finds, the conflict gate *)
(* (with two requests at a time, and with one and a longer history), and   *)
(* the assignment of a lawyer.  A behaviour is one component's, chosen in  *)
(* the initial state: they share no state in these models.                 *)
(***************************************************************************)
EXTENDS ConflictGate, TLC

CONSTANTS
    MaxEvaluations,                            \* of CaseAcceptance
    Callers, Answers, MaxSessions, MaxNames,   \* of IntakeConversation
    Lawyers, Nobody, MaxRows,                  \* of Assignment
    Candidates, Weights, WorkloadMix, OtherMix, Preferred, MinGap, WeeklyCap,
    Never, MaxHours,                           \* of AssignmentScoring
    MoreChecks, FewDecisions                   \* bounds of the gate of several checks

\* The weights the firm starts with (DEFAULT_ASSIGNMENT_SETTINGS).
FirmWeights == [cadence |-> 30, workload |-> 50, other |-> 20]
FirmWorkloadMix == [open |-> 4, tasks |-> 2, overdue |-> 2, deadlines |-> 2]
FirmOtherMix == [continuity |-> 2, seniority |-> 1, priority |-> 1]

VARIABLES
    focus, \* the component this behaviour is about
    sessions, caller,
    evaluations, reviews, inquiry, notices, deciding,
    assigned, rows, screened, cleared, flagged, assigning,
    candidates,
    indexed, merges, facts, keyed, linked, applied

talkVars == <<sessions, caller>>
fitVars == <<evaluations, reviews, inquiry, notices, deciding>>
assignVars == <<assigned, rows, screened, cleared, flagged, assigning>>
searchVars == <<indexed, merges, facts, keyed, linked, applied>>

GATES == INSTANCE ConflictGate WITH MaxChecks <- MoreChecks, MaxDecisions <- FewDecisions
TALK == INSTANCE IntakeConversation
FIT == INSTANCE CaseAcceptance
ASSIGN == INSTANCE Assignment WITH request <- assigning
SCORE == INSTANCE AssignmentScoring WITH Lawyers <- Candidates

\* Records that share a name, part of one, a nickname or an email address with
\* those searched for, of clients, adverse parties and people who inquired.
Inv(kind, here, role, status) ==
    [kind |-> kind, here |-> here, role |-> role, adverse |-> role = "opposing_party", status |-> status]
Known(names, email, phone, birth, involved) ==
    [names |-> names, email |-> email, phone |-> phone, address |-> FALSE, birth |-> birth,
     involved |-> involved]
KnownFacts ==
    {Known({<<"bob", "smith">>}, "none", "further", "other", {Inv("matter", FALSE, "client", "current")}),
     Known({<<"robert">>}, "capitals", "none", "unknown",
           {Inv("matter", TRUE, "opposing_party", "current"), Inv("matter", FALSE, "client", "former")}),
     Known({<<"robert", "smyth">>, <<"bob", "lee", "smith">>}, "listed", "none", "same",
           {Inv("inquiry", FALSE, "prospective_client", "prospective")})}
SomeSearches ==
    {[name |-> <<"robert", "smith">>, role |-> "caller", sought |-> "mediation"],
     [name |-> <<"bob">>, role |-> "client", sought |-> "other"],
     [name |-> <<"smith", "bob">>, role |-> "opposing_party", sought |-> "representation"],
     [name |-> <<"b", "smit">>, role |-> "related", sought |-> "representation"]}
SEARCH == INSTANCE ConflictSearch WITH Parties <- {1, 2, 3}, MaxMerges <- 2, Hops <- 3,
              Nicknames <- {{"bob", "robert"}}, Sounds <- {{"smith", "smyth"}},
              Initials <- {{"b", "bob"}}, Misspelt <- {{"smith", "smit"}}, Letters <- {"b"},
              Fragments <- {<<"smith", "smit">>, <<"smit", "smith">>},
              Facts <- KnownFacts, Searches <- SomeSearches,
              Affiliates <- {<<2, 3>>}, LinkDepth <- 1, LoadLimit <- 2

ASSUME MatterAssumption ==
    /\ MaxNames \in Nat /\ MoreChecks \in Nat /\ FewDecisions \in Nat
    /\ ASSIGN!AssignmentAssumption /\ SCORE!ScoringAssumption
    /\ SEARCH!SearchAssumption

MatterInit ==
    /\ focus \in {"gate of checks", "gate", "conversation", "fit", "assignment", "scoring", "search"}
    /\ TALK!Init /\ FIT!Init /\ ASSIGN!Init /\ SEARCH!Init
    /\ focus # "search" => ~applied
    /\ focus # "assignment" => cleared
    /\ IF focus = "scoring" THEN SCORE!Init ELSE candidates = <<>>
    /\ IF focus = "gate of checks" THEN GATES!Init ELSE Init
    /\ focus # "gate of checks" /\ focus # "gate" => stage = "engaged"

MatterNext ==
    \/ /\ focus = "gate of checks" /\ GATES!Next
       /\ UNCHANGED <<focus, talkVars, fitVars, assignVars, candidates, searchVars>>
    \/ /\ focus = "gate" /\ Next
       /\ UNCHANGED <<focus, talkVars, fitVars, assignVars, candidates, searchVars>>
    \/ /\ focus = "conversation" /\ TALK!Next
       /\ UNCHANGED <<focus, vars, fitVars, assignVars, candidates, searchVars>>
    \/ /\ focus = "fit" /\ FIT!Next
       /\ UNCHANGED <<focus, vars, talkVars, assignVars, candidates, searchVars>>
    \/ /\ focus = "assignment" /\ ASSIGN!Next
       /\ UNCHANGED <<focus, vars, talkVars, fitVars, candidates, searchVars>>
    \/ /\ focus = "scoring" /\ SCORE!Next
       /\ UNCHANGED <<focus, vars, talkVars, fitVars, assignVars, searchVars>>
    \/ /\ focus = "search" /\ SEARCH!Next
       /\ UNCHANGED <<focus, vars, talkVars, fitVars, assignVars, candidates>>

matterVars == <<focus, vars, talkVars, fitVars, assignVars, candidates, searchVars>>
MatterSpec == MatterInit /\ [][MatterNext]_matterVars

\* Requests are interchangeable, and so are the callers and the lawyers.
Symmetry == Permutations(Requests) \cup Permutations(Lawyers)

-----------------------------------------------------------------------------
(* The properties of the components, under the names the .cfg lists, beside *)
(* OneFirstDecision of the gate.                                           *)

\* The stored gate lets nothing through that its checks do not allow, but
\* where two transactions crossed, until the next that crosses nothing.
GateIsDeserved ==
    IF focus = "gate of checks" THEN GATES!OpenGateIsDeserved ELSE OpenGateIsDeserved
\* No case detail is taken before the conflict check allowed it.
DetailsComeAfterTheCheck == TALK!DetailsComeAfterTheCheck
\* What the rules cannot settle is before a lawyer until a decision is recorded.
BorderlineIsReviewed == FIT!BorderlineIsReviewed
\* However runs, overrides and screens overlap, a matter does not lose its
\* lawyer unnoticed.
AssigneeIsOfRecord == ASSIGN!AssigneeIsOfRecord
\* No lawyer as good as the winner in everything and better in something is
\* passed over, and no record of the person a conflict check is for.
NobodyBetterIsPassedOver ==
    /\ focus = "scoring" => SCORE!NobodyBetterIsPassedOver /\ SCORE!PassedOverOnATieOnly
    /\ focus = "search" => SEARCH!NothingKnownIsMissed
=============================================================================
