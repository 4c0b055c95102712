-------------------------- MODULE AssignmentScoring --------------------------
(***************************************************************************)
(* Which lawyer an automatic assignment picks                              *)
(* (src/src/engines/intake/assignment/scoring.ts): the eligible, each of   *)
(* three factors normalised over them and weighted, and the tie-breaks.    *)
(* Successive matters of one kind are assigned as time passes.             *)
(*                                                                         *)
(* Numbers of two decimals are kept in hundredths.  The share of a factor  *)
(* in a mix is kept without its divisor, which is the same for everybody.  *)
(***************************************************************************)
EXTENDS Integers, FiniteSets, FiniteSetsExt

CONSTANTS
    Lawyers,       \* as numbers: the last tie-break is the id
    Weights,       \* [cadence, workload, other], summing to 100
    WorkloadMix,   \* [open, tasks, overdue, deadlines]
    OtherMix,      \* [continuity, seniority, priority]
    Preferred,     \* the seniority the matter's type asks for
    MinGap,        \* business hours between two assignments of a lawyer
    WeeklyCap,
    Never,         \* hours that beat any real value: 1 000 000 in the code
    MaxHours       \* bound: hours counted since an assignment

VARIABLE candidates \* what is known of each lawyer

ScoringAssumption ==
    /\ Lawyers \subseteq Nat /\ IsFiniteSet(Lawyers)
    /\ Weights \in [cadence : Nat, workload : Nat, other : Nat]
    /\ WorkloadMix \in [open : Nat, tasks : Nat, overdue : Nat, deadlines : Nat]
    /\ OtherMix \in [continuity : Nat, seniority : Nat, priority : Nat]
    /\ Preferred \in 1..5 /\ MinGap \in Nat /\ WeeklyCap \in Nat
    /\ MaxHours \in Nat /\ Never \in Nat /\ MaxHours < Never

Candidate ==
    [excluded : SUBSET {"screened", "out_of_office"}, hours : 0..MaxHours \cup {Never},
     open : Nat, tasks : Nat, overdue : Nat, deadlines : Nat,
     continuity : BOOLEAN, seniority : 1..5, priority : 0..100, week : 0..WeeklyCap]

-----------------------------------------------------------------------------
EligibilityCodes(c) ==
    c.excluded
      \cup (IF c.week >= WeeklyCap THEN {"over_weekly_cap"} ELSE {})
      \cup (IF c.hours # Never /\ c.hours < MinGap THEN {"min_gap"} ELSE {})
Eligible == {l \in Lawyers : EligibilityCodes(candidates[l]) = {}}

\* To the nearest, a half upwards.
Rounded(a, b) == (2 * a + b) \div (2 * b)

\* v[l] on a scale of 0 to 100 over the eligible; all equal: 100 for everyone.
Normalize(v, higherIsBetter) ==
    LET low == Min({v[l] : l \in Eligible})
        high == Max({v[l] : l \in Eligible})
    IN  [l \in Eligible |->
           IF high = low THEN 10000
           ELSE IF higherIsBetter THEN Rounded((v[l] - low) * 10000, high - low)
           ELSE Rounded((high - v[l]) * 10000, high - low)]

Cadence == Normalize([l \in Eligible |-> candidates[l].hours], TRUE)

\* Seeded bug: the composite of loads is taken for a load.
WorkloadReversed ==
    LET open == Normalize([l \in Eligible |-> candidates[l].open], FALSE)
        tasks == Normalize([l \in Eligible |-> candidates[l].tasks], FALSE)
        overdue == Normalize([l \in Eligible |-> candidates[l].overdue], FALSE)
        deadlines == Normalize([l \in Eligible |-> candidates[l].deadlines], FALSE)
    IN  Normalize([l \in Eligible |->
                      open[l] * WorkloadMix.open + tasks[l] * WorkloadMix.tasks
                        + overdue[l] * WorkloadMix.overdue
                        + deadlines[l] * WorkloadMix.deadlines], FALSE)

Workload ==
    LET open == Normalize([l \in Eligible |-> candidates[l].open], FALSE)
        tasks == Normalize([l \in Eligible |-> candidates[l].tasks], FALSE)
        overdue == Normalize([l \in Eligible |-> candidates[l].overdue], FALSE)
        deadlines == Normalize([l \in Eligible |-> candidates[l].deadlines], FALSE)
    IN  Normalize([l \in Eligible |->
                      open[l] * WorkloadMix.open + tasks[l] * WorkloadMix.tasks
                        + overdue[l] * WorkloadMix.overdue
                        + deadlines[l] * WorkloadMix.deadlines], TRUE)

Off(n) == IF n > Preferred THEN n - Preferred ELSE Preferred - n
Other ==
    Normalize([l \in Eligible |->
                  LET c == candidates[l] IN
                  (IF c.continuity THEN 100 ELSE 0) * OtherMix.continuity
                    + (100 - 25 * Off(c.seniority)) * OtherMix.seniority
                    + c.priority * OtherMix.priority], TRUE)

Totals ==
    LET cadence == Cadence  workload == Workload  other == Other
    IN  [l \in Eligible |-> Rounded(cadence[l] * Weights.cadence, 100)
                              + Rounded(workload[l] * Weights.workload, 100)
                              + Rounded(other[l] * Weights.other, 100)]

\* By total, then the longest since an assignment, fewer open matters, the id.
Before(totals, k, l) ==
    LET c == candidates[k]  d == candidates[l] IN
    \/ totals[k] > totals[l]
    \/ /\ totals[k] = totals[l]
       /\ \/ c.hours > d.hours
          \/ c.hours = d.hours /\ c.open < d.open
          \/ c.hours = d.hours /\ c.open = d.open /\ k < l
Winner ==
    LET totals == Totals
    IN  CHOOSE l \in Eligible : \A k \in Eligible \ {l} : Before(totals, l, k)

-----------------------------------------------------------------------------
\* Nobody has a matter yet; their work and their past with the client differ.
Starting(tasks, overdue, deadlines, senior, client) ==
    [l \in Lawyers |->
        [excluded |-> {}, hours |-> Never, open |-> 0, week |-> 0,
         tasks |-> tasks[l], overdue |-> overdue[l], deadlines |-> deadlines[l],
         continuity |-> l \in client, priority |-> 0,
         seniority |-> IF l \in senior THEN 5 ELSE Preferred]]

Init ==
    \E tasks, overdue, deadlines \in [Lawyers -> 0..1], senior, client \in SUBSET Lawyers :
        /\ Cardinality(client) <= 1
        /\ \A l \in Lawyers : overdue[l] <= tasks[l]
        /\ candidates = Starting(tasks, overdue, deadlines, senior, client)

\* The matter is the winner's from then on.
AssignWinner ==
    /\ Eligible # {}
    /\ LET w == Winner IN
       candidates' = [candidates EXCEPT ![w].hours = 0, ![w].open = @ + 1, ![w].week = @ + 1]

HourPasses ==
    /\ \E l \in Lawyers : candidates[l].hours < MaxHours
    /\ candidates' = [l \in Lawyers |->
          [candidates[l] EXCEPT !.hours = IF @ < MaxHours THEN @ + 1 ELSE @]]

Next == AssignWinner \/ HourPasses
Spec == Init /\ [][Next]_candidates

-----------------------------------------------------------------------------
(* Properties.                                                             *)

TypeOK == candidates \in [Lawyers -> Candidate]

AtLeastAsGood(c, d) ==
    /\ c.hours >= d.hours /\ c.open <= d.open /\ c.tasks <= d.tasks
    /\ c.overdue <= d.overdue /\ c.deadlines <= d.deadlines
    /\ d.continuity => c.continuity
    /\ Off(c.seniority) <= Off(d.seniority) /\ c.priority >= d.priority

\* However the factors of some stretch the scale of the others, a lawyer who is
\* as good as the winner in everything and better in something is not passed
\* over for her.
NobodyBetterIsPassedOver ==
    Eligible # {} =>
        LET w == candidates[Winner] IN
        \A l \in Eligible :
            AtLeastAsGood(candidates[l], w) => AtLeastAsGood(w, candidates[l])

\* Scores are rounded, so a lawyer who is better in something may still tie with
\* the winner.  That is the only way to be passed over: the totals are equal,
\* both had their last matter at the same time and have as many, and the id decides.
PassedOverOnATieOnly ==
    Eligible # {} =>
        LET w == Winner  totals == Totals IN
        \A l \in Eligible \ {w} :
            AtLeastAsGood(candidates[l], candidates[w]) =>
                /\ totals[l] = totals[w] /\ w < l
                /\ candidates[l].hours = candidates[w].hours
                /\ candidates[l].open = candidates[w].open
=============================================================================
