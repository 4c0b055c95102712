----------------------------- MODULE Assignment -----------------------------
(***************************************************************************)
(* The lawyer of one matter (src/src/engines/intake/assignment/service.ts):*)
(* automatic runs, a supervisor's override, and screens that take a lawyer *)
(* off.  A transaction reads the matter, the screens and the candidates,   *)
(* ends the assignments it sees in one UPDATE, and inserts its own; it     *)
(* takes no lock before that UPDATE.                                       *)
(*                                                                         *)
(* Whom a run picks among the eligible is AssignmentScoring's matter.      *)
(***************************************************************************)
EXTENDS Naturals, Sequences

CONSTANTS
    Lawyers,
    Requests, \* transactions under way at a time
    Nobody,   \* a null assignee
    MaxRows   \* bound: assignments of the matter

AssignmentAssumption == Nobody \notin Lawyers

VARIABLES
    assigned, \* matters.assigned_user_id
    rows,     \* the intake_matter_assignments rows of the matter
    screened, \* lawyers with a block on the matter in force
    cleared,  \* the conflict result is clear or cleared by an attorney
    flagged,  \* the owners were told that the matter has no lawyer
    request   \* what each transaction has read

vars == <<assigned, rows, screened, cleared, flagged, request>>

RowType == [who : Lawyers \cup {Nobody}, method : {"auto", "override", "unassigned"}, ended : BOOLEAN]
Idle == [op |-> "none"]
Live == {i \in DOMAIN rows : ~rows[i].ended}

Init ==
    /\ assigned = Nobody /\ rows = <<>>
    /\ screened = {} /\ cleared \in BOOLEAN /\ flagged = FALSE
    /\ request = [p \in Requests |-> Idle]

-----------------------------------------------------------------------------
Goes(p, r) == request' = [request EXCEPT ![p] = r]
Ends(p) == Goes(p, Idle)
records == <<assigned, rows, screened, cleared, flagged>>

\* Out of office, over capacity, no such practice area: a lawyer left out this
\* once.  A screened one is always left out.
Eligible(away) == Lawyers \ (screened \cup away)

\* Nothing is done for a matter that has a lawyer or no clear conflict result (no
\* caller of runAutoAssignment sets its force, which skips the first).
ReadForRun(p) ==
    /\ request[p] = Idle /\ assigned = Nobody /\ cleared
    /\ \E away \in SUBSET Lawyers :
          \E winner \in IF Eligible(away) = {} THEN {Nobody} ELSE Eligible(away) :
             Goes(p, [op |-> "read", who |-> winner,
                      method |-> IF winner = Nobody THEN "unassigned" ELSE "auto"])
    /\ UNCHANGED records

\* A supervisor may choose somebody left out, never somebody screened.
ReadForOverride(p, l) ==
    /\ request[p] = Idle /\ l \in Eligible({})
    /\ Goes(p, [op |-> "read", who |-> l, method |-> "override"])
    /\ UNCHANGED records

\* endCurrentAssignment's UPDATE: it ends what was committed when it began, and
\* waits for the others that are ending it.
EndCurrentAssignment(p) ==
    /\ request[p].op = "read" /\ Len(rows) < MaxRows
    /\ Goes(p, [op |-> "ending", who |-> request[p].who, method |-> request[p].method, sees |-> Live])
    /\ UNCHANGED records

\* Seeded bug: the new assignment is inserted before the current ones are ended.
RowsAfterEarly(r) ==
    [i \in 1..(Len(rows) + 1) |->
        IF i <= Len(rows) THEN [rows[i] EXCEPT !.ended = @ \/ i \in r.sees]
        ELSE [who |-> r.who, method |-> r.method, ended |-> TRUE]]

RowsAfter(r) ==
    Append([i \in DOMAIN rows |-> [rows[i] EXCEPT !.ended = @ \/ i \in r.sees]],
           [who |-> r.who, method |-> r.method, ended |-> FALSE])

Assign(p) ==
    /\ request[p].op = "ending"
    /\ rows' = RowsAfter(request[p])
    /\ IF request[p].who = Nobody
       THEN flagged' = TRUE /\ UNCHANGED assigned
       ELSE assigned' = request[p].who /\ UNCHANGED flagged
    /\ Ends(p)
    /\ UNCHANGED <<screened, cleared>>

ReadForBlock(p, l) ==
    /\ request[p] = Idle /\ l \notin screened
    /\ Goes(p, [op |-> "block", who |-> l, his |-> assigned = l])
    /\ UNCHANGED records

\* The matter goes back to the queue; its row is locked first, so that the
\* assignments ended are all there are.
ReturnToQueue ==
    /\ assigned' = Nobody
    /\ rows' = [i \in DOMAIN rows |-> [rows[i] EXCEPT !.ended = TRUE]]
    /\ flagged' = TRUE

RecordAssignmentBlock(p) ==
    /\ request[p].op = "block"
    /\ screened' = screened \cup {request[p].who}
    /\ IF request[p].his THEN ReturnToQueue ELSE UNCHANGED <<assigned, rows, flagged>>
    /\ Ends(p)
    /\ UNCHANGED cleared

RequestFails(p) ==
    /\ request[p] # Idle
    /\ Ends(p)
    /\ UNCHANGED records

\* Elsewhere: the conflict check's result changes.
ConflictResult ==
    /\ cleared' = ~cleared
    /\ UNCHANGED <<assigned, rows, screened, flagged, request>>

-----------------------------------------------------------------------------
Next ==
    \/ \E p \in Requests :
          \/ ReadForRun(p) \/ EndCurrentAssignment(p) \/ Assign(p)
          \/ \E l \in Lawyers : ReadForOverride(p, l) \/ ReadForBlock(p, l)
          \/ RecordAssignmentBlock(p) \/ RequestFails(p)
    \/ ConflictResult

Spec == Init /\ [][Next]_vars

-----------------------------------------------------------------------------
(* Properties.                                                             *)

TypeOK ==
    /\ assigned \in Lawyers \cup {Nobody}
    /\ rows \in Seq(RowType)
    /\ screened \subseteq Lawyers

\* c48: a matter does not lose its lawyer unnoticed.  However runs, overrides
\* and screens overlap, the lawyer's assignment is in force, or a run that found
\* nobody took its place in the owners' queue; a matter left without a lawyer
\* was put before the owners.
AssigneeIsOfRecord ==
    /\ assigned # Nobody => \E i \in Live : rows[i].who \in {assigned, Nobody}
    /\ assigned = Nobody /\ rows # <<>> => flagged
=============================================================================
