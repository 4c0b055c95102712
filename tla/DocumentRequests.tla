-------------------------- MODULE DocumentRequests --------------------------
(***************************************************************************)
(* The documents a matter still needs and the question whether a file has  *)
(* gone out to the client                                                  *)
(* (src/src/engines/document/checklist/service.ts, delivery/service.ts).   *)
(*                                                                         *)
(* Every handler loads its row without a lock, checks what it loaded and   *)
(* writes later in the same transaction; the update takes the row's lock,  *)
(* so what follows it (finding the open task) sees the writes of everybody *)
(* who held the lock before.  A call below is therefore two steps, a read  *)
(* and a commit.  The task behind a request to the client is also closed   *)
(* by the lawyer who ends the chase of it                                  *)
(* (calendar-alerts/ladder/service.ts), which leaves the item as it is.    *)
(***************************************************************************)
EXTENDS Naturals, Sequences

CONSTANTS
    Staff,   \* the people (and the client's upload) whose calls may overlap
    MaxRows, \* bound: checklist rows ever written for the one template item
    MaxAsks  \* bound: open tasks of one row or one file

DocumentRequestsAssumption == MaxRows \in Nat \ {0} /\ MaxAsks \in Nat \ {0}

VARIABLES
    rows,      \* document_checklist_items of one matter and one template item, oldest first
    delivery,  \* the file's delivery status
    questions, \* its delivery questions: "open" or "done", oldest first
    call       \* per member of staff, the handler that has read and not committed

vars == <<rows, delivery, questions, call>>

Idle == [op |-> "none"]

\* clients: the client is the responsible party.  closed exists to state a property:
\* since the item was last requested, a lawyer closed the chase of it.
Missing(clients) ==
    [status |-> "missing", live |-> TRUE, filed |-> FALSE, owed |-> 0, clients |-> clients, closed |-> FALSE]

Init ==
    /\ rows = <<>>
    /\ delivery = "not_yet"
    /\ questions = <<>>
    /\ call = [u \in Staff |-> Idle]

-----------------------------------------------------------------------------
(* The checklist.                                                          *)

\* missingChecklistItems sees live rows only, and the unique index covers the
\* same: a template item that was removed is seeded again.
SeedChecklistForMatter(clients) ==
    /\ ~\E i \in DOMAIN rows : rows[i].live
    /\ Len(rows) < MaxRows
    /\ rows' = Append(rows, Missing(clients))
    /\ UNCHANGED <<delivery, questions, call>>

\* What a handler's check of the loaded status lets through.
Accepts(op, status) ==
    CASE op = "request" -> status = "missing"
      [] op = "upload" -> status \notin {"accepted", "not_applicable"}
      [] op = "accept" -> status = "received"
      [] op \in {"waive", "archive"} -> TRUE

ItemOps == {"request", "upload", "accept", "waive", "archive"}

LoadItem(u, i, op) ==
    /\ call[u] = Idle
    /\ Accepts(op, rows[i].status)
    /\ call' = [call EXCEPT ![u] = [op |-> op, row |-> i]]
    /\ UNCHANGED <<rows, delivery, questions>>

\* The first open task found is closed; a second one stays open.
OneClosed(n) == IF n = 0 THEN 0 ELSE n - 1

\* Seeded bug: the task is closed by the call that takes the item back.
RequestedWithoutTask(row) == [row EXCEPT !.status = "requested"]

Requested(row) == [row EXCEPT !.status = "requested", !.owed = @ + 1, !.closed = FALSE]
Uploaded(row) == [row EXCEPT !.status = "received", !.filed = TRUE, !.owed = OneClosed(@)]
Accepted(row) == [row EXCEPT !.status = "accepted"]
Waived(row) == [row EXCEPT !.status = "not_applicable", !.owed = OneClosed(@)]
Archived(row) == [row EXCEPT !.live = FALSE, !.owed = OneClosed(@)]

CommitItem(u) ==
    LET c == call[u] IN
    /\ c.op \in ItemOps
    /\ c.op = "request" => rows[c.row].owed < MaxAsks
    /\ rows' = [rows EXCEPT ![c.row] =
           CASE c.op = "request" -> Requested(@)
             [] c.op = "upload" -> Uploaded(@)
             [] c.op = "accept" -> Accepted(@)
             [] c.op = "waive" -> Waived(@)
             [] c.op = "archive" -> Archived(@)]
    /\ call' = [call EXCEPT ![u] = Idle]
    /\ UNCHANGED <<delivery, questions>>

ChaseClosed(row) == [row EXCEPT !.owed = @ - 1, !.closed = TRUE]

\* recordLawyerDecision, no reply needed or closed with a note: the client's task,
\* long overdue, is cancelled, and nothing tells the checklist.
CloseChase(i) ==
    /\ rows[i].clients /\ rows[i].owed > 0
    /\ rows' = [rows EXCEPT ![i] = ChaseClosed(@)]
    /\ UNCHANGED <<delivery, questions, call>>

-----------------------------------------------------------------------------
(* The delivery question.                                                  *)

OpenQuestions == {k \in DOMAIN questions : questions[k] = "open"}

\* askAboutDelivery: nothing is asked once delivery is settled or while a
\* question is open, as far as the handler sees.
LoadForAsk(u) ==
    /\ call[u] = Idle
    /\ delivery = "not_yet" /\ OpenQuestions = {}
    /\ call' = [call EXCEPT ![u] = [op |-> "ask"]]
    /\ UNCHANGED <<rows, delivery, questions>>

CommitAsk(u) ==
    /\ call[u].op = "ask" /\ Len(questions) < MaxAsks
    /\ questions' = Append(questions, "open")
    /\ call' = [call EXCEPT ![u] = Idle]
    /\ UNCHANGED <<rows, delivery>>

\* recordDeliveryAnswer finds the task before it writes: 0 when there is none.
LoadForAnswer(u, answer) ==
    /\ call[u] = Idle
    /\ \E k \in IF OpenQuestions = {} THEN {0} ELSE OpenQuestions :
           call' = [call EXCEPT ![u] = [op |-> "answer", answer |-> answer, task |-> k]]
    /\ UNCHANGED <<rows, delivery, questions>>

\* "Not yet" moves the same task's due date and leaves it open.
ClosesQuestion(answer) == answer # "not_yet"

\* A task closed by somebody else in the meantime fails the whole call.
CommitAnswer(u) ==
    LET c == call[u] IN
    /\ c.op = "answer"
    /\ call' = [call EXCEPT ![u] = Idle]
    /\ IF c.task # 0 /\ c.task \notin OpenQuestions THEN UNCHANGED <<delivery, questions>>
       ELSE /\ delivery' = IF c.answer = "not_yet" THEN delivery ELSE c.answer
            /\ questions' = IF c.task # 0 /\ ClosesQuestion(c.answer)
                            THEN [questions EXCEPT ![c.task] = "done"] ELSE questions
    /\ UNCHANGED rows

Next ==
    \/ \E clients \in BOOLEAN : SeedChecklistForMatter(clients)
    \/ \E i \in DOMAIN rows : CloseChase(i)
    \/ \E u \in Staff :
          \/ \E i \in DOMAIN rows, op \in ItemOps : LoadItem(u, i, op)
          \/ CommitItem(u)
          \/ LoadForAsk(u)
          \/ CommitAsk(u)
          \/ \E answer \in {"sent", "not_yet", "not_needed"} : LoadForAnswer(u, answer)
          \/ CommitAnswer(u)

Spec == Init /\ [][Next]_vars

-----------------------------------------------------------------------------
TypeOK ==
    /\ \A i \in DOMAIN rows :
          rows[i] \in [status : {"missing", "requested", "received", "accepted", "not_applicable"},
                       live : BOOLEAN, filed : BOOLEAN, owed : 0..MaxAsks, clients : BOOLEAN, closed : BOOLEAN]
    /\ delivery \in {"not_yet", "sent", "not_needed"}
    /\ \A k \in DOMAIN questions : questions[k] \in {"open", "done"}
    /\ \A u \in Staff : call[u].op \in ItemOps \cup {"none", "ask", "answer"}

\* Whatever requests, uploads, acceptances and removals overlap, somebody
\* owes every document that is waited for: an item on the checklist with the
\* status 'requested' has an open task, unless it is the client's and a lawyer
\* closed the chase of it since it was last requested (requestChecklistItem,
\* recordChecklistUpload, recordLawyerDecision).
RequestedIsOwed == \A i \in DOMAIN rows :
    rows[i].live /\ rows[i].status = "requested" => rows[i].owed > 0 \/ (rows[i].clients /\ rows[i].closed)

\* No race makes an item received or accepted that no file was ever given for.
AcceptedHasFile == \A i \in DOMAIN rows : rows[i].status \in {"received", "accepted"} => rows[i].filed

\* Once asked, whether a file went out stays on somebody's list until it is
\* settled: two people answering at once never leave it 'not_yet' with no
\* open question (recordDeliveryAnswer).
AskedStaysAsked == questions # <<>> /\ delivery = "not_yet" => OpenQuestions # {}

RequestsAreFollowedUp == RequestedIsOwed /\ AcceptedHasFile /\ AskedStaysAsked
=============================================================================
