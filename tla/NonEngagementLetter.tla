------------------------- MODULE NonEngagementLetter -------------------------
(***************************************************************************)
(* The letter a declined prospect gets: started when an inquiry ends,      *)
(* approved by a lawyer (or under a template approved once), sent to the   *)
(* prospect's safe address or posted, and followed up when it comes back   *)
(* (src/src/engines/conflict-check/letterService.ts, letters.ts).          *)
(*                                                                         *)
(* Requests read the letter and write it later by its id, without a lock:  *)
(* one may act on a letter another has changed meanwhile.                  *)
(***************************************************************************)
EXTENDS Naturals

CONSTANTS
    Lawyers,    \* the people who work on the letter
    MaxProblems \* bound on delivery problems

VARIABLES
    firm,     \* fixed: the declines whose letters go out under the template, and whether a letter follows "did not hire"
    wording,  \* whether the wording of the letter is approved at the moment
    safe,     \* whether the prospect has an address that is safe to write to
    letter,   \* the non_engagement_letters row
    task,     \* the task to approve and send it
    problems, \* the open tasks to find another way to deliver it
    made,     \* how many of those were made
    mail,     \* the one email of this letter: not made, on its way, reported as bounced
    posted,   \* whether somebody put it in the post
    dropped,  \* whether somebody closed a task of it by hand
    asks      \* per lawyer, what they are doing and the letter as they read it

vars == <<firm, wording, safe, letter, task, problems, made, mail, posted, dropped, asks>>

DeclineTypes == {"conflict", "not_eligible", "did_not_hire"}
NoLetter == [status |-> "none", type |-> "none", by |-> "nobody", channel |-> "none"]
Idle == [op |-> "none"]

Init ==
    /\ firm \in [auto: SUBSET DeclineTypes, letterForDidNotHire: BOOLEAN]
    /\ wording \in BOOLEAN /\ safe \in BOOLEAN
    /\ letter = NoLetter
    /\ task = "none" /\ problems = 0 /\ made = 0
    /\ mail = "none" /\ posted = FALSE /\ dropped = FALSE
    /\ asks = [u \in Lawyers |-> Idle]

LetterRequired(type) == type # "did_not_hire" \/ firm.letterForDidNotHire
NeedsIndividualApproval(type) == type = "conflict" \/ type \notin firm.auto

\* The firm's wording is approved or the approval withdrawn; the prospect's
\* safe address comes and goes.
WordingChanges == wording' = ~wording /\ UNCHANGED <<firm, safe, letter, task, problems, made, mail, posted, dropped, asks>>
AddressChanges == safe' = ~safe /\ UNCHANGED <<firm, wording, letter, task, problems, made, mail, posted, dropped, asks>>

\* Seeded bug: the follow-up of a bounced letter is left to the send task.
BounceUnflagged == problems' = problems /\ made' = made

\* flagDeliveryProblem: a task for the reviewer to find another way.
DeliveryProblem == made < MaxProblems /\ problems' = problems + 1 /\ made' = made + 1

-----------------------------------------------------------------------------
(* The start.                                                              *)

\* sendLetter, from an approved letter: an email carries the letter's key, so
\* that a second one is the first.  Where no address is safe, the task to send
\* it stays as it is and a second one asks for another way.
Sent(approved, sending) ==
    IF safe
    THEN /\ mail' = IF mail = "none" THEN "out" ELSE mail
         /\ letter' = [approved EXCEPT !.status = "sent", !.channel = "email"]
         /\ task' = "closed"
         /\ UNCHANGED <<problems, made>>
    ELSE /\ letter' = [approved EXCEPT !.status = "no_channel"]
         /\ task' = sending
         /\ DeliveryProblem
         /\ UNCHANGED mail

\* startNonEngagementLetter: under an approved template a letter that needs
\* nobody's approval goes out at once.
StartLetter(type) ==
    /\ letter = NoLetter /\ LetterRequired(type)
    /\ LET started == [status |-> "awaiting_approval", type |-> type, by |-> "nobody", channel |-> "none"]
       IN  IF wording /\ ~NeedsIndividualApproval(type)
           THEN Sent([started EXCEPT !.by = "template"], "open")
           ELSE letter' = started /\ task' = "open" /\ UNCHANGED <<problems, made, mail>>
    /\ UNCHANGED <<firm, wording, safe, posted, dropped, asks>>

-----------------------------------------------------------------------------
(* What the lawyers do.                                                    *)

Read(u, op, statuses) ==
    /\ asks[u] = Idle
    /\ letter.status \in statuses
    /\ asks' = [asks EXCEPT ![u] = [op |-> op, letter |-> letter]]
    /\ UNCHANGED <<firm, wording, safe, letter, task, problems, made, mail, posted, dropped>>

Finish(u) == asks' = [asks EXCEPT ![u] = Idle]

\* approveLetter is refused, with a flag to the admins, while the wording is
\* pending.
ReadToApprove(u) == wording /\ Read(u, "approve", {"awaiting_approval"})
ApproveLetter(u) ==
    /\ asks[u].op = "approve"
    /\ letter' = [letter EXCEPT !.status = "approved", !.by = "lawyer"]
    /\ Finish(u)
    /\ UNCHANGED <<firm, wording, safe, task, problems, made, mail, posted, dropped>>

ReadToSend(u) == Read(u, "send", {"approved"})
SendLetter(u) ==
    /\ asks[u].op = "send"
    /\ Sent(letter, task)
    /\ Finish(u)
    /\ UNCHANGED <<firm, wording, safe, posted, dropped>>

ReadToPost(u) == Read(u, "post", {"approved", "no_channel", "bounced"})
RecordPostalLetter(u) ==
    /\ asks[u].op = "post"
    /\ letter' = [letter EXCEPT !.status = "sent", !.channel = "postal"]
    /\ posted' = TRUE /\ task' = "closed"
    /\ Finish(u)
    /\ UNCHANGED <<firm, wording, safe, problems, made, mail, dropped>>

\* recordLetterDelivery looks at no status: a report may come in late.
RecordDelivered ==
    /\ mail = "out" \/ posted
    /\ letter.status # "delivered"
    /\ letter' = [letter EXCEPT !.status = "delivered"]
    /\ UNCHANGED <<firm, wording, safe, task, problems, made, mail, posted, dropped, asks>>
RecordBounced ==
    /\ mail = "out"
    /\ letter' = [letter EXCEPT !.status = "bounced"]
    /\ mail' = "bounced"
    /\ DeliveryProblem
    /\ UNCHANGED <<firm, wording, safe, task, posted, dropped, asks>>

\* A task of the letter is closed by hand, from the list of tasks.
CloseTaskByHand ==
    /\ \/ task = "open" /\ task' = "closed" /\ UNCHANGED problems
       \/ problems > 0 /\ problems' = problems - 1 /\ UNCHANGED task
    /\ dropped' = TRUE
    /\ UNCHANGED <<firm, wording, safe, letter, made, mail, posted, asks>>

Next ==
    \/ WordingChanges \/ AddressChanges
    \/ \E type \in DeclineTypes : StartLetter(type)
    \/ \E u \in Lawyers :
           \/ ReadToApprove(u) \/ ApproveLetter(u)
           \/ ReadToSend(u) \/ SendLetter(u)
           \/ ReadToPost(u) \/ RecordPostalLetter(u)
    \/ RecordDelivered \/ RecordBounced \/ CloseTaskByHand

Spec == Init /\ [][Next]_vars

-----------------------------------------------------------------------------
TypeOK ==
    /\ letter.status \in {"none", "awaiting_approval", "approved", "sent", "delivered", "bounced", "no_channel"}
    /\ letter.by \in {"nobody", "lawyer", "template"}
    /\ task \in {"none", "open", "closed"} /\ problems \in 0..MaxProblems
    /\ mail \in {"none", "out", "bounced"}

\* As long as the letter is neither in the post nor in an email nobody has
\* reported as bounced, somebody has a task to bring it to the prospect,
\* unless that task was closed by hand: through stale approvals, a second
\* sending, a bounce after an approval and a late report (sendLetter,
\* recordLetterDelivery, flagDeliveryProblem).
LetterIsFollowedUp ==
    letter # NoLetter => posted \/ mail = "out" \/ task = "open" \/ problems > 0 \/ dropped

\* A letter to somebody declined for a conflict leaves the firm only after a
\* lawyer approved that one letter (needsIndividualApproval).
ConflictLettersAreRead ==
    letter.type = "conflict" /\ (posted \/ mail # "none") => letter.by = "lawyer"

LettersAreSound == LetterIsFollowedUp /\ ConflictLettersAreRead
=============================================================================
