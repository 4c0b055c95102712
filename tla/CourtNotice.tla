----------------------------- MODULE CourtNotice -----------------------------
(***************************************************************************)
(* A court email from its arrival until a person has taken it: how it is   *)
(* recognised and matched, the alert that climbs on the real clock, and    *)
(* the date found in it that a lawyer accepts or rejects                   *)
(* (src/src/engines/calendar-alerts/courtNotice/service.ts, detect.ts).    *)
(*                                                                         *)
(* Filing, dismissing, acknowledging and deciding read the rows without a  *)
(* lock and write later; the worker's escalation locks the notice.         *)
(***************************************************************************)
EXTENDS Naturals, Sequences, FiniteSets

CONSTANTS
    Staff,   \* the people who acknowledge, file and dismiss
    Lawyers, \* the lawyers who decide the date found in it
    Matters, \* the open matters; a matter stands for its responsible lawyer too
    Mails    \* the messages that may arrive

VARIABLES
    named,      \* fixed: the matters with an active lawyer, and whether that lawyer has a backup
    notice,     \* the court_notices row
    alerts,     \* the flags raised for it: open or not, and who was told
    late,       \* 0 before ack_due_at, 1 from then on, 2 one acknowledgement window later
    suggestion, \* the date found in the email
    events,     \* the calendar entries made from it
    asks        \* per person, what they are doing and the rows as they read them

vars == <<named, notice, alerts, late, suggestion, events, asks>>

NoAsk == [op |-> "none"]
NoMatter == "no matter"

Init ==
    /\ named \in [lawyers: SUBSET Matters, backup: BOOLEAN]
    /\ notice = [status |-> "none", matter |-> NoMatter, flag |-> 0, step |-> 0, acked |-> FALSE]
    /\ alerts = <<>>
    /\ late = 0
    /\ suggestion = [status |-> "none", event |-> 0]
    /\ events = <<>>
    /\ asks = [u \in Staff \cup Lawyers |-> NoAsk]

Live == notice.status \in {"matched", "unmatched"}

-----------------------------------------------------------------------------
(* Recognising and matching a message.                                     *)

\* What detection tells apart in a message: where it comes from, whether the
\* sender's domain is trusted, the authentication results, whether it looks
\* like a court's, the matters its cause numbers and its names point to, and
\* whether it holds an explicit date.
MailType == [source: {"mailbox", "manual"}, trusted: BOOLEAN, dmarc: BOOLEAN, dkimAligned: BOOLEAN,
             spf: BOOLEAN, lookalike: BOOLEAN, causes: SUBSET Matters, names: SUBSET Matters,
             date: BOOLEAN]

MailAssumption == Mails \subseteq MailType

AuthenticationPasses(mail) == mail.dmarc /\ (mail.dkimAligned \/ mail.spf)

\* classifyCourtEmail; what staff enter by hand they verified themselves.
Classification(mail) ==
    CASE mail.source = "manual" -> "court_verified"
      [] mail.source # "manual" /\ mail.trusted ->
             IF AuthenticationPasses(mail) THEN "court_verified" ELSE "possible_phishing"
      [] OTHER -> IF mail.lookalike THEN "possible_phishing" ELSE "ignore"

TheOne(found) == IF Cardinality(found) = 1 THEN CHOOSE m \in found : TRUE ELSE NoMatter

\* matchNoticeToMatter: cause numbers first, full names only when those know no matter.
MatchedMatter(mail) == IF mail.causes # {} THEN TheOne(mail.causes) ELSE TheOne(mail.names)

-----------------------------------------------------------------------------
(* Arrival.                                                                *)

\* alertForNotice: the matter's lawyer, or the admins where there is none.
AlertTo(matter) == IF matter \in named.lawyers THEN {matter} ELSE {"admins"}

\* raiseFlag: one open flag per notice, found again by its dedupe key.
OpenAlerts(flags) == {i \in DOMAIN flags : flags[i].open}
Raised(flags, matter) ==
    IF OpenAlerts(flags) # {} THEN flags ELSE Append(flags, [open |-> TRUE, to |-> AlertTo(matter)])
FlagOf(flags) == CHOOSE i \in OpenAlerts(flags) : TRUE

\* ingestCourtEmail.  The rules may propose the date themselves (autoPropose)
\* once the firm's attorney approved them.  A message delivered twice conflicts
\* on its external id and changes nothing.
Ingest(mail, approved) ==
    /\ notice.status = "none"
    /\ Classification(mail) # "ignore"
    /\ LET phishing == Classification(mail) = "possible_phishing"
           matter == IF phishing THEN NoMatter ELSE MatchedMatter(mail)
           proposed == approved /\ mail.date /\ ~phishing /\ matter # NoMatter
       IN  /\ alerts' = IF phishing THEN <<[open |-> TRUE, to |-> {"admins"}]>> ELSE Raised(<<>>, matter)
           /\ notice' = [status |-> CASE phishing -> "phishing_review"
                                      [] ~phishing /\ matter = NoMatter -> "unmatched"
                                      [] OTHER -> "matched",
                         matter |-> matter, flag |-> 1, step |-> 0, acked |-> FALSE]
           /\ events' = IF proposed THEN <<"proposed">> ELSE <<>>
           /\ suggestion' = [status |-> IF mail.date /\ ~phishing THEN "open" ELSE "none",
                             event |-> IF proposed THEN 1 ELSE 0]
    /\ UNCHANGED <<named, late, asks>>

TimePasses ==
    /\ notice.status # "none" /\ late < 2
    /\ late' = late + 1
    /\ UNCHANGED <<named, notice, alerts, suggestion, events, asks>>

-----------------------------------------------------------------------------
(* The worker.                                                             *)

EscalationStepDue ==
    CASE notice.step < 1 /\ late >= 1 -> 1
      [] notice.step = 1 /\ late >= 2 -> 2
      [] OTHER -> 0

\* processNoticeEscalations: without a backup lawyer straight to the owners.
Escalate ==
    /\ Live /\ ~notice.acked /\ notice.flag # 0 /\ EscalationStepDue # 0
    /\ LET toBackup == EscalationStepDue = 1 /\ named.backup /\ notice.matter \in named.lawyers
           add == IF toBackup THEN {"backup"} ELSE {"owners", "admins"}
       IN  /\ notice' = [notice EXCEPT !.step = IF toBackup THEN 1 ELSE 2]
           /\ alerts' = IF alerts[notice.flag].open
                        THEN [alerts EXCEPT ![notice.flag].to = @ \cup add] ELSE alerts
    /\ UNCHANGED <<named, late, suggestion, events, asks>>

-----------------------------------------------------------------------------
(* What people do with a notice.                                           *)

Start(u, ask) == asks[u] = NoAsk /\ asks' = [asks EXCEPT ![u] = ask]
Finish(u) == asks' = [asks EXCEPT ![u] = NoAsk]
Read(u, ask) == Start(u, ask) /\ UNCHANGED <<named, notice, alerts, late, suggestion, events>>

Resolved(flag) == IF flag = 0 THEN alerts ELSE [alerts EXCEPT ![flag].open = FALSE]

ReadToAcknowledge(u) == Live /\ ~notice.acked /\ Read(u, [op |-> "acknowledge"])

AcknowledgeNotice(u) ==
    /\ asks[u].op = "acknowledge"
    /\ notice' = [notice EXCEPT !.acked = TRUE]
    /\ Finish(u)
    /\ UNCHANGED <<named, alerts, late, suggestion, events>>

ReadToFile(u, matter) ==
    /\ Live
    /\ Read(u, [op |-> "file", matter |-> matter, status |-> notice.status, flag |-> notice.flag])

\* Seeded bug: the new alert goes on from the step the old one had reached.
FileNoticeToMatterKeepingStep(u) ==
    /\ asks[u].op = "file"
    /\ LET c == asks[u]
           left == Raised(Resolved(c.flag), c.matter)
       IN  IF c.status = "unmatched"
           THEN /\ alerts' = left
                /\ notice' = [notice EXCEPT !.status = "matched", !.matter = c.matter, !.flag = FlagOf(left)]
           ELSE /\ notice' = [notice EXCEPT !.status = "matched", !.matter = c.matter]
                /\ UNCHANGED alerts
    /\ Finish(u)
    /\ UNCHANGED <<named, late, suggestion, events>>

\* fileNoticeToMatter: the queue's alert is replaced by one to the matter's
\* lawyer; moving a matched notice to another matter alerts nobody.
FileNoticeToMatter(u) ==
    /\ asks[u].op = "file"
    /\ LET c == asks[u]
           left == Raised(Resolved(c.flag), c.matter)
       IN  IF c.status = "unmatched"
           THEN /\ alerts' = left
                /\ notice' = [notice EXCEPT !.status = "matched", !.matter = c.matter,
                                            !.flag = FlagOf(left), !.step = 0]
           ELSE /\ notice' = [notice EXCEPT !.status = "matched", !.matter = c.matter]
                /\ UNCHANGED alerts
    /\ Finish(u)
    /\ UNCHANGED <<named, late, suggestion, events>>

ReadToDismiss(u) ==
    /\ notice.status \in {"matched", "unmatched", "phishing_review"}
    /\ Read(u, [op |-> "dismiss", flag |-> notice.flag])

DismissNotice(u) ==
    /\ asks[u].op = "dismiss"
    /\ notice' = [notice EXCEPT !.status = "dismissed"]
    /\ alerts' = Resolved(asks[u].flag)
    /\ Finish(u)
    /\ UNCHANGED <<named, late, suggestion, events>>

-----------------------------------------------------------------------------
(* What a lawyer does with the date found in it.                           *)

ReadToDecide(u, op) ==
    /\ suggestion.status = "open"
    /\ op = "accept" /\ suggestion.event = 0 => notice.matter # NoMatter
    /\ Read(u, [op |-> op, event |-> suggestion.event])

\* decideSuggestion: accepting makes a proposed entry, which is confirmed in
\* the calendar; rejecting cancels one that is still proposed.
AcceptSuggestion(u) ==
    /\ asks[u].op = "accept"
    /\ LET new == asks[u].event = 0
       IN  /\ events' = IF new THEN Append(events, "proposed") ELSE events
           /\ suggestion' = [status |-> "confirmed", event |-> IF new THEN Len(events) + 1 ELSE asks[u].event]
    /\ Finish(u)
    /\ UNCHANGED <<named, notice, alerts, late>>

RejectSuggestion(u) ==
    /\ asks[u].op = "reject"
    /\ LET e == asks[u].event
       IN  /\ events' = [i \in DOMAIN events |->
                  IF i = e /\ events[i] = "proposed" THEN "cancelled" ELSE events[i]]
           /\ suggestion' = [status |-> "rejected", event |-> e]
    /\ Finish(u)
    /\ UNCHANGED <<named, notice, alerts, late>>

\* confirmEvent of the matter calendar, as far as this entry is concerned.
ConfirmEvent(i) ==
    /\ events[i] = "proposed"
    /\ events' = [events EXCEPT ![i] = "confirmed"]
    /\ UNCHANGED <<named, notice, alerts, late, suggestion, asks>>

Next ==
    \/ \E mail \in Mails, approved \in BOOLEAN : Ingest(mail, approved)
    \/ TimePasses \/ Escalate
    \/ \E u \in Staff :
           \/ ReadToAcknowledge(u) \/ AcknowledgeNotice(u)
           \/ \E m \in Matters : ReadToFile(u, m)
           \/ FileNoticeToMatter(u)
           \/ ReadToDismiss(u) \/ DismissNotice(u)
    \/ \E u \in Lawyers :
           \/ \E op \in {"accept", "reject"} : ReadToDecide(u, op)
           \/ AcceptSuggestion(u) \/ RejectSuggestion(u)
    \/ \E i \in DOMAIN events : ConfirmEvent(i)

\* The clock goes on and the worker runs every minute (src/src/worker/tick.ts).
Fairness == WF_vars(TimePasses) /\ WF_vars(Escalate)

Spec == Init /\ [][Next]_vars /\ Fairness

-----------------------------------------------------------------------------
TypeOK ==
    /\ notice.status \in {"none", "matched", "unmatched", "phishing_review", "dismissed"}
    /\ notice.matter \in Matters \cup {NoMatter} /\ notice.step \in 0..2
    /\ \A i \in DOMAIN alerts : alerts[i].to \subseteq Matters \cup {"admins", "backup", "owners"}
    /\ suggestion.status \in {"none", "open", "confirmed", "rejected"}
    /\ \A i \in DOMAIN events : events[i] \in {"proposed", "confirmed", "cancelled"}

Alerting == Live /\ alerts[notice.flag].open

\* A court email with an open alert nobody acknowledges or dismisses comes
\* before the owners on that alert, even when it was filed to a matter after
\* the queue's alert had climbed, by two people at once, or over a dismissal
\* (processNoticeEscalations, fileNoticeToMatter).
CourtMailReachesOwners ==
    Alerting ~> \/ notice.acked \/ ~Live
                \/ Alerting /\ {"owners", "admins"} \subseteq alerts[notice.flag].to

\* What a lawyer confirmed in the calendar no late rejection takes away
\* (decideSuggestion cancels a proposed entry only).
ConfirmedStands == [][\A i \in DOMAIN events : events[i] = "confirmed" => events'[i] = "confirmed"]_vars
=============================================================================
