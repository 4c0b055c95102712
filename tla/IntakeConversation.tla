------------------------- MODULE IntakeConversation -------------------------
(***************************************************************************)
(* One person's conversation with the firm before a matter is opened       *)
(* (src/src/engines/intake/channels): messages on one text thread, the     *)
(* disclosures, the names for the conflict check, consent to texting, the  *)
(* case details, and a referral waiting for the person.                    *)
(*                                                                         *)
(* A request reads the session, its conflict result and the person's       *)
(* contact preferences, and writes what it computed from them at the end;  *)
(* no read takes a lock.                                                   *)
(***************************************************************************)
EXTENDS Naturals, Sequences

CONSTANTS
    Callers,     \* requests handled at a time
    Answers,     \* answers to case-detail questions
    MaxSessions, \* bound: intake sessions of the person
    MaxNames     \* bound: sets of names given for the conflict check

VARIABLES
    sessions, \* the intake sessions, oldest first: see SessionType
    caller    \* the requests under way, with what they read

vars == <<sessions, caller>>

Outcomes == {"none", "clear", "possible", "definite", "attorney_cleared"}
\* parties.safe_contact: a session makes a contact of its own.
PrefsType == [sms : {"unset", "off"}, consent : BOOLEAN, email : {"unset", "off"}]
SessionType ==
    [prefs : PrefsType, status : {"active", "interrupted", "paused_emergency", "referral_awaiting_contact"},
     thread : BOOLEAN,               \* reached from the text thread
     disclosures : BOOLEAN,          \* disclosures_acknowledged_at is set
     names : 0..MaxNames,            \* conflict_minimum; 0: none
     checked : 0..MaxNames,          \* the names the latest result is about
     result : Outcomes,
     answers : SUBSET Answers,       \* collected_answers
     everClear : BOOLEAN,            \* a result was ever clear or cleared
     clock : BOOLEAN,                \* the response clock was started
     followUpStopped : BOOLEAN]
NoCall == [op |-> "none"]

NewSession(status, thread) ==
    [prefs |-> [sms |-> "unset", consent |-> FALSE, email |-> "unset"], status |-> status, thread |-> thread, disclosures |-> FALSE, names |-> 0, checked |-> 0,
     result |-> "none", answers |-> {}, everClear |-> FALSE, clock |-> thread,
     followUpStopped |-> FALSE]

Init ==
    /\ sessions = <<>>
    /\ caller = [p \in Callers |-> NoCall]

Sessions == DOMAIN sessions
\* findSessionByThread: the newest session of the thread; 0: none.
SessionOfThread ==
    LET mine == {s \in Sessions : sessions[s].thread} IN
    IF mine = {} THEN 0 ELSE CHOOSE s \in mine : \A other \in mine : other <= s
WaitingReferral ==
    LET waiting == {s \in Sessions : sessions[s].status = "referral_awaiting_contact"} IN
    IF waiting = {} THEN 0 ELSE CHOOSE s \in waiting : TRUE

Read(p, r) ==
    /\ caller[p] = NoCall
    /\ caller' = [caller EXCEPT ![p] = r]
    /\ UNCHANGED sessions

Done(p) == caller' = [caller EXCEPT ![p] = NoCall]
Is(p, op) == caller[p].op = op

-----------------------------------------------------------------------------
(* receiveInbound.                                                         *)

\* What the message turns out to be: text, STOP, or an emergency.
Kinds == {"text", "stop", "emergency"}

ReadForMessage(p, kind) ==
    LET s == SessionOfThread IN
    Read(p, [op |-> "message", kind |-> kind, session |-> s,
             referral |-> IF s = 0 THEN WaitingReferral ELSE 0])

\* STOP ends follow-ups and texting; an emergency pauses the intake; the
\* first message with a usable contact starts the response clock.
Received(session, kind) ==
    [session EXCEPT
        !.status = IF kind = "emergency" THEN "paused_emergency"
                   ELSE IF @ = "referral_awaiting_contact" THEN "active" ELSE @,
        !.thread = TRUE,
        !.clock = @ \/ kind = "text",
        !.followUpStopped = @ \/ kind = "stop",
        !.prefs.sms = IF kind = "stop" THEN "off" ELSE @]

ReceiveInbound(p) ==
    /\ Is(p, "message")
    /\ LET c == caller[p]
           s == IF c.session # 0 THEN c.session ELSE c.referral
       IN /\ IF s # 0 THEN sessions' = [sessions EXCEPT ![s] = Received(@, c.kind)]
             ELSE /\ Len(sessions) < MaxSessions
                  /\ sessions' = Append(sessions, Received(NewSession("active", FALSE), c.kind))
    /\ Done(p)

-----------------------------------------------------------------------------
(* The steps of the conversation, on a session s.                          *)

AcknowledgeDisclosures(s) ==
    /\ sessions' = [sessions EXCEPT ![s].disclosures = TRUE]
    /\ UNCHANGED caller

\* The names go on the session and a check is asked for; an earlier result stays.
RecordConflictMinimum(s) ==
    /\ sessions[s].disclosures /\ sessions[s].names < MaxNames
    /\ sessions' = [sessions EXCEPT ![s].names = @ + 1]
    /\ UNCHANGED caller

\* External: the conflict-check engine's result about the names it was given,
\* and a lawyer's clearing of a possible conflict.
CheckResult(s, outcome) ==
    /\ sessions[s].names # sessions[s].checked
    /\ sessions' = [sessions EXCEPT ![s].checked = sessions[s].names, ![s].result = outcome,
                                    ![s].everClear = @ \/ outcome = "clear"]
    /\ UNCHANGED caller

AttorneyClears(s) ==
    /\ sessions[s].result = "possible"
    /\ sessions' = [sessions EXCEPT ![s].result = "attorney_cleared", ![s].everClear = TRUE]
    /\ UNCHANGED caller

\* Seeded bug: a possible conflict does not lock the case details.
CaseDetailsLockDefiniteOnly(session) ==
    \/ ~session.disclosures \/ session.names = 0
    \/ session.result = "definite"
    \/ session.status = "paused_emergency"

CaseDetailsLock(session) ==
    \/ ~session.disclosures \/ session.names = 0
    \/ session.result \notin {"clear", "attorney_cleared"}
    \/ session.status = "paused_emergency"

ReadForDetails(p, s, answer) ==
    /\ ~CaseDetailsLock(sessions[s])
    /\ Read(p, [op |-> "details", session |-> s, answers |-> sessions[s].answers \cup {answer}])

RecordCaseDetails(p) ==
    /\ Is(p, "details")
    /\ sessions' = [sessions EXCEPT ![caller[p].session].answers = caller[p].answers]
    /\ Done(p)

\* An opt-in lifts an earlier refusal, but not a STOP.
ReadForConsent(p, s, given) ==
    LET prefs == sessions[s].prefs
        lifted == IF sessions[s].followUpStopped THEN prefs.sms ELSE "unset" IN
    Read(p, [op |-> "prefs", session |-> s,
             prefs |-> IF given THEN [prefs EXCEPT !.consent = TRUE, !.sms = lifted]
                       ELSE [prefs EXCEPT !.sms = "off"]])

\* confirmSafeContact: the person names an unsafe channel.
ReadForSafeContact(p, s, channel) ==
    LET prefs == sessions[s].prefs IN
    Read(p, [op |-> "prefs", session |-> s,
             prefs |-> IF channel = "email" THEN [prefs EXCEPT !.email = "off"]
                                       ELSE [prefs EXCEPT !.sms = "off"]])

WritePrefs(p) ==
    /\ Is(p, "prefs")
    /\ sessions' = [sessions EXCEPT ![caller[p].session].prefs = caller[p].prefs]
    /\ Done(p)

MarkInterrupted(s) ==
    /\ sessions[s].status = "active"
    /\ sessions' = [sessions EXCEPT ![s].status = "interrupted"]
    /\ UNCHANGED caller

\* An acknowledged or downgraded emergency gives the intake back.
EmergencyHandled(s) ==
    /\ sessions[s].status = "paused_emergency"
    /\ sessions' = [sessions EXCEPT ![s].status = "active"]
    /\ UNCHANGED caller

RecordReferral ==
    /\ Len(sessions) < MaxSessions
    /\ sessions' = Append(sessions, NewSession("referral_awaiting_contact", FALSE))
    /\ UNCHANGED caller

ActivateReferral(s) ==
    /\ sessions[s].status = "referral_awaiting_contact"
    /\ sessions' = [sessions EXCEPT ![s].status = "active", ![s].clock = TRUE]
    /\ UNCHANGED caller

RequestFails(p) ==
    /\ caller[p] # NoCall
    /\ Done(p) /\ UNCHANGED sessions

-----------------------------------------------------------------------------
Next ==
    \/ \E p \in Callers :
          \/ \E kind \in Kinds : ReadForMessage(p, kind)
          \/ ReceiveInbound(p)
          \/ \E s \in Sessions, answer \in Answers : ReadForDetails(p, s, answer)
          \/ \E s \in Sessions, given \in BOOLEAN : ReadForConsent(p, s, given)
          \/ \E s \in Sessions, channel \in {"email", "sms"} : ReadForSafeContact(p, s, channel)
          \/ RecordCaseDetails(p) \/ WritePrefs(p) \/ RequestFails(p)
    \/ \E s \in Sessions :
          \/ AcknowledgeDisclosures(s) \/ RecordConflictMinimum(s)
          \/ \E outcome \in {"clear", "possible", "definite"} : CheckResult(s, outcome)
          \/ AttorneyClears(s) \/ MarkInterrupted(s) \/ EmergencyHandled(s) \/ ActivateReferral(s)
    \/ RecordReferral

Spec == Init /\ [][Next]_vars

-----------------------------------------------------------------------------
(* Properties.                                                             *)

TypeOK ==
    /\ sessions \in Seq(SessionType)
    /\ \A p \in Callers : caller[p].op \in {"none", "message", "details", "prefs"}

\* c65 rules 3 and 4: no case detail is on file before the person saw the
\* disclosures and a check of names they gave came back clear.
DetailsComeAfterTheCheck ==
    \A s \in Sessions :
        sessions[s].answers # {} =>
            sessions[s].disclosures /\ sessions[s].everClear /\ sessions[s].checked # 0

\* c65 rule 7: STOP on the text thread ends texting.
SmsOptedIn(session) == session.prefs.consent /\ session.prefs.sms # "off"
StopEndsTexting ==
    \A s \in Sessions : sessions[s].followUpStopped => ~SmsOptedIn(sessions[s])
=============================================================================
