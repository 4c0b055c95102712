------------------------ MODULE EmergencyEscalation ------------------------
(***************************************************************************)
(* Emergencies on one inquiry (src/src/engines/intake/emergency): a        *)
(* message raises an alert and pages whoever is on call, the worker's tick *)
(* pages further people every acknowledgement window, staff acknowledge or *)
(* downgrade.  Requests and ticks are transactions at READ COMMITTED: what *)
(* one read may be out of date when it commits.                            *)
(*                                                                         *)
(* A tick locks the timers it takes and cancelling a timer waits for that  *)
(* lock.  Where the code's locks can deadlock, PostgreSQL ends one side:   *)
(* the tick's handler fails and its timer stays, or the request is lost.   *)
(* A tick taking several timers is modelled as ticks taking one each.      *)
(***************************************************************************)
EXTENDS Naturals, Sequences, FiniteSets

CONSTANTS
    Workers,     \* ticks that may be under way at a time
    Requests,    \* requests that may be under way at a time
    Owners,      \* firm owners and administrators
    Assigned,    \* the lawyer of the inquiry's matter, if any
    Attorneys,   \* active users with the attorney role
    Messages,    \* what a message may look like to the two detectors
    Rotas,       \* who may be found on call: records of primary, backup, staff
    MaxAlerts    \* bound: alerts ever raised on the inquiry

VARIABLES
    status,      \* of the session
    unack,       \* the session's emergency_unacknowledged mark
    alerts,      \* alerts in the order they were raised
    timers,      \* alerts with an escalation timer that is neither run nor cancelled
    tick,        \* what each tick has taken and read
    request      \* what each request is doing and has read

vars == <<status, unack, alerts, timers, tick, request>>

Tracks == {"safety", "urgent_legal", "deadline_risk"}
Categories == {"safety_dv", "safety_threat", "safety_self_harm", "urgent_custody_or_arrest",
               "urgent_court_soon", "urgent_served", "urgent_lockout", "deadline_risk"}
\* phrases and classes: the categories a phrase of the lists and the classifier name.
MessageType == [phrases : SUBSET Categories, classes : SUBSET Categories, safetyFlag : BOOLEAN]
Rank == [safety |-> 1, urgent_legal |-> 2, deadline_risk |-> 3]

EmergencyAssumption ==
    /\ MaxAlerts \in Nat
    /\ Messages \subseteq MessageType
    /\ \A r \in Rotas : DOMAIN r = {"primary", "backup", "staff"}

Users == Owners \cup Assigned \cup Attorneys
            \cup UNION {r.primary \cup r.backup \cup r.staff : r \in Rotas}
AlertType == [track : Tracks, paged : SUBSET Users, step : 0..3,
              acknowledged : BOOLEAN, downgraded : BOOLEAN]
Statuses == {"active", "interrupted", "paused_emergency", "closed", "not_an_inquiry"}
Alerts == DOMAIN alerts
None == [op |-> "none"]

Open(a) == ~alerts[a].acknowledged /\ ~alerts[a].downgraded
Taking(w) == IF tick[w] = None THEN 0 ELSE tick[w].alert
Taken == {Taking(w) : w \in Workers}
HeldByStaff == {request[p].alert : p \in {q \in Requests : request[q].op = "downgrade"}}

Init ==
    /\ status = "active"
    /\ unack = FALSE
    /\ alerts = <<>> /\ timers = {}
    /\ tick = [w \in Workers |-> None]
    /\ request = [p \in Requests |-> None]

-----------------------------------------------------------------------------
(* Whom an alert pages.                                                    *)

FirstNonEmpty(groups) ==
    LET some == {i \in DOMAIN groups : groups[i] # {}}
    IN IF some = {} THEN {} ELSE groups[CHOOSE i \in some : \A j \in some : i <= j]

\* Steps beyond the third page the whole chain again, as the third does.
EscalationStep(step, onCall, track) ==
    LET chain == CASE step = 0 -> onCall.primary
                                    \cup (IF track = "safety" THEN onCall.staff ELSE {})
                   [] step = 1 -> onCall.backup
                   [] step = 2 -> Owners
                   [] OTHER -> onCall.primary \cup onCall.staff \cup onCall.backup \cup Owners
    IN FirstNonEmpty(<<chain, Owners>>)

NextStep(step) == IF step < 3 THEN step + 1 ELSE 3

PageFor(track, onCall) ==
    IF track = "deadline_risk"
    THEN FirstNonEmpty(<<Assigned, onCall.primary, Attorneys, Owners>>)
    ELSE EscalationStep(0, onCall, track)

\* An alert nobody could be paged for gets neither a flag nor a timer.
Escalates(a) == alerts[a].track # "deadline_risk" /\ alerts[a].paged # {}

-----------------------------------------------------------------------------
(* Requests: what is read first, what is written at the commit.            *)

Idle(p) == request[p] = None
Starts(p, r) ==
    /\ Idle(p)
    /\ request' = [request EXCEPT ![p] = r]
    /\ UNCHANGED <<status, unack, alerts, timers, tick>>
Ends(p) == request' = [request EXCEPT ![p] = None]

TrackFor(category) ==
    CASE category \in {"safety_dv", "safety_threat", "safety_self_harm"} -> "safety"
      [] category = "deadline_risk" -> "deadline_risk"
      [] OTHER -> "urgent_legal"
\* detectEmergencies: either detector counts, and the classifier's flag alone too.
Detected(message) ==
    {TrackFor(c) : c \in message.phrases \cup message.classes}
        \cup (IF message.safetyFlag THEN {"safety"} ELSE {})

\* A message in which emergencies are detected.
Receive(p, message) ==
    /\ Len(alerts) < MaxAlerts /\ Detected(message) # {}
    /\ Starts(p, [op |-> "message", detected |-> Detected(message),
                  open |-> {alerts[a].track : a \in {b \in Alerts : Open(b)}}])

NewAlert(track, onCall) ==
    [track |-> track, paged |-> PageFor(track, onCall), step |-> 0,
     acknowledged |-> FALSE, downgraded |-> FALSE]

\* One alert per track, the gravest first.
ByRank(tracks) ==
    [i \in 1..Cardinality(tracks) |->
        CHOOSE t \in tracks : Cardinality({u \in tracks : Rank[u] <= Rank[t]}) = i]

RaiseEmergency(p) ==
    /\ request[p].op = "message"
    /\ LET new == request[p].detected \ request[p].open
           order == ByRank(new)
       IN /\ Len(alerts) + Len(order) <= MaxAlerts
          /\ \E onCall \in Rotas :
                alerts' = alerts \o [i \in DOMAIN order |-> NewAlert(order[i], onCall)]
          /\ timers' = timers \cup {a \in DOMAIN alerts' \ Alerts :
                            alerts'[a].track # "deadline_risk" /\ alerts'[a].paged # {}}
          /\ status' = IF "safety" \in new THEN "paused_emergency" ELSE status
    /\ Ends(p)
    /\ UNCHANGED <<unack, tick>>

Acknowledge(p, a) ==
    /\ ~alerts[a].acknowledged
    /\ Starts(p, [op |-> "acknowledge", alert |-> a])

\* Seeded bug: acknowledging cancels the session's timers, not the alert's.
CommitAcknowledgeSession(p) ==
    /\ request[p].op = "acknowledge"
    /\ LET a == request[p].alert
       IN /\ a \notin Taken \cup HeldByStaff
          /\ alerts' = [alerts EXCEPT ![a].acknowledged = TRUE]
          /\ timers' = {}
    /\ unack' = FALSE
    /\ Ends(p)
    /\ UNCHANGED <<status, tick>>

CommitAcknowledge(p) ==
    /\ request[p].op = "acknowledge"
    /\ LET a == request[p].alert
       IN /\ a \notin Taken \cup HeldByStaff
          /\ alerts' = [alerts EXCEPT ![a].acknowledged = TRUE]
          /\ timers' = timers \ {a}
    /\ unack' = FALSE
    /\ Ends(p)
    /\ UNCHANGED <<status, tick>>

\* Up to its question which safety alerts are left; two staff members
\* downgrading the same alert do so one after the other.
Downgrade(p, a) ==
    /\ ~alerts[a].downgraded
    /\ a \notin Taken \cup HeldByStaff
    /\ Starts(p, [op |-> "downgrade", alert |-> a,
                  stillOpen |-> \E b \in Alerts \ {a} :
                        alerts[b].track = "safety" /\ ~alerts[b].downgraded])

CommitDowngrade(p) ==
    /\ request[p].op = "downgrade"
    /\ LET a == request[p].alert
       IN /\ alerts' = [alerts EXCEPT ![a].downgraded = TRUE]
          /\ timers' = timers \ {a}
          /\ IF alerts[a].track = "safety" /\ ~request[p].stillOpen
             THEN status' = "active" /\ unack' = FALSE
             ELSE UNCHANGED <<status, unack>>
    /\ Ends(p)
    /\ UNCHANGED tick

\* A call that dropped, and a lawyer's decline, look at the status first.
MarkInterrupted(p) == status = "active" /\ Starts(p, [op |-> "interrupted"])
Decline(p) ==
    /\ status \notin {"paused_emergency", "closed"}
    /\ Starts(p, [op |-> "closed"])
CommitStatus(p) ==
    /\ request[p].op \in {"interrupted", "closed"}
    /\ status' = request[p].op
    /\ Ends(p)
    /\ UNCHANGED <<unack, alerts, timers, tick>>

CloseAsNotAnInquiry ==
    /\ status' = "not_an_inquiry"
    /\ UNCHANGED <<unack, alerts, timers, tick, request>>

\* The victim of a deadlock with a tick: nothing of it is kept.
RequestLost(p) ==
    /\ request[p].op = "acknowledge" /\ request[p].alert \in Taken
    /\ Ends(p)
    /\ UNCHANGED <<status, unack, alerts, timers, tick>>

-----------------------------------------------------------------------------
(* The worker's tick.                                                      *)

TakeTimer(w, a) ==
    /\ tick[w] = None
    /\ a \in timers \ (Taken \cup HeldByStaff)
    /\ tick' = [tick EXCEPT ![w] = [op |-> "escalate", alert |-> a,
                                    open |-> Open(a), step |-> alerts[a].step]]
    /\ UNCHANGED <<status, unack, alerts, timers, request>>

HandleEscalation(w) ==
    /\ tick[w] # None
    /\ LET a == tick[w].alert
           next == NextStep(tick[w].step)
       IN IF tick[w].open
          THEN /\ \E onCall \in Rotas :
                    alerts' = [alerts EXCEPT
                        ![a].step = next,
                        ![a].paged = @ \cup EscalationStep(next, onCall, alerts[a].track)]
               /\ unack' = (unack \/ next >= 2)
               /\ timers' = timers      \* the timer it ran and the one it set
          ELSE timers' = timers \ {a} /\ UNCHANGED <<alerts, unack>>
    /\ tick' = [tick EXCEPT ![w] = None]
    /\ UNCHANGED <<status, request>>

HandlerFails(w) ==
    /\ tick[w] # None
    /\ tick' = [tick EXCEPT ![w] = None]
    /\ UNCHANGED <<status, unack, alerts, timers, request>>

-----------------------------------------------------------------------------
Request(p) ==
    \/ \E message \in Messages : Receive(p, message)
    \/ RaiseEmergency(p)
    \/ \E a \in Alerts : Acknowledge(p, a) \/ Downgrade(p, a)
    \/ CommitAcknowledge(p)
    \/ CommitDowngrade(p)
    \/ MarkInterrupted(p)
    \/ Decline(p)
    \/ CommitStatus(p)
    \/ RequestLost(p)
Tick(w) ==
    \/ \E a \in Alerts : TakeTimer(w, a)
    \/ HandleEscalation(w)
    \/ HandlerFails(w)
Next ==
    \/ \E p \in Requests : Request(p)
    \/ \E w \in Workers : Tick(w)
    \/ CloseAsNotAnInquiry

Spec == Init /\ [][Next]_vars

\* Requests under way finish or are lost; the tick runs every minute, takes a
\* due timer in the end, and its handler does not fail for ever (only deadlocks
\* make it fail, and staff acknowledge an alert finitely often).
Fairness ==
    /\ \A p \in Requests : WF_vars(CommitAcknowledge(p)) /\ WF_vars(CommitDowngrade(p))
    /\ \A a \in 1..MaxAlerts : SF_vars(a \in Alerts /\ \E w \in Workers : TakeTimer(w, a))
    /\ \A w \in Workers : WF_vars(HandleEscalation(w))
    /\ <>[][\A w \in Workers : ~HandlerFails(w)]_vars
FairSpec == Spec /\ Fairness

-----------------------------------------------------------------------------
(* Properties.                                                             *)

TypeOK ==
    /\ status \in Statuses
    /\ unack \in BOOLEAN
    /\ alerts \in Seq(AlertType) /\ Len(alerts) <= MaxAlerts
    /\ timers \subseteq Alerts
    /\ \A w \in Workers : tick[w] # None => tick[w].alert \in Alerts
    /\ \A p \in Requests : request[p].op \in {"acknowledge", "downgrade"}
                                => request[p].alert \in Alerts

\* Until someone acknowledges or downgrades it, an alert somebody was paged
\* for has a timer that will page further people: however messages, ticks,
\* failed handlers and staff interleave, the chain is never dropped.
EscalationGoesOn ==
    \A a \in Alerts : Escalates(a) /\ Open(a) => a \in timers

\* Once an alert is acknowledged or downgraded nobody is paged for it again:
\* no timer of it is left, not even one a tick was setting at the time.
AnsweredMeansQuiet ==
    [][\A a \in Alerts : ~Open(a) => alerts'[a].paged = alerts[a].paged]_vars

\* An alert somebody was paged for is answered or gets to the owners.
ReachesOwners ==
    \A a \in 1..MaxAlerts :
        (a \in Alerts /\ Escalates(a))
            ~> (a \in Alerts /\ (~Open(a) \/ Owners \subseteq alerts[a].paged))

\* "Intake questions pause": while a safety alert is neither downgraded nor
\* its inquiry closed, the session is paused.
SafetyPausesIntake ==
    (\E a \in Alerts : alerts[a].track = "safety" /\ ~alerts[a].downgraded)
        => status \in {"paused_emergency", "closed", "not_an_inquiry"}
=============================================================================
