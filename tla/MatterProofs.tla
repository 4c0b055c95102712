---------------------------- MODULE MatterProofs ----------------------------
(***************************************************************************)
(* The theorems about what happens to an inquiry until it is a matter: the *)
(* acceptance rules, the conversation, the assignment and its scoring, and *)
(* with them what MCMatters lists: for any requests, callers, lawyers and  *)
(* bounds.  Where a request acts on what it read earlier, only the state   *)
(* the records are in keeps it from harm.                                  *)
(***************************************************************************)
EXTENDS MCMatters, ConflictGateProofs

-----------------------------------------------------------------------------
(* Acceptance of an inquiry.                                               *)

FitOutcomes == {"fit", "borderline", "no_fit"}
Decisions == {"accept", "decline", "more_info"}
EvaluateReq == [op : {"evaluate"}, outcome : FitOutcomes]
DecideReq == [op : {"decide"}, evaluation : Nat, decision : Decisions]

FitTyped ==
    /\ evaluations \in Seq(FIT!EvaluationType)
    /\ reviews \subseteq DOMAIN evaluations
    /\ deciding \in [Requests -> {FIT!Idle} \cup EvaluateReq \cup DecideReq]

\* A lawyer decides on a borderline evaluation, whoever else does meanwhile.
Reviewed(r) ==
    r.op = "decide" =>
        /\ r.evaluation \in DOMAIN evaluations
        /\ evaluations[r.evaluation].outcome = "borderline"

FitInv ==
    /\ FitTyped /\ FIT!BorderlineIsReviewed
    /\ \A p \in Requests : Reviewed(deciding[p])

LEMMA FitRequest ==
    ASSUME FitTyped, NEW p \in Requests
    PROVE  /\ deciding[p].op = "evaluate" => deciding[p] \in EvaluateReq
           /\ deciding[p].op = "decide" => deciding[p] \in DecideReq
  BY DEF FitTyped, FIT!Idle, EvaluateReq, DecideReq

\* A request that ends, or begins, while the evaluations stay.
LEMMA FitRequestChanges ==
    ASSUME FitInv, NEW p \in Requests, NEW r \in {FIT!Idle} \cup EvaluateReq \cup DecideReq,
           Reviewed(r), deciding' = [deciding EXCEPT ![p] = r], UNCHANGED <<evaluations, reviews>>
    PROVE  FitInv'
  <1>1. FitTyped' /\ FIT!BorderlineIsReviewed'
    BY DEF FitInv, FitTyped, FIT!BorderlineIsReviewed
  <1>2. \A q \in Requests : Reviewed(deciding'[q])
    BY DEF FitInv, FitTyped
  <1>3. \A q \in Requests : Reviewed(deciding[q])'
    BY <1>2 DEF Reviewed
  <1> QED
    BY <1>1, <1>3 DEF FitInv

LEMMA FitStays ==
    ASSUME FitInv, [FIT!Next]_(FIT!vars)
    PROVE  FitInv'
  <1>0. FIT!Idle \in {FIT!Idle} \cup EvaluateReq \cup DecideReq /\ Reviewed(FIT!Idle)
    BY DEF Reviewed, FIT!Idle
  <1>1. ASSUME NEW p \in Requests, FIT!ReadForFit(p) PROVE FitInv'
    <2> PICK res \in FIT!Results : FIT!Starts(p, [op |-> "evaluate",
             outcome |-> FIT!DecideFit(res.fails, res.unknown, res.sure, inquiry)])
      BY <1>1 DEF FIT!ReadForFit
    <2> DEFINE o == FIT!DecideFit(res.fails, res.unknown, res.sure, inquiry)
               r == [op |-> "evaluate", outcome |-> o]
    <2>1. o \in FitOutcomes
      BY DEF FIT!DecideFit, FitOutcomes
    <2>2. deciding' = [deciding EXCEPT ![p] = r] /\ UNCHANGED <<evaluations, reviews>>
      BY DEF FIT!Starts
    <2> HIDE DEF o
    <2>3. r \in EvaluateReq /\ Reviewed(r)
      BY <2>1 DEF EvaluateReq, Reviewed
    <2> HIDE DEF r
    <2> QED
      BY <2>2, <2>3, FitRequestChanges
  <1>2. ASSUME NEW p \in Requests, NEW e \in DOMAIN evaluations, NEW decision \in Decisions,
               FIT!ReadForDecision(p, e, decision)
        PROVE  FitInv'
    <2> DEFINE r == [op |-> "decide", evaluation |-> e, decision |-> decision]
    <2>1. /\ evaluations[e].outcome = "borderline"
          /\ deciding' = [deciding EXCEPT ![p] = r] /\ UNCHANGED <<evaluations, reviews>>
      BY <1>2 DEF FIT!ReadForDecision, FIT!Starts
    <2>2. e \in Nat
      BY DEF FitInv, FitTyped
    <2>3. r \in DecideReq /\ Reviewed(r)
      BY <2>1, <2>2 DEF DecideReq, Reviewed
    <2> HIDE DEF r
    <2> QED
      BY <2>1, <2>3, FitRequestChanges
  <1>3. ASSUME NEW p \in Requests, FIT!EvaluateFit(p) PROVE FitInv'
    <2> DEFINE o == deciding[p].outcome
               new == [outcome |-> o, decision |-> "none"]
               n == Len(evaluations) + 1
    <2>1. /\ evaluations' = Append(evaluations, new)
          /\ reviews' = IF o = "borderline" THEN reviews \cup {n} ELSE reviews
          /\ deciding' = [deciding EXCEPT ![p] = FIT!Idle]
      BY <1>3 DEF FIT!EvaluateFit, FIT!Ends
    <2>2. o \in FitOutcomes
      BY <1>3, FitRequest DEF FIT!EvaluateFit, FitInv, EvaluateReq
    <2> HIDE DEF o
    <2>3. new \in FIT!EvaluationType /\ new.outcome = o /\ new.decision = "none"
      BY <2>2 DEF FIT!EvaluationType, FitOutcomes
    <2> HIDE DEF new
    <2>4. /\ evaluations \in Seq(FIT!EvaluationType) /\ reviews \subseteq DOMAIN evaluations
      BY DEF FitInv, FitTyped
    <2>5. /\ evaluations' \in Seq(FIT!EvaluationType)
          /\ DOMAIN evaluations' = 1..n /\ DOMAIN evaluations = 1..(n - 1) /\ n \in Nat \ {0}
          /\ \A e \in DOMAIN evaluations : evaluations'[e] = evaluations[e]
          /\ evaluations'[n] = new
      BY <2>1, <2>3, <2>4
    <2> HIDE DEF n
    <2>6. reviews' \subseteq DOMAIN evaluations'
      BY <2>1, <2>4, <2>5
    <2>7. FitTyped'
      BY <1>0, <2>1, <2>5, <2>6 DEF FitInv, FitTyped
    <2>8. FIT!BorderlineIsReviewed'
      <3> SUFFICES ASSUME NEW e \in DOMAIN evaluations'
                   PROVE  (evaluations'[e].outcome = "borderline" /\ evaluations'[e].decision = "none")
                              <=> e \in reviews'
        BY DEF FIT!BorderlineIsReviewed
      <3>1. CASE e = n
        BY <2>1, <2>3, <2>4, <2>5, <3>1
      <3>2. CASE e # n
        <4>1. e \in DOMAIN evaluations
          BY <2>5, <3>2
        <4> QED
          BY <2>1, <2>5, <3>2, <4>1 DEF FitInv, FIT!BorderlineIsReviewed
      <3> QED
        BY <3>1, <3>2
    <2>9. \A q \in Requests : deciding'[q] = FIT!Idle \/ deciding'[q] = deciding[q]
      BY <2>1 DEF FitInv, FitTyped
    <2>10. ASSUME NEW q \in Requests PROVE Reviewed(deciding[q])'
      BY <1>0, <2>5, <2>9 DEF FitInv, Reviewed, FIT!Idle
    <2> QED
      BY <2>7, <2>8, <2>10 DEF FitInv
  <1>4. ASSUME NEW p \in Requests, FIT!DecideBorderline(p) PROVE FitInv'
    <2> PICK r : r = deciding[p]
      OBVIOUS
    <2> DEFINE e == r.evaluation
    <2>1. /\ r.op = "decide"
          /\ evaluations' = [evaluations EXCEPT ![e].decision = r.decision]
          /\ reviews' = reviews \ {e}
          /\ deciding' = [deciding EXCEPT ![p] = FIT!Idle]
      BY <1>4 DEF FIT!DecideBorderline, FIT!Ends, FIT!Closes
    <2>2. r \in DecideReq /\ Reviewed(r)
      BY <2>1, FitRequest DEF FitInv
    <2>3. /\ e \in DOMAIN evaluations
          /\ r.decision \in Decisions /\ r.decision # "none"
      BY <2>1, <2>2 DEF Reviewed, DecideReq, Decisions
    <2>4. evaluations \in Seq(FIT!EvaluationType) /\ evaluations[e] \in FIT!EvaluationType
      BY <2>3 DEF FitInv, FitTyped
    <2> DEFINE done == [evaluations[e] EXCEPT !.decision = r.decision]
    <2>5. done \in FIT!EvaluationType /\ done.outcome = evaluations[e].outcome /\ done.decision = r.decision
      BY <2>3, <2>4 DEF FIT!EvaluationType, Decisions
    <2>6. evaluations' = [evaluations EXCEPT ![e] = done]
      BY <2>1
    <2> HIDE DEF done
    <2>7. /\ evaluations' \in Seq(FIT!EvaluationType) /\ DOMAIN evaluations' = DOMAIN evaluations
          /\ evaluations'[e] = done
          /\ \A f \in DOMAIN evaluations : f # e => evaluations'[f] = evaluations[f]
      BY <2>3, <2>4, <2>5, <2>6
    <2> HIDE DEF e
    <2>8. FitTyped'
      BY <1>0, <2>1, <2>7 DEF FitInv, FitTyped
    <2>9. e \notin reviews'
      BY <2>1
    <2>10. FIT!BorderlineIsReviewed'
      <3> SUFFICES ASSUME NEW f \in DOMAIN evaluations
                   PROVE  (evaluations'[f].outcome = "borderline" /\ evaluations'[f].decision = "none")
                              <=> f \in reviews'
        BY <2>7 DEF FIT!BorderlineIsReviewed
      <3>1. CASE f = e
        BY <2>3, <2>5, <2>7, <2>9, <3>1
      <3>2. CASE f # e
        BY <2>1, <2>3, <2>7, <3>2 DEF FitInv, FIT!BorderlineIsReviewed
      <3> QED
        BY <3>1, <3>2
    <2>11. \A q \in Requests : deciding'[q] = FIT!Idle \/ deciding'[q] = deciding[q]
      BY <2>1 DEF FitInv, FitTyped
    <2>12. ASSUME NEW q \in Requests PROVE Reviewed(deciding[q])'
      BY <1>0, <2>3, <2>5, <2>7, <2>11 DEF FitInv, Reviewed, FIT!Idle
    <2> QED
      BY <2>8, <2>10, <2>12 DEF FitInv
  <1>5. ASSUME NEW p \in Requests, FIT!RequestFails(p) PROVE FitInv'
    BY <1>0, <1>5, FitRequestChanges DEF FIT!RequestFails, FIT!Ends
  <1>6. CASE FIT!Elsewhere
    BY <1>6 DEF FIT!Elsewhere, FitInv, FitTyped, FIT!BorderlineIsReviewed, Reviewed
  <1>7. CASE UNCHANGED FIT!vars
    BY <1>7 DEF FIT!vars, FitInv, FitTyped, FIT!BorderlineIsReviewed, Reviewed
  <1> QED
    BY <1>1, <1>2, <1>3, <1>4, <1>5, <1>6, <1>7 DEF FIT!Next, Decisions

\* What the rules cannot settle is before a lawyer until a decision on it is
\* recorded, whatever is decided on other evaluations and by whomever else.
LEMMA BorderlineOfRules == FIT!Spec => []FIT!BorderlineIsReviewed
  <1>1. FIT!Init => FitInv
    BY DEF FIT!Init, FitInv, FitTyped, FIT!BorderlineIsReviewed, Reviewed, FIT!Idle
  <1>2. FitInv /\ [FIT!Next]_(FIT!vars) => FitInv'
    BY FitStays
  <1>3. FitInv => FIT!BorderlineIsReviewed
    BY DEF FitInv
  <1> QED
    BY <1>1, <1>2, <1>3, PTL DEF FIT!Spec

-----------------------------------------------------------------------------
(* A conversation before a matter is opened.                               *)

MessageCall == [op : {"message"}, kind : TALK!Kinds, session : Nat, referral : Nat]
DetailsCall == [op : {"details"}, session : Nat, answers : SUBSET Answers]
PrefsCall == [op : {"prefs"}, session : Nat, prefs : TALK!PrefsType]
Calls == {TALK!NoCall} \cup MessageCall \cup DetailsCall \cup PrefsCall

\* The person saw the disclosures and a check of names they gave came back clear.
Checked(s) == s.disclosures /\ s.everClear /\ s.checked # 0

\* A result is about names that were given, and a clear one is remembered.
SessionSound(s) ==
    /\ s.checked <= s.names
    /\ s.result # "none" => s.checked # 0
    /\ s.result \in {"clear", "attorney_cleared"} => s.everClear
    /\ s.answers # {} => Checked(s)

\* A request is about a session there is; one about details was let through.
CallSound(c) ==
    /\ c.op = "message" => c.session \in 0..Len(sessions) /\ c.referral \in 0..Len(sessions)
    /\ c.op = "details" => c.session \in DOMAIN sessions /\ Checked(sessions[c.session])
    /\ c.op = "prefs" => c.session \in DOMAIN sessions

TalkInv ==
    /\ sessions \in Seq(TALK!SessionType)
    /\ caller \in [Callers -> Calls]
    /\ \A s \in DOMAIN sessions : SessionSound(sessions[s])
    /\ \A p \in Callers : CallSound(caller[p])

LEMMA CallByOperation ==
    ASSUME NEW c \in Calls
    PROVE  /\ c.op = "message" => c \in MessageCall
           /\ c.op = "details" => c \in DetailsCall
           /\ c.op = "prefs" => c \in PrefsCall
  BY DEF Calls, TALK!NoCall, MessageCall, DetailsCall, PrefsCall

LEMMA NoCallIsSound == TALK!NoCall \in Calls /\ CallSound(TALK!NoCall)
  BY DEF Calls, CallSound, TALK!NoCall

\* A request begins or ends.
LEMMA CallChanges ==
    ASSUME TalkInv, NEW p \in Callers, NEW c \in Calls, CallSound(c),
           caller' = [caller EXCEPT ![p] = c], UNCHANGED sessions
    PROVE  TalkInv'
  <1>1. \A q \in Callers : CallSound(caller'[q])
    BY DEF TalkInv
  <1>2. \A q \in Callers : CallSound(caller[q])'
    BY <1>1 DEF CallSound
  <1> QED
    BY <1>2 DEF TalkInv

\* Requests stay sound, or end, as long as no session is lost nor its check.
LEMMA CallsStaySound ==
    ASSUME TalkInv, sessions' \in Seq(TALK!SessionType),
           DOMAIN sessions \subseteq DOMAIN sessions',
           \A s \in DOMAIN sessions : Checked(sessions[s]) => Checked(sessions'[s]),
           caller' = caller \/ \E p \in Callers : caller' = [caller EXCEPT ![p] = TALK!NoCall]
    PROVE  caller' \in [Callers -> Calls] /\ \A p \in Callers : CallSound(caller[p])'
  <1>1. caller' \in [Callers -> Calls] /\ \A p \in Callers : caller'[p] = TALK!NoCall \/ caller'[p] = caller[p]
    BY NoCallIsSound DEF TalkInv
  <1>2. Len(sessions) <= Len(sessions')
    BY DEF TalkInv
  <1>3. ASSUME NEW p \in Callers, caller'[p] = caller[p] PROVE CallSound(caller[p])'
    BY <1>2, <1>3 DEF TalkInv, CallSound, Checked
  <1>4. ASSUME NEW p \in Callers, caller'[p] = TALK!NoCall PROVE CallSound(caller[p])'
    BY <1>4 DEF CallSound, TALK!NoCall
  <1> QED
    BY <1>1, <1>3, <1>4

\* A session changes.
LEMMA SessionChanges ==
    ASSUME TalkInv, NEW s \in DOMAIN sessions, NEW t \in TALK!SessionType, SessionSound(t),
           Checked(sessions[s]) => Checked(t), sessions' = [sessions EXCEPT ![s] = t],
           caller' = caller \/ \E p \in Callers : caller' = [caller EXCEPT ![p] = TALK!NoCall]
    PROVE  TalkInv'
  <1>1. sessions' \in Seq(TALK!SessionType) /\ DOMAIN sessions' = DOMAIN sessions
    BY DEF TalkInv
  <1>2. \A u \in DOMAIN sessions : sessions'[u] = IF u = s THEN t ELSE sessions[u]
    BY DEF TalkInv
  <1> QED
    BY <1>1, <1>2, CallsStaySound DEF TalkInv

\* A session begins.
LEMMA SessionBegins ==
    ASSUME TalkInv, NEW t \in TALK!SessionType, SessionSound(t), sessions' = Append(sessions, t),
           caller' = caller \/ \E p \in Callers : caller' = [caller EXCEPT ![p] = TALK!NoCall]
    PROVE  TalkInv'
  <1> DEFINE n == Len(sessions) + 1
  <1>1. /\ sessions' \in Seq(TALK!SessionType)
        /\ DOMAIN sessions' = 1..n /\ DOMAIN sessions = 1..(n - 1) /\ n \in Nat \ {0}
        /\ \A u \in DOMAIN sessions : sessions'[u] = sessions[u]
        /\ sessions'[n] = t
    BY DEF TalkInv
  <1> HIDE DEF n
  <1>2. \A u \in DOMAIN sessions' : u = n \/ u \in DOMAIN sessions
    BY <1>1
  <1>3. caller' \in [Callers -> Calls] /\ \A p \in Callers : CallSound(caller[p])'
    BY <1>1, CallsStaySound
  <1> QED
    BY <1>1, <1>2, <1>3 DEF TalkInv

LEMMA NewSessionIsSound ==
    ASSUME MaxNames \in Nat, NEW status \in {"active", "referral_awaiting_contact"}, NEW t,
           t = TALK!NewSession(status, FALSE)
    PROVE  t \in TALK!SessionType /\ SessionSound(t)
  <1>1. [sms |-> "unset", consent |-> FALSE, email |-> "unset"] \in TALK!PrefsType
    BY DEF TALK!PrefsType
  <1>2. t.checked = 0 /\ t.names = 0 /\ t.result = "none" /\ t.answers = {}
    BY DEF TALK!NewSession
  <1>3. t \in TALK!SessionType
    BY <1>1 DEF TALK!NewSession, TALK!SessionType, TALK!Outcomes
  <1>4. ASSUME NEW s, s.checked = 0, s.names = 0, s.result = "none", s.answers = {}
        PROVE  SessionSound(s)
    <2>1. s.checked <= s.names
      BY <1>4
    <2> QED
      BY <1>4, <2>1 DEF SessionSound
  <1> QED
    BY <1>2, <1>3, <1>4

LEMMA ReceivedIsSound ==
    ASSUME MaxNames \in Nat, NEW s \in TALK!SessionType, SessionSound(s), NEW kind \in TALK!Kinds
    PROVE  /\ TALK!Received(s, kind) \in TALK!SessionType /\ SessionSound(TALK!Received(s, kind))
           /\ Checked(s) => Checked(TALK!Received(s, kind))
  <1> PICK t : t = TALK!Received(s, kind)
    OBVIOUS
  <1> DEFINE sms == IF kind = "stop" THEN "off" ELSE s.prefs.sms
             prefs == [s.prefs EXCEPT !.sms = sms]
             status == IF kind = "emergency" THEN "paused_emergency"
                       ELSE IF s.status = "referral_awaiting_contact" THEN "active" ELSE s.status
             clock == s.clock \/ kind = "text"
             stopped == s.followUpStopped \/ kind = "stop"
  <1>1. prefs \in TALK!PrefsType
    BY DEF TALK!SessionType, TALK!PrefsType
  <1>2. status \in {"active", "interrupted", "paused_emergency", "referral_awaiting_contact"}
    BY DEF TALK!SessionType
  <1>3. clock \in BOOLEAN /\ stopped \in BOOLEAN
    OBVIOUS
  <1>4. t = [s EXCEPT !.status = status, !.thread = TRUE, !.clock = clock,
                      !.followUpStopped = stopped, !.prefs = prefs]
    BY DEF TALK!Received, TALK!SessionType
  <1> HIDE DEF prefs, status, clock, stopped
  <1>5. t \in TALK!SessionType
    BY <1>1, <1>2, <1>3, <1>4 DEF TALK!SessionType
  <1>6. /\ t.checked = s.checked /\ t.names = s.names /\ t.result = s.result
        /\ t.everClear = s.everClear /\ t.answers = s.answers /\ t.disclosures = s.disclosures
    BY <1>4 DEF TALK!SessionType
  <1> QED
    BY <1>5, <1>6 DEF SessionSound, Checked

LEMMA TalkStays ==
    ASSUME MaxNames \in Nat, TalkInv, [TALK!Next]_(TALK!vars)
    PROVE  TalkInv'
  <1>0. /\ sessions \in Seq(TALK!SessionType)
        /\ \A s \in DOMAIN sessions : /\ sessions[s] \in TALK!SessionType /\ SessionSound(sessions[s])
                                      /\ s \in Nat /\ s \in 0..Len(sessions)
    BY DEF TalkInv
  <1>1. ASSUME NEW p \in Callers, NEW kind \in TALK!Kinds, TALK!ReadForMessage(p, kind) PROVE TalkInv'
    <2> DEFINE s == TALK!SessionOfThread
               referral == IF s = 0 THEN TALK!WaitingReferral ELSE 0
               c == [op |-> "message", kind |-> kind, session |-> s, referral |-> referral]
    <2>1. s \in 0..Len(sessions) /\ s \in Nat
      <3> DEFINE mine == {u \in TALK!Sessions : sessions[u].thread}
      <3>1. mine = {} => s = 0
        BY DEF TALK!SessionOfThread
      <3>2. mine # {} => s \in mine
        <4> SUFFICES ASSUME mine # {} PROVE s \in mine
          OBVIOUS
        <4>1. s = CHOOSE u \in mine : \A other \in mine : other <= u
          BY DEF TALK!SessionOfThread
        <4>2. \E u \in mine : \A other \in mine : other <= u
          <5>1. mine \subseteq 0..Len(sessions) /\ Len(sessions) \in Nat
            BY <1>0 DEF TALK!Sessions
          <5> HIDE DEF mine
          <5> QED
            BY <5>1, GreatestNatural
        <4> HIDE DEF mine, s
        <4> QED
          BY <4>1, <4>2
      <3>3. \A u \in mine : u \in 0..Len(sessions) /\ u \in Nat
        BY <1>0 DEF TALK!Sessions
      <3> HIDE DEF mine, s
      <3> QED
        BY <1>0, <3>1, <3>2, <3>3
    <2>2. referral \in 0..Len(sessions) /\ referral \in Nat
      <3>1. TALK!WaitingReferral \in 0..Len(sessions) /\ TALK!WaitingReferral \in Nat
        BY <1>0 DEF TALK!WaitingReferral, TALK!Sessions
      <3> QED
        BY <1>0, <3>1
    <2>3. caller' = [caller EXCEPT ![p] = c] /\ UNCHANGED sessions
      BY <1>1 DEF TALK!ReadForMessage, TALK!Read
    <2> HIDE DEF s, referral
    <2>4. c \in Calls /\ CallSound(c)
      BY <2>1, <2>2 DEF Calls, MessageCall, CallSound
    <2> HIDE DEF c
    <2> QED
      BY <2>3, <2>4, CallChanges
  <1>2. ASSUME NEW p \in Callers, TALK!ReceiveInbound(p) PROVE TalkInv'
    <2> PICK c : c = caller[p]
      OBVIOUS
    <2> DEFINE s == IF c.session # 0 THEN c.session ELSE c.referral
    <2>1. /\ c.op = "message" /\ caller' = [caller EXCEPT ![p] = TALK!NoCall]
          /\ IF s # 0 THEN sessions' = [sessions EXCEPT ![s] = TALK!Received(@, c.kind)]
             ELSE sessions' = Append(sessions, TALK!Received(TALK!NewSession("active", FALSE), c.kind))
      BY <1>2 DEF TALK!ReceiveInbound, TALK!Is, TALK!Done
    <2>2. c \in MessageCall /\ CallSound(c)
      BY <2>1, CallByOperation DEF TalkInv
    <2>3. c.kind \in TALK!Kinds /\ s \in 0..Len(sessions)
      BY <2>1, <2>2 DEF MessageCall, CallSound
    <2> HIDE DEF s
    <2>4. CASE s # 0
      <3>1. s \in DOMAIN sessions
        BY <1>0, <2>3, <2>4
      <3> PICK t : t = TALK!Received(sessions[s], c.kind)
        OBVIOUS
      <3>2. sessions' = [sessions EXCEPT ![s] = t]
        BY <2>1, <2>4, <3>1
      <3>3. t \in TALK!SessionType /\ SessionSound(t) /\ (Checked(sessions[s]) => Checked(t))
        BY <1>0, <2>3, <3>1, ReceivedIsSound
      <3> QED
        BY <2>1, <3>1, <3>2, <3>3, SessionChanges
    <2>5. CASE s = 0
      <3> PICK new : new = TALK!NewSession("active", FALSE)
        OBVIOUS
      <3>1. new \in TALK!SessionType /\ SessionSound(new)
        BY NewSessionIsSound
      <3> PICK t : t = TALK!Received(new, c.kind)
        OBVIOUS
      <3>2. t \in TALK!SessionType /\ SessionSound(t)
        BY <2>3, <3>1, ReceivedIsSound
      <3>3. sessions' = Append(sessions, t)
        BY <2>1, <2>5
      <3> QED
        BY <2>1, <3>2, <3>3, SessionBegins
    <2> QED
      BY <2>4, <2>5
  <1>3. ASSUME NEW p \in Callers, NEW s \in DOMAIN sessions, NEW answer \in Answers,
               TALK!ReadForDetails(p, s, answer)
        PROVE  TalkInv'
    <2> DEFINE answers == sessions[s].answers \cup {answer}
               c == [op |-> "details", session |-> s, answers |-> answers]
    <2>1. /\ ~TALK!CaseDetailsLock(sessions[s])
          /\ caller' = [caller EXCEPT ![p] = c] /\ UNCHANGED sessions
      BY <1>3 DEF TALK!ReadForDetails, TALK!Read
    <2>2. Checked(sessions[s])
      BY <1>0, <2>1 DEF TALK!CaseDetailsLock, SessionSound, Checked
    <2>3. answers \in SUBSET Answers
      BY <1>0 DEF TALK!SessionType
    <2> HIDE DEF answers
    <2>4. c \in Calls /\ CallSound(c)
      BY <1>0, <2>2, <2>3 DEF Calls, DetailsCall, CallSound
    <2> HIDE DEF c
    <2> QED
      BY <2>1, <2>4, CallChanges
  <1>4. ASSUME NEW p \in Callers, NEW s \in DOMAIN sessions, NEW prefs \in TALK!PrefsType,
               TALK!Read(p, [op |-> "prefs", session |-> s, prefs |-> prefs])
        PROVE  TalkInv'
    <2> DEFINE c == [op |-> "prefs", session |-> s, prefs |-> prefs]
    <2>1. c \in Calls /\ CallSound(c)
      BY <1>0 DEF Calls, PrefsCall, CallSound
    <2>2. caller' = [caller EXCEPT ![p] = c] /\ UNCHANGED sessions
      BY <1>4 DEF TALK!Read
    <2> HIDE DEF c
    <2> QED
      BY <2>1, <2>2, CallChanges
  <1>5. ASSUME NEW p \in Callers, NEW s \in DOMAIN sessions, NEW given \in BOOLEAN,
               TALK!ReadForConsent(p, s, given)
        PROVE  TalkInv'
    <2> DEFINE prefs == sessions[s].prefs
               lifted == IF sessions[s].followUpStopped THEN prefs.sms ELSE "unset"
               new == IF given THEN [prefs EXCEPT !.consent = TRUE, !.sms = lifted]
                      ELSE [prefs EXCEPT !.sms = "off"]
    <2>1. prefs \in TALK!PrefsType
      BY <1>0 DEF TALK!SessionType
    <2>2. lifted \in {"unset", "off"}
      BY <2>1 DEF TALK!PrefsType
    <2>3. TALK!Read(p, [op |-> "prefs", session |-> s, prefs |-> new])
      BY <1>5 DEF TALK!ReadForConsent
    <2> HIDE DEF prefs, lifted
    <2>4. new \in TALK!PrefsType
      BY <2>1, <2>2 DEF TALK!PrefsType
    <2> HIDE DEF new
    <2> QED
      BY <1>4, <2>3, <2>4
  <1>6. ASSUME NEW p \in Callers, NEW s \in DOMAIN sessions, NEW channel \in {"email", "sms"},
               TALK!ReadForSafeContact(p, s, channel)
        PROVE  TalkInv'
    <2> DEFINE prefs == sessions[s].prefs
               new == IF channel = "email" THEN [prefs EXCEPT !.email = "off"]
                      ELSE [prefs EXCEPT !.sms = "off"]
    <2>1. prefs \in TALK!PrefsType
      BY <1>0 DEF TALK!SessionType
    <2>2. TALK!Read(p, [op |-> "prefs", session |-> s, prefs |-> new])
      BY <1>6 DEF TALK!ReadForSafeContact
    <2> HIDE DEF prefs
    <2>3. new \in TALK!PrefsType
      BY <2>1 DEF TALK!PrefsType
    <2> HIDE DEF new
    <2> QED
      BY <1>4, <2>2, <2>3
  <1>7. ASSUME NEW p \in Callers, TALK!RecordCaseDetails(p) PROVE TalkInv'
    <2> PICK c : c = caller[p]
      OBVIOUS
    <2> DEFINE t == [sessions[c.session] EXCEPT !.answers = c.answers]
    <2>1. /\ c.op = "details" /\ caller' = [caller EXCEPT ![p] = TALK!NoCall]
          /\ sessions' = [sessions EXCEPT ![c.session] = t]
      BY <1>7 DEF TALK!RecordCaseDetails, TALK!Is, TALK!Done
    <2>2. c \in DetailsCall /\ CallSound(c)
      BY <2>1, CallByOperation DEF TalkInv
    <2>3. c.session \in DOMAIN sessions /\ c.answers \in SUBSET Answers /\ Checked(sessions[c.session])
      BY <2>1, <2>2 DEF DetailsCall, CallSound
    <2> PICK s : s = sessions[c.session]
      OBVIOUS
    <2>4. s \in TALK!SessionType /\ SessionSound(s)
      BY <1>0, <2>3
    <2>5. t = [s EXCEPT !.answers = c.answers]
      OBVIOUS
    <2> HIDE DEF t
    <2>6. t \in TALK!SessionType /\ SessionSound(t) /\ Checked(t)
      BY <2>3, <2>4, <2>5 DEF TALK!SessionType, SessionSound, Checked
    <2> QED
      BY <2>1, <2>3, <2>6, SessionChanges
  <1>8. ASSUME NEW p \in Callers, TALK!WritePrefs(p) PROVE TalkInv'
    <2> PICK c : c = caller[p]
      OBVIOUS
    <2> DEFINE t == [sessions[c.session] EXCEPT !.prefs = c.prefs]
    <2>1. /\ c.op = "prefs" /\ caller' = [caller EXCEPT ![p] = TALK!NoCall]
          /\ sessions' = [sessions EXCEPT ![c.session] = t]
      BY <1>8 DEF TALK!WritePrefs, TALK!Is, TALK!Done
    <2>2. c \in PrefsCall /\ CallSound(c)
      BY <2>1, CallByOperation DEF TalkInv
    <2>3. c.session \in DOMAIN sessions /\ c.prefs \in TALK!PrefsType
      BY <2>1, <2>2 DEF PrefsCall, CallSound
    <2> PICK s : s = sessions[c.session]
      OBVIOUS
    <2>4. s \in TALK!SessionType /\ SessionSound(s)
      BY <1>0, <2>3
    <2>5. t = [s EXCEPT !.prefs = c.prefs]
      OBVIOUS
    <2> HIDE DEF t
    <2>6. t \in TALK!SessionType /\ SessionSound(t) /\ (Checked(s) => Checked(t))
      BY <2>3, <2>4, <2>5 DEF TALK!SessionType, SessionSound, Checked
    <2> QED
      BY <2>1, <2>3, <2>6, SessionChanges
  <1>9. ASSUME NEW p \in Callers, TALK!RequestFails(p) PROVE TalkInv'
    BY <1>9, NoCallIsSound, CallChanges DEF TALK!RequestFails, TALK!Done
  <1>10. ASSUME NEW s \in DOMAIN sessions,
                \/ TALK!AcknowledgeDisclosures(s) \/ TALK!RecordConflictMinimum(s)
                \/ TALK!AttorneyClears(s) \/ TALK!MarkInterrupted(s)
                \/ TALK!EmergencyHandled(s) \/ TALK!ActivateReferral(s)
         PROVE  TalkInv'
    <2> PICK old : old = sessions[s]
      OBVIOUS
    <2>1. old \in TALK!SessionType /\ SessionSound(old)
      BY <1>0
    <2>2. SUFFICES \E t \in TALK!SessionType : /\ SessionSound(t) /\ (Checked(old) => Checked(t))
                                             /\ sessions' = [sessions EXCEPT ![s] = t] /\ UNCHANGED caller
      BY SessionChanges
    <2>3. CASE TALK!AcknowledgeDisclosures(s)
      <3> PICK t : t = [old EXCEPT !.disclosures = TRUE]
        OBVIOUS
      <3>1. t \in TALK!SessionType /\ SessionSound(t) /\ (Checked(old) => Checked(t))
        BY <2>1 DEF TALK!SessionType, SessionSound, Checked
      <3> QED
        BY <2>3, <3>1 DEF TALK!AcknowledgeDisclosures
    <2>4. CASE TALK!RecordConflictMinimum(s)
      <3> PICK t : t = [old EXCEPT !.names = @ + 1]
        OBVIOUS
      <3>1. old.names < MaxNames /\ old.names \in 0..MaxNames /\ old.checked \in 0..MaxNames
        BY <2>1, <2>4 DEF TALK!RecordConflictMinimum, TALK!SessionType
      <3>2. old.names + 1 \in 0..MaxNames /\ (old.checked <= old.names => old.checked <= old.names + 1)
        BY <3>1
      <3>3. t \in TALK!SessionType /\ t.names = old.names + 1
        BY <2>1, <3>2 DEF TALK!SessionType
      <3>4. /\ t.checked = old.checked /\ t.result = old.result /\ t.everClear = old.everClear
            /\ t.answers = old.answers /\ t.disclosures = old.disclosures
        BY <2>1 DEF TALK!SessionType
      <3>5. SessionSound(t) /\ (Checked(old) => Checked(t))
        BY <2>1, <3>2, <3>3, <3>4 DEF SessionSound, Checked
      <3> QED
        BY <2>4, <3>3, <3>5 DEF TALK!RecordConflictMinimum
    <2>5. CASE TALK!AttorneyClears(s)
      <3> PICK t : t = [old EXCEPT !.result = "attorney_cleared", !.everClear = TRUE]
        OBVIOUS
      <3>1. old.result = "possible"
        BY <2>5 DEF TALK!AttorneyClears
      <3>2. t \in TALK!SessionType /\ SessionSound(t) /\ (Checked(old) => Checked(t))
        BY <2>1, <3>1 DEF TALK!SessionType, TALK!Outcomes, SessionSound, Checked
      <3>3. sessions' = [sessions EXCEPT ![s] = t] /\ UNCHANGED caller
        <4> DEFINE mid == [old EXCEPT !.result = "attorney_cleared"]
                   end == [mid EXCEPT !.everClear = TRUE]
        <4>1. sessions' = [sessions EXCEPT ![s] = end] /\ UNCHANGED caller
          BY <1>0, <2>5 DEF TALK!AttorneyClears
        <4> QED
          BY <4>1
      <3> QED
        BY <3>2, <3>3
    <2>6. CASE TALK!MarkInterrupted(s)
      <3> PICK t : t = [old EXCEPT !.status = "interrupted"]
        OBVIOUS
      <3>1. t \in TALK!SessionType /\ SessionSound(t) /\ (Checked(old) => Checked(t))
        BY <2>1 DEF TALK!SessionType, SessionSound, Checked
      <3> QED
        BY <2>6, <3>1 DEF TALK!MarkInterrupted
    <2>7. CASE TALK!EmergencyHandled(s)
      <3> PICK t : t = [old EXCEPT !.status = "active"]
        OBVIOUS
      <3>1. t \in TALK!SessionType /\ SessionSound(t) /\ (Checked(old) => Checked(t))
        BY <2>1 DEF TALK!SessionType, SessionSound, Checked
      <3> QED
        BY <2>7, <3>1 DEF TALK!EmergencyHandled
    <2>8. CASE TALK!ActivateReferral(s)
      <3> PICK t : t = [old EXCEPT !.status = "active", !.clock = TRUE]
        OBVIOUS
      <3>1. t \in TALK!SessionType /\ SessionSound(t) /\ (Checked(old) => Checked(t))
        BY <2>1 DEF TALK!SessionType, SessionSound, Checked
      <3>2. sessions' = [sessions EXCEPT ![s] = t] /\ UNCHANGED caller
        <4> DEFINE mid == [old EXCEPT !.status = "active"]
                   end == [mid EXCEPT !.clock = TRUE]
        <4>1. sessions' = [sessions EXCEPT ![s] = end] /\ UNCHANGED caller
          BY <1>0, <2>8 DEF TALK!ActivateReferral
        <4> QED
          BY <4>1
      <3> QED
        BY <3>1, <3>2
    <2> QED
      BY <1>10, <2>3, <2>4, <2>5, <2>6, <2>7, <2>8
  <1>11. ASSUME NEW s \in DOMAIN sessions, NEW outcome \in {"clear", "possible", "definite"},
                TALK!CheckResult(s, outcome)
         PROVE  TalkInv'
    <2> PICK old : old = sessions[s]
      OBVIOUS
    <2>1. old \in TALK!SessionType /\ SessionSound(old)
      BY <1>0
    <2> DEFINE ever == old.everClear \/ outcome = "clear"
    <2> PICK t : t = [old EXCEPT !.checked = old.names, !.result = outcome, !.everClear = ever]
      OBVIOUS
    <2>2. sessions' = [sessions EXCEPT ![s] = t] /\ UNCHANGED caller /\ old.names # old.checked
      <3> DEFINE mid == [old EXCEPT !.checked = old.names]
                 mid2 == [mid EXCEPT !.result = outcome]
                 end == [mid2 EXCEPT !.everClear = @ \/ outcome = "clear"]
      <3>1. sessions' = [sessions EXCEPT ![s] = end] /\ UNCHANGED caller /\ old.names # old.checked
        BY <1>0, <1>11 DEF TALK!CheckResult
      <3>2. end = t
        BY <2>1 DEF TALK!SessionType
      <3> QED
        BY <3>1, <3>2
    <2>3. ever \in BOOLEAN /\ (old.everClear => ever) /\ (outcome = "clear" => ever)
      OBVIOUS
    <2> HIDE DEF ever
    <2>4. /\ t \in TALK!SessionType /\ t.checked = old.names /\ t.names = old.names
          /\ t.result = outcome /\ t.everClear = ever
          /\ t.answers = old.answers /\ t.disclosures = old.disclosures
      BY <2>1, <2>3 DEF TALK!SessionType, TALK!Outcomes
    <2>5. old.names \in Nat /\ old.checked \in Nat /\ old.checked <= old.names
      BY <2>1 DEF TALK!SessionType, SessionSound
    <2>6. t.checked # 0 /\ t.checked <= t.names
      BY <2>2, <2>4, <2>5
    <2>7. SessionSound(t) /\ (Checked(old) => Checked(t))
      BY <2>1, <2>3, <2>4, <2>6 DEF SessionSound, Checked
    <2> QED
      BY <2>2, <2>4, <2>7, SessionChanges
  <1>12. CASE TALK!RecordReferral
    <2>1. UNCHANGED caller /\ sessions' = Append(sessions, TALK!NewSession("referral_awaiting_contact", FALSE))
      BY <1>12 DEF TALK!RecordReferral
    <2> PICK t : t = TALK!NewSession("referral_awaiting_contact", FALSE)
      OBVIOUS
    <2>2. t \in TALK!SessionType /\ SessionSound(t)
      BY NewSessionIsSound
    <2> QED
      BY <2>1, <2>2, SessionBegins
  <1>13. CASE UNCHANGED TALK!vars
    BY <1>13 DEF TALK!vars, TalkInv, CallSound
  <1> QED
    BY <1>1, <1>2, <1>3, <1>5, <1>6, <1>7, <1>8, <1>9, <1>10, <1>11, <1>12, <1>13
       DEF TALK!Next, TALK!Sessions

\* No case detail is on file before the person saw the disclosures and a check
\* of names they gave came back clear, however their requests overlap.
LEMMA DetailsOfConversation ==
    ASSUME MaxNames \in Nat
    PROVE  TALK!Spec => []TALK!DetailsComeAfterTheCheck
  <1>1. TALK!Init => TalkInv
    <2> SUFFICES ASSUME TALK!Init PROVE TalkInv
      OBVIOUS
    <2>1. sessions = <<>> /\ caller = [p \in Callers |-> TALK!NoCall]
      BY DEF TALK!Init
    <2> QED
      BY <2>1, NoCallIsSound DEF TalkInv
  <1>2. TalkInv /\ [TALK!Next]_(TALK!vars) => TalkInv'
    BY TalkStays
  <1>3. TalkInv => TALK!DetailsComeAfterTheCheck
    BY DEF TalkInv, SessionSound, Checked, TALK!DetailsComeAfterTheCheck, TALK!Sessions
  <1> QED
    BY <1>1, <1>2, <1>3, PTL DEF TALK!Spec

-----------------------------------------------------------------------------
(* The assignment of a lawyer.                                             *)

\* What an automatic run, an override or a screen has read.
AssigningSound(r) ==
    /\ r.op \in {"read", "ending"} => r.who \in Lawyers \cup {Nobody}
    /\ r.op = "block" => r.who \in Lawyers

AssignInv ==
    /\ \E S : rows \in Seq(S)
    /\ \A i \in DOMAIN rows : \E who, method, ended :
          rows[i] = [who |-> who, method |-> method, ended |-> ended]
    /\ \E S : assigning \in [Requests -> S]
    /\ \A p \in Requests : AssigningSound(assigning[p])
    /\ ASSIGN!AssigneeIsOfRecord

\* A transaction goes on; the records stay as they are.
LEMMA AssigningGoes ==
    ASSUME AssignInv, NEW p \in Requests, NEW r, AssigningSound(r), ASSIGN!Goes(p, r),
           UNCHANGED <<assigned, rows, flagged>>
    PROVE  AssignInv'
  <1>1. \A q \in Requests : assigning'[q] = IF q = p THEN r ELSE assigning[q]
    BY DEF AssignInv, ASSIGN!Goes
  <1>2. \E S : assigning' \in [Requests -> S]
    <2>1. assigning' \in [Requests -> {assigning[q] : q \in Requests} \cup {r}]
      BY <1>1 DEF AssignInv, ASSIGN!Goes
    <2> QED
      BY <2>1
  <1>3. ASSIGN!AssigneeIsOfRecord'
    BY DEF AssignInv, ASSIGN!AssigneeIsOfRecord, ASSIGN!Live
  <1>4. /\ \E S : rows' \in Seq(S)
        /\ \A i \in DOMAIN rows' : \E who, method, ended :
              rows'[i] = [who |-> who, method |-> method, ended |-> ended]
    BY DEF AssignInv
  <1>5. \A q \in Requests : AssigningSound(assigning'[q])
    BY <1>1 DEF AssignInv
  <1> QED
    BY <1>2, <1>3, <1>4, <1>5 DEF AssignInv

LEMMA IdleIsSound == AssigningSound(ASSIGN!Idle)
  <1>1. ASSIGN!Idle.op = "none"
    BY DEF ASSIGN!Idle
  <1> QED
    BY <1>1 DEF AssigningSound

\* The rows after a run's UPDATE and INSERT: those it saw are ended, its own is not.
LEMMA RowsAfterwards ==
    ASSUME AssignInv, NEW r, rows' = ASSIGN!RowsAfter(r)
    PROVE  /\ \E S : rows' \in Seq(S)
           /\ \A i \in DOMAIN rows' : \E who, method, ended :
                 rows'[i] = [who |-> who, method |-> method, ended |-> ended]
           /\ \E i \in DOMAIN rows' : rows'[i].who = r.who /\ ~rows'[i].ended
  <1>s. PICK S : rows \in Seq(S)
    BY DEF AssignInv
  <1>k. PICK kept : kept = [i \in DOMAIN rows |-> [rows[i] EXCEPT !.ended = @ \/ i \in r.sees]]
    OBVIOUS
  <1>n. PICK new : new = [who |-> r.who, method |-> r.method, ended |-> FALSE]
    OBVIOUS
  <1>1. rows' = Append(kept, new)
    BY <1>k, <1>n DEF ASSIGN!RowsAfter
  <1>2. ASSUME NEW i \in DOMAIN rows
        PROVE  \E who, method, ended : kept[i] = [who |-> who, method |-> method, ended |-> ended]
    <2> PICK who, method, ended : rows[i] = [who |-> who, method |-> method, ended |-> ended]
      BY DEF AssignInv
    <2>1. kept[i] = [rows[i] EXCEPT !.ended = rows[i].ended \/ i \in r.sees]
      BY <1>k
    <2> QED
      BY <2>1
  <1>t. PICK T : T = {kept[i] : i \in DOMAIN rows} \cup {new}
    OBVIOUS
  <1>3. kept \in Seq(T) /\ DOMAIN kept = DOMAIN rows
    <2>1. DOMAIN rows = 1..Len(rows) /\ Len(rows) \in Nat
      BY <1>s
    <2>2. kept \in [1..Len(rows) -> T]
      BY <1>k, <1>t, <2>1
    <2>3. DOMAIN kept = DOMAIN rows
      BY <1>k
    <2> QED
      BY <2>1, <2>2, <2>3, FunctionsAreSequences
  <1>4. new \in T /\ new.who = r.who /\ ~new.ended
    BY <1>n, <1>t
  <1>5. DOMAIN kept = 1..Len(kept) /\ Len(kept) \in Nat
    BY <1>3
  <1>6. rows' \in Seq(T) /\ DOMAIN rows' = 1..(Len(kept) + 1)
    BY <1>1, <1>3, <1>4
  <1>7. \A i \in DOMAIN rows' : rows'[i] = IF i = Len(kept) + 1 THEN new ELSE kept[i]
    BY <1>1, <1>3, <1>4, <1>6
  <1>8. ASSUME NEW i \in DOMAIN rows'
        PROVE  \E who, method, ended : rows'[i] = [who |-> who, method |-> method, ended |-> ended]
    <2>1. CASE i = Len(kept) + 1
      BY <1>7, <1>n, <2>1
    <2>2. CASE i # Len(kept) + 1
      <3>1. i \in DOMAIN rows /\ rows'[i] = kept[i]
        BY <1>3, <1>5, <1>6, <1>7, <2>2
      <3> QED
        BY <1>2, <3>1
    <2> QED
      BY <2>1, <2>2
  <1>9. \E i \in DOMAIN rows' : rows'[i].who = r.who /\ ~rows'[i].ended
    <2>1. Len(kept) + 1 \in DOMAIN rows'
      BY <1>5, <1>6
    <2> QED
      BY <1>4, <1>7, <2>1
  <1> QED
    BY <1>6, <1>8, <1>9

LEMMA AssignStays ==
    ASSUME ASSIGN!AssignmentAssumption, AssignInv, [ASSIGN!Next]_(ASSIGN!vars)
    PROVE  AssignInv'
  <1>1. ASSUME NEW p \in Requests, ASSIGN!ReadForRun(p) PROVE AssignInv'
    <2> PICK winner \in Lawyers \cup {Nobody} :
            ASSIGN!Goes(p, [op |-> "read", who |-> winner,
                            method |-> IF winner = Nobody THEN "unassigned" ELSE "auto"])
      BY <1>1 DEF ASSIGN!ReadForRun, ASSIGN!Eligible
    <2> DEFINE r == [op |-> "read", who |-> winner,
                     method |-> IF winner = Nobody THEN "unassigned" ELSE "auto"]
    <2>1. AssigningSound(r) /\ ASSIGN!Goes(p, r)
      BY DEF AssigningSound
    <2>2. UNCHANGED <<assigned, rows, flagged>>
      BY <1>1 DEF ASSIGN!ReadForRun, ASSIGN!records
    <2> HIDE DEF r
    <2> QED
      BY <2>1, <2>2, AssigningGoes
  <1>2. ASSUME NEW p \in Requests, NEW l \in Lawyers, ASSIGN!ReadForOverride(p, l) PROVE AssignInv'
    <2> DEFINE r == [op |-> "read", who |-> l, method |-> "override"]
    <2>1. AssigningSound(r) /\ ASSIGN!Goes(p, r) /\ UNCHANGED <<assigned, rows, flagged>>
      BY <1>2 DEF AssigningSound, ASSIGN!ReadForOverride, ASSIGN!records
    <2> HIDE DEF r
    <2> QED
      BY <2>1, AssigningGoes
  <1>3. ASSUME NEW p \in Requests, ASSIGN!EndCurrentAssignment(p) PROVE AssignInv'
    <2> DEFINE r == [op |-> "ending", who |-> assigning[p].who, method |-> assigning[p].method,
                     sees |-> ASSIGN!Live]
    <2>1. assigning[p].op = "read" /\ ASSIGN!Goes(p, r) /\ UNCHANGED <<assigned, rows, flagged>>
      BY <1>3 DEF ASSIGN!EndCurrentAssignment, ASSIGN!records
    <2>2. r.op = "ending" /\ r.who = assigning[p].who
      OBVIOUS
    <2> HIDE DEF r
    <2>3. AssigningSound(r)
      BY <2>1, <2>2 DEF AssignInv, AssigningSound
    <2> QED
      BY <2>1, <2>3, AssigningGoes
  <1>4. ASSUME NEW p \in Requests, ASSIGN!Assign(p) PROVE AssignInv'
    <2> PICK r : r = assigning[p]
      OBVIOUS
    <2>1. /\ r.op = "ending" /\ rows' = ASSIGN!RowsAfter(r)
          /\ IF r.who = Nobody THEN flagged' = TRUE /\ assigned' = assigned
             ELSE assigned' = r.who /\ flagged' = flagged
          /\ ASSIGN!Goes(p, ASSIGN!Idle)
      BY <1>4 DEF ASSIGN!Assign, ASSIGN!Ends
    <2>2. r.who \in Lawyers \cup {Nobody}
      BY <2>1 DEF AssignInv, AssigningSound
    <2>3. /\ \E S : rows' \in Seq(S)
          /\ \A i \in DOMAIN rows' : \E who, method, ended :
                rows'[i] = [who |-> who, method |-> method, ended |-> ended]
          /\ \E i \in DOMAIN rows' : rows'[i].who = r.who /\ ~rows'[i].ended
      BY <2>1, RowsAfterwards
    <2>4. ASSIGN!AssigneeIsOfRecord'
      BY <2>1, <2>2, <2>3 DEF ASSIGN!AssigneeIsOfRecord, ASSIGN!Live, ASSIGN!AssignmentAssumption
    <2>5. \A q \in Requests : assigning'[q] = IF q = p THEN ASSIGN!Idle ELSE assigning[q]
      BY <2>1 DEF AssignInv, ASSIGN!Goes
    <2>6. \E S : assigning' \in [Requests -> S]
      <3>1. assigning' \in [Requests -> {assigning[q] : q \in Requests} \cup {ASSIGN!Idle}]
        BY <2>1, <2>5 DEF AssignInv, ASSIGN!Goes
      <3> QED
        BY <3>1
    <2>7. \A q \in Requests : AssigningSound(assigning'[q])
      BY <2>5, IdleIsSound DEF AssignInv
    <2> QED
      BY <2>3, <2>4, <2>6, <2>7 DEF AssignInv
  <1>5. ASSUME NEW p \in Requests, NEW l \in Lawyers, ASSIGN!ReadForBlock(p, l) PROVE AssignInv'
    <2> DEFINE his == assigned = l
               r == [op |-> "block", who |-> l, his |-> his]
    <2>1. ASSIGN!Goes(p, r) /\ UNCHANGED <<assigned, rows, flagged>>
      BY <1>5 DEF ASSIGN!ReadForBlock, ASSIGN!records
    <2> HIDE DEF his
    <2>2. AssigningSound(r)
      BY DEF AssigningSound
    <2> HIDE DEF r
    <2> QED
      BY <2>1, <2>2, AssigningGoes
  <1>6. ASSUME NEW p \in Requests, ASSIGN!RecordAssignmentBlock(p) PROVE AssignInv'
    <2>1. ASSIGN!Goes(p, ASSIGN!Idle)
      BY <1>6 DEF ASSIGN!RecordAssignmentBlock, ASSIGN!Ends
    <2>2. CASE UNCHANGED <<assigned, rows, flagged>>
      BY <2>1, <2>2, IdleIsSound, AssigningGoes
    <2>3. CASE ASSIGN!ReturnToQueue
      <3>1. /\ assigned' = Nobody /\ flagged' = TRUE
            /\ rows' = [i \in DOMAIN rows |-> [rows[i] EXCEPT !.ended = TRUE]]
        BY <2>3 DEF ASSIGN!ReturnToQueue
      <3>2. ASSIGN!AssigneeIsOfRecord'
        BY <3>1 DEF ASSIGN!AssigneeIsOfRecord
      <3>3. \A i \in DOMAIN rows' : \E who, method, ended :
                rows'[i] = [who |-> who, method |-> method, ended |-> ended]
        <4> TAKE i \in DOMAIN rows'
        <4> PICK who, method, ended : rows[i] = [who |-> who, method |-> method, ended |-> ended]
          BY <3>1 DEF AssignInv
        <4>1. rows'[i] = [rows[i] EXCEPT !.ended = TRUE]
          BY <3>1
        <4> QED
          BY <4>1
      <3>4. \E S : rows' \in Seq(S)
        <4> PICK S : rows \in Seq(S)
          BY DEF AssignInv
        <4>1. DOMAIN rows = 1..Len(rows) /\ Len(rows) \in Nat
          OBVIOUS
        <4>2. rows' \in [1..Len(rows) -> {rows'[i] : i \in 1..Len(rows)}]
          BY <3>1, <4>1
        <4> QED
          BY <4>1, <4>2, FunctionsAreSequences
      <3>5. \A q \in Requests : assigning'[q] = IF q = p THEN ASSIGN!Idle ELSE assigning[q]
        BY <2>1 DEF AssignInv, ASSIGN!Goes
      <3>6. \E S : assigning' \in [Requests -> S]
        <4>1. assigning' \in [Requests -> {assigning[q] : q \in Requests} \cup {ASSIGN!Idle}]
          BY <2>1, <3>5 DEF AssignInv, ASSIGN!Goes
        <4> QED
          BY <4>1
      <3>7. \A q \in Requests : AssigningSound(assigning'[q])
        BY <3>5, IdleIsSound DEF AssignInv
      <3> QED
        BY <3>2, <3>3, <3>4, <3>6, <3>7 DEF AssignInv
    <2> QED
      BY <1>6, <2>2, <2>3 DEF ASSIGN!RecordAssignmentBlock
  <1>7. ASSUME NEW p \in Requests, ASSIGN!RequestFails(p) PROVE AssignInv'
    BY <1>7, IdleIsSound, AssigningGoes DEF ASSIGN!RequestFails, ASSIGN!Ends, ASSIGN!records
  <1>8. CASE ASSIGN!ConflictResult \/ UNCHANGED ASSIGN!vars
    BY SMTT(30), <1>8 DEF ASSIGN!ConflictResult, ASSIGN!vars, AssignInv, ASSIGN!AssigneeIsOfRecord, ASSIGN!Live
  <1> QED
    BY <1>1, <1>2, <1>3, <1>4, <1>5, <1>6, <1>7, <1>8 DEF ASSIGN!Next

\* A matter does not lose its lawyer unnoticed: however runs, overrides and
\* screens overlap, the lawyer's assignment is in force or a run that found
\* nobody took its place, and a matter without one was put before the owners.
LEMMA AssigneesOfRuns ==
    ASSUME ASSIGN!AssignmentAssumption
    PROVE  ASSIGN!Spec => []ASSIGN!AssigneeIsOfRecord
  <1>1. ASSIGN!Init => AssignInv
    <2> SUFFICES ASSUME ASSIGN!Init PROVE AssignInv
      OBVIOUS
    <2>1. assigned = Nobody /\ rows = <<>> /\ assigning = [p \in Requests |-> ASSIGN!Idle]
      BY DEF ASSIGN!Init
    <2>2. rows \in Seq({}) /\ DOMAIN rows = {}
      BY <2>1
    <2>3. assigning \in [Requests -> {ASSIGN!Idle}]
      BY <2>1
    <2>4. (\E S : rows \in Seq(S)) /\ (\E S : assigning \in [Requests -> S])
      BY <2>2, <2>3
    <2> QED
      BY <2>1, <2>2, <2>4, IdleIsSound DEF AssignInv, ASSIGN!AssigneeIsOfRecord
  <1>2. ASSIGN!AssignmentAssumption /\ AssignInv /\ [ASSIGN!Next]_(ASSIGN!vars) => AssignInv'
    BY AssignStays
  <1>3. AssignInv => ASSIGN!AssigneeIsOfRecord
    BY DEF AssignInv
  <1> QED
    BY <1>1, <1>2, <1>3, PTL DEF ASSIGN!Spec

-----------------------------------------------------------------------------
(* The scoring of lawyers.                                                 *)

LEMMA TimesKeepsOrder ==
    ASSUME NEW a \in Int, NEW b \in Int, NEW n \in Nat, a <= b
    PROVE  a * n <= b * n /\ a * n \in Int /\ b * n \in Int
  OBVIOUS

LEMMA QuotientKeepsOrder ==
    ASSUME NEW a \in Int, NEW b \in Int, NEW d \in Nat \ {0}, a <= b
    PROVE  a \div d <= b \div d /\ a \div d \in Int
  OBVIOUS

LEMMA RoundedKeepsOrder ==
    ASSUME NEW a \in Int, NEW b \in Int, NEW d \in Nat \ {0}, a <= b
    PROVE  SCORE!Rounded(a, d) <= SCORE!Rounded(b, d) /\ SCORE!Rounded(a, d) \in Int
  <1>1. 2 * a + d \in Int /\ 2 * b + d \in Int /\ 2 * a + d <= 2 * b + d /\ 2 * d \in Nat \ {0}
    OBVIOUS
  <1> QED
    BY <1>1, QuotientKeepsOrder DEF SCORE!Rounded

\* A finite nonempty set of integers has a greatest and a least element.
LEMMA ExtremesExist ==
    ASSUME NEW S, IsFiniteSet(S)
    PROVE  S \subseteq Int /\ S # {} =>
               /\ SCORE!Max(S) \in S /\ \A y \in S : y <= SCORE!Max(S)
               /\ SCORE!Min(S) \in S /\ \A y \in S : SCORE!Min(S) <= y
  <1> DEFINE HasBoth(T) == /\ \E x \in T : \A y \in T : y <= x
                           /\ \E x \in T : \A y \in T : x <= y
             X == {T \in SUBSET S : T \subseteq Int /\ T # {} /\ ~HasBoth(T)}
  <1>1. X = {}
    <2> SUFFICES ASSUME X # {} PROVE FALSE
      OBVIOUS
    <2>1. PICK T \in X : IsFiniteSet(T) /\ \A U \in X : U \subseteq T => U = T
      <3>1. X \subseteq SUBSET S
        OBVIOUS
      <3> HIDE DEF X
      <3> QED
        BY <3>1, MinimalSubset
    <2>2. PICK e : e \in T
      OBVIOUS
    <2> DEFINE rest == T \ {e}
    <2>3. rest \subseteq S /\ rest # T /\ rest \subseteq T /\ T \subseteq Int
      BY <2>2
    <2>4. rest # {}
      <3> SUFFICES ASSUME rest = {} PROVE FALSE
        OBVIOUS
      <3>1. T = {e} /\ e <= e
        BY <2>2, <2>3
      <3> QED
        BY <3>1
    <2>5. HasBoth(rest)
      BY <2>1, <2>3, <2>4
    <2>6. PICK hi \in rest, lo \in rest : \A y \in rest : lo <= y /\ y <= hi
      BY <2>5
    <2>7. \A y \in T : y = e \/ y \in rest
      OBVIOUS
    <2>8. \E x \in T : \A y \in T : y <= x
      <3>1. CASE e <= hi
        BY <2>3, <2>6, <2>7, <3>1
      <3>2. CASE hi <= e
        <4>1. \A y \in T : y <= e
          BY <2>2, <2>3, <2>6, <2>7, <3>2
        <4> QED
          BY <2>2, <4>1
      <3> QED
        BY <2>2, <2>3, <3>1, <3>2
    <2>9. \E x \in T : \A y \in T : x <= y
      <3>1. CASE lo <= e
        BY <2>3, <2>6, <2>7, <3>1
      <3>2. CASE e <= lo
        <4>1. \A y \in T : e <= y
          BY <2>2, <2>3, <2>6, <2>7, <3>2
        <4> QED
          BY <2>2, <4>1
      <3> QED
        BY <2>2, <2>3, <3>1, <3>2
    <2> QED
      BY <2>8, <2>9
  <1>2. S \subseteq Int /\ S # {} => HasBoth(S)
    BY <1>1
  <1> QED
    BY <1>2 DEF SCORE!Max, SCORE!Min

LEMMA NormalizeKeepsOrder ==
    ASSUME IsFiniteSet(SCORE!Eligible), NEW v, \A l \in SCORE!Eligible : v[l] \in Int,
           NEW up \in BOOLEAN, NEW k \in SCORE!Eligible, NEW l \in SCORE!Eligible, v[k] <= v[l]
    PROVE  LET n == SCORE!Normalize(v, up) IN
           /\ n[k] \in Int /\ n[l] \in Int
           /\ IF up THEN n[k] <= n[l] ELSE n[l] <= n[k]
  <1> DEFINE values == {v[j] : j \in SCORE!Eligible}
             low == SCORE!Min(values)
             high == SCORE!Max(values)
  <1>1. values \subseteq Int /\ values # {} /\ IsFiniteSet(values)
    <2> DEFINE f == [j \in SCORE!Eligible |-> v[j]]
    <2>1. f \in Surjection(SCORE!Eligible, values)
      BY DEF Surjection
    <2>2. IsFiniteSet(values)
      BY <2>1, FS_Surjection DEF ExistsSurjection
    <2> QED
      BY <2>2
  <1>2. /\ low \in Int /\ high \in Int /\ v[k] \in Int /\ v[l] \in Int
        /\ low <= v[k] /\ v[k] <= high /\ low <= v[l] /\ v[l] <= high
    <2> HIDE DEF values
    <2>1. /\ low \in values /\ high \in values
          /\ \A y \in values : low <= y /\ y <= high
      BY <1>1, ExtremesExist
    <2>2. v[k] \in values /\ v[l] \in values
      BY DEF values
    <2> QED
      BY <1>1, <2>1, <2>2
  <1> DEFINE score(j) ==
                 IF high = low THEN 10000
                 ELSE IF up THEN SCORE!Rounded((v[j] - low) * 10000, high - low)
                 ELSE SCORE!Rounded((high - v[j]) * 10000, high - low)
  <1>3. SCORE!Normalize(v, up) = [j \in SCORE!Eligible |-> score(j)]
    BY DEF SCORE!Normalize
  <1>4. CASE high = low
    BY <1>3, <1>4
  <1>5. CASE high # low
    <2> HIDE DEF low, high, values
    <2>1. high - low \in Nat \ {0}
      BY <1>2, <1>5
    <2>2. CASE up
      <3>1. (v[k] - low) * 10000 <= (v[l] - low) * 10000
        BY <1>2
      <3>2. /\ SCORE!Rounded((v[k] - low) * 10000, high - low) <= SCORE!Rounded((v[l] - low) * 10000, high - low)
            /\ SCORE!Rounded((v[k] - low) * 10000, high - low) \in Int
            /\ SCORE!Rounded((v[l] - low) * 10000, high - low) \in Int
        <4> DEFINE a == (v[k] - low) * 10000
                   b == (v[l] - low) * 10000
                   d == high - low
        <4>1. a \in Int /\ b \in Int /\ d \in Nat \ {0} /\ a <= b
          BY <1>2, <2>1, <3>1
        <4> HIDE DEF a, b, d
        <4>2. SCORE!Rounded(a, d) <= SCORE!Rounded(b, d) /\ SCORE!Rounded(a, d) \in Int /\ SCORE!Rounded(b, d) \in Int
          BY <4>1, RoundedKeepsOrder
        <4> QED
          BY <4>2 DEF a, b, d
      <3> QED
        BY <1>3, <1>5, <2>2, <3>2
    <2>3. CASE ~up
      <3>1. (high - v[l]) * 10000 <= (high - v[k]) * 10000
        BY <1>2
      <3>2. /\ SCORE!Rounded((high - v[l]) * 10000, high - low) <= SCORE!Rounded((high - v[k]) * 10000, high - low)
            /\ SCORE!Rounded((high - v[k]) * 10000, high - low) \in Int
            /\ SCORE!Rounded((high - v[l]) * 10000, high - low) \in Int
        <4> DEFINE a == (high - v[l]) * 10000
                   b == (high - v[k]) * 10000
                   d == high - low
        <4>1. a \in Int /\ b \in Int /\ d \in Nat \ {0} /\ a <= b
          BY <1>2, <2>1, <3>1
        <4> HIDE DEF a, b, d
        <4>2. SCORE!Rounded(a, d) <= SCORE!Rounded(b, d) /\ SCORE!Rounded(a, d) \in Int /\ SCORE!Rounded(b, d) \in Int
          BY <4>1, RoundedKeepsOrder
        <4> QED
          BY <4>2 DEF a, b, d
      <3> QED
        BY <1>3, <1>5, <2>3, <3>2
    <2> QED
      BY <2>2, <2>3
  <1> QED
    BY <1>4, <1>5


\* Everybody's type, and that the eligible are finitely many.
LEMMA EligibleTyped ==
    ASSUME SCORE!ScoringAssumption, SCORE!TypeOK
    PROVE  /\ SCORE!Eligible \subseteq Candidates /\ IsFiniteSet(SCORE!Eligible)
           /\ \A l \in SCORE!Eligible : candidates[l] \in SCORE!Candidate /\ l \in Nat
           /\ \A l \in SCORE!Eligible : candidates[l].hours \in Nat
  <1>1. /\ SCORE!Eligible \subseteq Candidates /\ IsFiniteSet(SCORE!Eligible)
        /\ \A l \in SCORE!Eligible : candidates[l] \in SCORE!Candidate /\ l \in Nat
    <2>1. Candidates \subseteq Nat /\ IsFiniteSet(Candidates)
      BY DEF SCORE!ScoringAssumption, SCORE!IsFiniteSet, IsFiniteSet
    <2>2. SCORE!Eligible \subseteq Candidates
      BY DEF SCORE!Eligible
    <2>3. IsFiniteSet(SCORE!Eligible)
      BY <2>1, <2>2, FS_Subset
    <2>4. \A l \in Candidates : candidates[l] \in SCORE!Candidate
      BY DEF SCORE!TypeOK
    <2> QED
      BY <2>1, <2>2, <2>3, <2>4
  <1>2. ASSUME NEW c \in SCORE!Candidate PROVE c.hours \in Nat
    <2>1. c.hours \in 0..MaxHours \cup {Never}
      BY DEF SCORE!Candidate
    <2>2. MaxHours \in Nat /\ Never \in Nat
      BY DEF SCORE!ScoringAssumption
    <2> QED
      BY <2>1, <2>2
  <1> QED
    BY <1>1, <1>2

\* Longer without a matter: no lower a score.
LEMMA CadenceKeepsOrder ==
    ASSUME SCORE!ScoringAssumption, SCORE!TypeOK, NEW k \in SCORE!Eligible, NEW l \in SCORE!Eligible,
           candidates[k].hours <= candidates[l].hours
    PROVE  SCORE!Cadence[k] \in Int /\ SCORE!Cadence[l] \in Int /\ SCORE!Cadence[k] <= SCORE!Cadence[l]
  <1> DEFINE v == [j \in SCORE!Eligible |-> candidates[j].hours]
  <1>1. \A j \in SCORE!Eligible : v[j] \in Int
    BY EligibleTyped
  <1>2. v[k] <= v[l]
    OBVIOUS
  <1> HIDE DEF v
  <1>3. LET n == SCORE!Normalize(v, TRUE) IN n[k] \in Int /\ n[l] \in Int /\ n[k] <= n[l]
    BY <1>1, <1>2, EligibleTyped, NormalizeKeepsOrder
  <1>4. SCORE!Cadence = SCORE!Normalize(v, TRUE)
    BY DEF SCORE!Cadence, v
  <1> QED
    BY <1>3, <1>4

\* One of the four loads, and its part in the composite.
LEMMA LoadKeepsOrder ==
    ASSUME SCORE!ScoringAssumption, SCORE!TypeOK, NEW v, \A j \in SCORE!Eligible : v[j] \in Nat,
           NEW mix \in Nat, NEW k \in SCORE!Eligible, NEW l \in SCORE!Eligible, v[l] <= v[k]
    PROVE  LET n == SCORE!Normalize(v, FALSE) IN
           n[k] * mix \in Int /\ n[l] * mix \in Int /\ n[k] * mix <= n[l] * mix
  <1>1. LET n == SCORE!Normalize(v, FALSE) IN n[k] \in Int /\ n[l] \in Int /\ n[k] <= n[l]
    <2>1. \A j \in SCORE!Eligible : v[j] \in Int
      OBVIOUS
    <2>2. IsFiniteSet(SCORE!Eligible) /\ FALSE \in BOOLEAN
      BY EligibleTyped
    <2> QED
      BY <2>1, <2>2, NormalizeKeepsOrder
  <1> DEFINE a == SCORE!Normalize(v, FALSE)[k]
             b == SCORE!Normalize(v, FALSE)[l]
  <1>2. a \in Int /\ b \in Int /\ a <= b
    BY <1>1
  <1> HIDE DEF a, b
  <1>3. a * mix \in Int /\ b * mix \in Int /\ a * mix <= b * mix
    BY <1>2, TimesKeepsOrder
  <1> QED
    BY <1>3 DEF a, b

LEMMA LoadIsInteger ==
    ASSUME SCORE!ScoringAssumption, SCORE!TypeOK, NEW v, \A j \in SCORE!Eligible : v[j] \in Nat,
           NEW mix \in Nat, NEW k \in SCORE!Eligible
    PROVE  SCORE!Normalize(v, FALSE)[k] * mix \in Int
  <1>1. v[k] <= v[k]
    OBVIOUS
  <1> QED
    BY <1>1, LoadKeepsOrder

\* Less to do of every kind: no lower a score.
LEMMA WorkloadKeepsOrder ==
    ASSUME SCORE!ScoringAssumption, SCORE!TypeOK, NEW k \in SCORE!Eligible, NEW l \in SCORE!Eligible,
           candidates[l].open <= candidates[k].open, candidates[l].tasks <= candidates[k].tasks,
           candidates[l].overdue <= candidates[k].overdue,
           candidates[l].deadlines <= candidates[k].deadlines
    PROVE  SCORE!Workload[k] \in Int /\ SCORE!Workload[l] \in Int /\ SCORE!Workload[k] <= SCORE!Workload[l]
  <1> DEFINE vo == [j \in SCORE!Eligible |-> candidates[j].open]
             vt == [j \in SCORE!Eligible |-> candidates[j].tasks]
             vu == [j \in SCORE!Eligible |-> candidates[j].overdue]
             vd == [j \in SCORE!Eligible |-> candidates[j].deadlines]
             part(v, mix, j) == SCORE!Normalize(v, FALSE)[j] * mix
             sum(j) == part(vo, WorkloadMix.open, j) + part(vt, WorkloadMix.tasks, j)
                         + part(vu, WorkloadMix.overdue, j) + part(vd, WorkloadMix.deadlines, j)
             v == [j \in SCORE!Eligible |-> sum(j)]
  <1>1. /\ WorkloadMix.open \in Nat /\ WorkloadMix.tasks \in Nat
        /\ WorkloadMix.overdue \in Nat /\ WorkloadMix.deadlines \in Nat
    BY DEF SCORE!ScoringAssumption
  <1>2. \A j \in SCORE!Eligible : vo[j] \in Nat /\ vt[j] \in Nat /\ vu[j] \in Nat /\ vd[j] \in Nat
    BY EligibleTyped DEF SCORE!Candidate
  <1>3. vo[l] <= vo[k] /\ vt[l] <= vt[k] /\ vu[l] <= vu[k] /\ vd[l] <= vd[k]
    OBVIOUS
  <1>w. SCORE!Workload = SCORE!Normalize(v, TRUE)
    BY DEF SCORE!Workload
  <1> HIDE DEF vo, vt, vu, vd
  <1>4. \A j \in SCORE!Eligible : /\ part(vo, WorkloadMix.open, j) \in Int /\ part(vt, WorkloadMix.tasks, j) \in Int
                            /\ part(vu, WorkloadMix.overdue, j) \in Int
                            /\ part(vd, WorkloadMix.deadlines, j) \in Int
    BY <1>1, <1>2, LoadIsInteger
  <1>5. /\ part(vo, WorkloadMix.open, k) <= part(vo, WorkloadMix.open, l)
        /\ part(vt, WorkloadMix.tasks, k) <= part(vt, WorkloadMix.tasks, l)
    BY <1>1, <1>2, <1>3, LoadKeepsOrder
  <1>6. /\ part(vu, WorkloadMix.overdue, k) <= part(vu, WorkloadMix.overdue, l)
        /\ part(vd, WorkloadMix.deadlines, k) <= part(vd, WorkloadMix.deadlines, l)
    BY <1>1, <1>2, <1>3, LoadKeepsOrder
  <1> HIDE DEF part
  <1>7. (\A j \in SCORE!Eligible : v[j] \in Int) /\ v[k] <= v[l]
    BY <1>4, <1>5, <1>6
  <1> HIDE DEF v
  <1> QED
    BY <1>7, <1>w, EligibleTyped, NormalizeKeepsOrder

\* Nearer to the seniority asked for, the client's lawyer, a higher priority:
\* no lower a score.
LEMMA OtherKeepsOrder ==
    ASSUME SCORE!ScoringAssumption, SCORE!TypeOK, NEW k \in SCORE!Eligible, NEW l \in SCORE!Eligible,
           candidates[k].continuity => candidates[l].continuity,
           SCORE!Off(candidates[l].seniority) <= SCORE!Off(candidates[k].seniority),
           candidates[k].priority <= candidates[l].priority
    PROVE  SCORE!Other[k] \in Int /\ SCORE!Other[l] \in Int /\ SCORE!Other[k] <= SCORE!Other[l]
  <1> DEFINE same(j) == IF candidates[j].continuity THEN 100 ELSE 0
             near(j) == 100 - 25 * SCORE!Off(candidates[j].seniority)
             high(j) == candidates[j].priority
             sum(j) == same(j) * OtherMix.continuity + near(j) * OtherMix.seniority
                         + high(j) * OtherMix.priority
             v == [j \in SCORE!Eligible |-> sum(j)]
  <1>1. OtherMix.continuity \in Nat /\ OtherMix.seniority \in Nat /\ OtherMix.priority \in Nat
    BY DEF SCORE!ScoringAssumption
  <1>2. \A j \in SCORE!Eligible : same(j) \in Int /\ near(j) \in Int /\ high(j) \in Int
    BY EligibleTyped DEF SCORE!Candidate, SCORE!Off, SCORE!ScoringAssumption
  <1>3. same(k) <= same(l) /\ near(k) <= near(l) /\ high(k) <= high(l)
    <2>1. SCORE!Off(candidates[l].seniority) \in Int /\ SCORE!Off(candidates[k].seniority) \in Int
      BY EligibleTyped DEF SCORE!Candidate, SCORE!Off, SCORE!ScoringAssumption
    <2> QED
      BY <2>1
  <1>w. SCORE!Other = SCORE!Normalize(v, TRUE)
    BY DEF SCORE!Other
  <1> HIDE DEF same, near, high
  <1>4. \A j \in SCORE!Eligible : /\ same(j) * OtherMix.continuity \in Int /\ near(j) * OtherMix.seniority \in Int
                            /\ high(j) * OtherMix.priority \in Int
    BY <1>1, <1>2
  <1>5. /\ same(k) * OtherMix.continuity <= same(l) * OtherMix.continuity
        /\ near(k) * OtherMix.seniority <= near(l) * OtherMix.seniority
        /\ high(k) * OtherMix.priority <= high(l) * OtherMix.priority
    BY <1>1, <1>2, <1>3, TimesKeepsOrder
  <1>6. (\A j \in SCORE!Eligible : v[j] \in Int) /\ v[k] <= v[l]
    BY <1>4, <1>5
  <1> HIDE DEF v
  <1> QED
    BY <1>6, <1>w, EligibleTyped, NormalizeKeepsOrder

\* A weighted score.
LEMMA WeightedKeepsOrder ==
    ASSUME NEW a \in Int, NEW b \in Int, NEW w \in Nat, a <= b
    PROVE  SCORE!Rounded(a * w, 100) <= SCORE!Rounded(b * w, 100) /\ SCORE!Rounded(a * w, 100) \in Int
           /\ SCORE!Rounded(b * w, 100) \in Int
  <1> DEFINE x == a * w
             y == b * w
  <1>1. x \in Int /\ y \in Int /\ x <= y
    BY TimesKeepsOrder
  <1> HIDE DEF x, y
  <1>2. 100 \in Nat \ {0}
    OBVIOUS
  <1>3. SCORE!Rounded(x, 100) <= SCORE!Rounded(y, 100) /\ SCORE!Rounded(x, 100) \in Int /\ SCORE!Rounded(y, 100) \in Int
    BY <1>1, <1>2, RoundedKeepsOrder
  <1> QED
    BY <1>3 DEF x, y

\* As good in everything: no lower a total.
LEMMA TotalsKeepOrder ==
    ASSUME SCORE!ScoringAssumption, SCORE!TypeOK, NEW k \in SCORE!Eligible, NEW l \in SCORE!Eligible,
           SCORE!AtLeastAsGood(candidates[l], candidates[k])
    PROVE  SCORE!Totals[k] \in Int /\ SCORE!Totals[l] \in Int /\ SCORE!Totals[k] <= SCORE!Totals[l]
  <1>1. /\ Weights.cadence \in Nat /\ Weights.workload \in Nat /\ Weights.other \in Nat
    BY DEF SCORE!ScoringAssumption
  <1>2. candidates[k] \in SCORE!Candidate /\ candidates[l] \in SCORE!Candidate
    BY EligibleTyped
  <1>3. /\ candidates[k].hours <= candidates[l].hours
        /\ candidates[k].priority <= candidates[l].priority
    <2>1. candidates[k].hours \in Nat /\ candidates[l].hours \in Nat
      BY EligibleTyped
    <2>2. candidates[k].priority \in Int /\ candidates[l].priority \in Int
      BY <1>2 DEF SCORE!Candidate
    <2> QED
      BY <2>1, <2>2 DEF SCORE!AtLeastAsGood
  <1>4. SCORE!Cadence[k] \in Int /\ SCORE!Cadence[l] \in Int /\ SCORE!Cadence[k] <= SCORE!Cadence[l]
    BY <1>3, CadenceKeepsOrder
  <1>5. SCORE!Workload[k] \in Int /\ SCORE!Workload[l] \in Int /\ SCORE!Workload[k] <= SCORE!Workload[l]
    BY WorkloadKeepsOrder DEF SCORE!AtLeastAsGood
  <1>6. SCORE!Other[k] \in Int /\ SCORE!Other[l] \in Int /\ SCORE!Other[k] <= SCORE!Other[l]
    BY <1>3, OtherKeepsOrder DEF SCORE!AtLeastAsGood
  <1> DEFINE of(j) == SCORE!Rounded(SCORE!Cadence[j] * Weights.cadence, 100)
                        + SCORE!Rounded(SCORE!Workload[j] * Weights.workload, 100)
                        + SCORE!Rounded(SCORE!Other[j] * Weights.other, 100)
  <1>7. SCORE!Totals[k] = of(k) /\ SCORE!Totals[l] = of(l)
    BY DEF SCORE!Totals
  <1>8. of(k) \in Int /\ of(l) \in Int /\ of(k) <= of(l)
    <2> DEFINE c(j) == SCORE!Rounded(SCORE!Cadence[j] * Weights.cadence, 100)
               w(j) == SCORE!Rounded(SCORE!Workload[j] * Weights.workload, 100)
               o(j) == SCORE!Rounded(SCORE!Other[j] * Weights.other, 100)
    <2>1. c(k) \in Int /\ c(l) \in Int /\ c(k) <= c(l)
      BY <1>1, <1>4, WeightedKeepsOrder
    <2>2. w(k) \in Int /\ w(l) \in Int /\ w(k) <= w(l)
      BY ZenonT(30), <1>1, <1>5, WeightedKeepsOrder
    <2>3. o(k) \in Int /\ o(l) \in Int /\ o(k) <= o(l)
      BY ZenonT(30), <1>1, <1>6, WeightedKeepsOrder
    <2> HIDE DEF c, w, o
    <2>4. c(k) + w(k) + o(k) \in Int /\ c(l) + w(l) + o(l) \in Int /\ c(k) + w(k) + o(k) <= c(l) + w(l) + o(l)
      BY <2>1, <2>2, <2>3
    <2> QED
      BY <2>4 DEF c, w, o
  <1> QED
    BY <1>7, <1>8
\* The order by total, last assignment, open matters and id picks one.
LEMMA WinnerComesFirst ==
    ASSUME SCORE!ScoringAssumption, SCORE!TypeOK, SCORE!Eligible # {}
    PROVE  SCORE!Winner \in SCORE!Eligible /\ \A k \in SCORE!Eligible \ {SCORE!Winner} : SCORE!Before(SCORE!Totals, SCORE!Winner, k)
  <1> DEFINE totals == SCORE!Totals
             First(x, T) == \A y \in T \ {x} : SCORE!Before(totals, x, y)
             X == {T \in SUBSET SCORE!Eligible : T # {} /\ ~\E x \in T : First(x, T)}
  <1>0. /\ \A j \in SCORE!Eligible : j \in Nat /\ totals[j] \in Int /\ candidates[j].hours \in Nat
        /\ \A j \in SCORE!Eligible : candidates[j].open \in Nat
    <2>1. ASSUME NEW j \in SCORE!Eligible PROVE totals[j] \in Int
      <3>1. SCORE!AtLeastAsGood(candidates[j], candidates[j])
        BY EligibleTyped DEF SCORE!AtLeastAsGood, SCORE!Candidate, SCORE!Off, SCORE!ScoringAssumption
      <3> QED
        BY <3>1, TotalsKeepOrder
    <2>2. \A j \in SCORE!Eligible : candidates[j].open \in Nat
      BY EligibleTyped DEF SCORE!Candidate
    <2> QED
      BY <2>1, <2>2, EligibleTyped
  <1> HIDE DEF totals
  <1>1. \A x, y \in SCORE!Eligible : x # y => SCORE!Before(totals, x, y) \/ SCORE!Before(totals, y, x)
    BY <1>0 DEF SCORE!Before
  <1>2. \A x, y, z \in SCORE!Eligible : SCORE!Before(totals, x, y) /\ SCORE!Before(totals, y, z) => SCORE!Before(totals, x, z)
    BY <1>0 DEF SCORE!Before
  <1>3. X = {}
    <2> SUFFICES ASSUME X # {} PROVE FALSE
      OBVIOUS
    <2>1. PICK T \in X : IsFiniteSet(T) /\ \A U \in X : U \subseteq T => U = T
      <3>1. X \subseteq SUBSET SCORE!Eligible /\ IsFiniteSet(SCORE!Eligible)
        BY EligibleTyped
      <3> HIDE DEF X
      <3> QED
        BY <3>1, MinimalSubset
    <2>2. PICK e : e \in T
      OBVIOUS
    <2> DEFINE rest == T \ {e}
    <2>3. rest \subseteq SCORE!Eligible /\ rest # T /\ rest \subseteq T /\ T \subseteq SCORE!Eligible
      BY <2>2
    <2>4. rest # {}
      <3> SUFFICES ASSUME rest = {} PROVE FALSE
        OBVIOUS
      <3>1. T \ {e} = {} /\ First(e, T)
        OBVIOUS
      <3> QED
        BY <2>2, <3>1
    <2>5. PICK x \in rest : First(x, rest)
      BY <2>1, <2>3, <2>4
    <2>6. x \in SCORE!Eligible /\ e \in SCORE!Eligible /\ x # e
      BY <2>2, <2>3
    <2>7. CASE SCORE!Before(totals, x, e)
      <3>1. First(x, T)
        BY <2>5, <2>7
      <3> QED
        BY <3>1
    <2>8. CASE SCORE!Before(totals, e, x)
      <3>1. First(e, T)
        BY <1>2, <2>3, <2>5, <2>6, <2>8
      <3> QED
        BY <2>2, <3>1
    <2> QED
      BY <1>1, <2>6, <2>7, <2>8
  <1>4. \E x \in SCORE!Eligible : First(x, SCORE!Eligible)
    BY <1>3
  <1> QED
    BY <1>4 DEF SCORE!Winner, totals

LEMMA OnlyATiePassesOver ==
    ASSUME SCORE!ScoringAssumption, SCORE!TypeOK
    PROVE  SCORE!PassedOverOnATieOnly
  <1> SUFFICES ASSUME NEW l \in SCORE!Eligible \ {SCORE!Winner},
                      SCORE!AtLeastAsGood(candidates[l], candidates[SCORE!Winner])
               PROVE  /\ SCORE!Totals[l] = SCORE!Totals[SCORE!Winner] /\ candidates[l].hours = candidates[SCORE!Winner].hours
                      /\ candidates[l].open = candidates[SCORE!Winner].open /\ SCORE!Winner < l
    BY DEF SCORE!PassedOverOnATieOnly
  <1> DEFINE w == SCORE!Winner
             totals == SCORE!Totals
  <1>1. w \in SCORE!Eligible /\ SCORE!Before(totals, w, l)
    BY WinnerComesFirst
  <1>2. totals[w] \in Int /\ totals[l] \in Int /\ totals[w] <= totals[l]
    BY <1>1, TotalsKeepOrder
  <1>3. /\ candidates[l].hours \in Nat /\ candidates[w].hours \in Nat
        /\ candidates[l].open \in Nat /\ candidates[w].open \in Nat
    BY <1>1, EligibleTyped DEF SCORE!Candidate
  <1>4. candidates[l].hours >= candidates[w].hours /\ candidates[l].open <= candidates[w].open
    BY DEF SCORE!AtLeastAsGood
  <1> HIDE DEF w, totals
  <1>5. totals[l] = totals[w] /\ candidates[l].hours = candidates[w].hours
        /\ candidates[l].open = candidates[w].open /\ w < l
    BY <1>1, <1>2, <1>3, <1>4 DEF SCORE!Before
  <1> QED
    BY <1>5 DEF w, totals

LEMMA ScoringTyped ==
    SCORE!ScoringAssumption =>
        (SCORE!Init => SCORE!TypeOK) /\ (SCORE!TypeOK /\ [SCORE!Next]_candidates => SCORE!TypeOK')
  <1> SUFFICES ASSUME SCORE!ScoringAssumption PROVE (SCORE!Init => SCORE!TypeOK) /\ (SCORE!TypeOK /\ [SCORE!Next]_candidates => SCORE!TypeOK')
    OBVIOUS
  <1>0. /\ 0 \in 0..MaxHours \cup {Never} /\ Never \in 0..MaxHours \cup {Never} /\ 0 \in 0..WeeklyCap
        /\ \A h \in 0..MaxHours \cup {Never} : (h < MaxHours) => h + 1 \in 0..MaxHours \cup {Never}
    <2>1. MaxHours \in Nat /\ MaxHours < Never /\ WeeklyCap \in Nat /\ Never \in Nat
      BY DEF SCORE!ScoringAssumption
    <2> QED
      BY <2>1
  <1>1. SCORE!Init => SCORE!TypeOK
    <2> SUFFICES ASSUME SCORE!Init PROVE SCORE!TypeOK
      OBVIOUS
    <2>0. PICK todo \in [Candidates -> 0..1], overdue \in [Candidates -> 0..1], deadlines \in [Candidates -> 0..1],
               senior \in SUBSET Candidates, client \in SUBSET Candidates :
              candidates = SCORE!Starting(todo, overdue, deadlines, senior, client)
      BY DEF SCORE!Init
    <2>1. ASSUME NEW l \in Candidates PROVE candidates[l] \in SCORE!Candidate
      <3>1. /\ todo[l] \in Nat /\ overdue[l] \in Nat /\ deadlines[l] \in Nat
            /\ (IF l \in senior THEN 5 ELSE Preferred) \in 1..5
        BY DEF SCORE!ScoringAssumption
      <3>2. Never \in 0..MaxHours \cup {Never} /\ 0 \in 0..WeeklyCap /\ (l \in client) \in BOOLEAN
        BY <1>0
      <3> DEFINE s == IF l \in senior THEN 5 ELSE Preferred
                 b == l \in client
      <3> HIDE DEF s, b
      <3>3. [excluded |-> {}, hours |-> Never, open |-> 0, week |-> 0,
             tasks |-> todo[l], overdue |-> overdue[l], deadlines |-> deadlines[l],
             continuity |-> b, priority |-> 0, seniority |-> s] \in SCORE!Candidate
        BY <3>1, <3>2 DEF SCORE!Candidate, s, b
      <3>4. candidates[l] = [excluded |-> {}, hours |-> Never, open |-> 0, week |-> 0,
             tasks |-> todo[l], overdue |-> overdue[l], deadlines |-> deadlines[l],
             continuity |-> b, priority |-> 0, seniority |-> s]
        BY <2>0 DEF s, b, SCORE!Starting
      <3> QED
        BY <3>3, <3>4
    <2>2. candidates = [l \in Candidates |-> candidates[l]]
      BY <2>0 DEF SCORE!Starting
    <2> QED
      BY <2>1, <2>2 DEF SCORE!TypeOK
  <1>2. ASSUME SCORE!TypeOK, SCORE!AssignWinner PROVE SCORE!TypeOK'
    <2> DEFINE w == SCORE!Winner
               was == candidates[w]
               is == [was EXCEPT !.hours = 0, !.open = @ + 1, !.week = @ + 1]
    <2>1. w \in SCORE!Eligible /\ w \in Candidates
      BY <1>2, WinnerComesFirst, EligibleTyped DEF SCORE!AssignWinner
    <2>2. was \in SCORE!Candidate /\ was.week < WeeklyCap
      <3>1. was \in SCORE!Candidate /\ SCORE!EligibilityCodes(was) = {}
        BY <1>2, <2>1, EligibleTyped DEF SCORE!Eligible
      <3>2. was.week \in 0..WeeklyCap /\ WeeklyCap \in Nat
        BY <3>1 DEF SCORE!Candidate, SCORE!ScoringAssumption
      <3> QED
        BY <3>1, <3>2 DEF SCORE!EligibilityCodes
    <2>3. candidates' = [candidates EXCEPT ![w] = is]
      BY <1>2, <2>1 DEF SCORE!AssignWinner, SCORE!TypeOK
    <2>4. is \in SCORE!Candidate
      <3> HIDE DEF was
      <3>1. was.open + 1 \in Nat /\ was.week + 1 \in 0..WeeklyCap
        BY <2>2 DEF SCORE!Candidate, SCORE!ScoringAssumption
      <3> QED
        BY <1>0, <2>2, <3>1 DEF SCORE!Candidate
    <2> HIDE DEF is
    <2> QED
      BY <1>2, <2>1, <2>3, <2>4 DEF SCORE!TypeOK
  <1>3. ASSUME SCORE!TypeOK, SCORE!HourPasses PROVE SCORE!TypeOK'
    <2> DEFINE is(l) == [candidates[l] EXCEPT !.hours = IF @ < MaxHours THEN @ + 1 ELSE @]
    <2>1. candidates' = [l \in Candidates |-> is(l)]
      BY <1>3 DEF SCORE!HourPasses
    <2>2. ASSUME NEW c \in SCORE!Candidate
          PROVE  [c EXCEPT !.hours = IF @ < MaxHours THEN @ + 1 ELSE @] \in SCORE!Candidate
      BY <1>0 DEF SCORE!Candidate
    <2>3. \A l \in Candidates : is(l) \in SCORE!Candidate
      BY <1>3, <2>2 DEF SCORE!TypeOK
    <2> HIDE DEF is
    <2> QED
      BY <2>1, <2>3 DEF SCORE!TypeOK
  <1>4. SCORE!TypeOK /\ [SCORE!Next]_candidates => SCORE!TypeOK'
    BY <1>2, <1>3 DEF SCORE!Next, SCORE!TypeOK
  <1> QED
    BY <1>1, <1>4

-----------------------------------------------------------------------------
(* The conflict gate of several checks: what MCMatters instantiates and     *)
(* what the theorems about ConflictGate speak of are the same gate.        *)

MORE == INSTANCE ConflictGateProofs WITH MaxChecks <- MoreChecks, MaxDecisions <- FewDecisions

LEMMA GateOfChecksIsDeserved == GATES!Spec => []GATES!OpenGateIsDeserved
  <1>1. MORE!Spec => []MORE!OpenGateIsDeserved
    BY MatterAssumption, BoundsAssumption, MORE!GateIsDeservedUnlessCrossed
  <1>2. GATES!Init => MORE!Init
    BY DEF GATES!Init, MORE!Init, GATES!Idle, MORE!Idle
  <1>3. ASSUME NEW f
        PROVE  GATES!CombinedGate(f) = MORE!CombinedGate(f)
    BY DEF GATES!CombinedGate, MORE!CombinedGate, GATES!CheckGateOpen, MORE!CheckGateOpen, GATES!Standing, MORE!Standing, GATES!Latest, MORE!Latest, GATES!AllSigned, MORE!AllSigned, GATES!ScreensActive, MORE!ScreensActive
  <1>4. ASSUME NEW f, NEW r PROVE GATES!Written(f, r) = MORE!Written(f, r)
    BY DEF GATES!Written, MORE!Written, GATES!AddCheck, MORE!AddCheck, GATES!AddDecision, MORE!AddDecision
  <1>5. ASSUME NEW p, NEW r PROVE GATES!Begin(p, r) <=> MORE!Begin(p, r)
    BY <1>3, <1>4 DEF GATES!Begin, MORE!Begin, GATES!Refreshes, MORE!Refreshes, GATES!Idle, MORE!Idle
  <1>6. ASSUME NEW p PROVE GATES!RunConflictCheck(p) <=> MORE!RunConflictCheck(p)
    BY <1>5 DEF GATES!RunConflictCheck, MORE!RunConflictCheck
  <1>7. ASSUME NEW r PROVE GATES!ValidDecision(r) <=> MORE!ValidDecision(r)
    BY DEF GATES!ValidDecision, MORE!ValidDecision, GATES!Standing, MORE!Standing, GATES!Latest, MORE!Latest
  <1>8. ASSUME NEW p PROVE GATES!RecordDecision(p) <=> MORE!RecordDecision(p)
    <2> DEFINE r(c, kind, old, clients, screen) ==
                 [op |-> "decision", check |-> c, kind |-> kind, supersedes |-> old,
                  clients |-> clients, screen |-> screen, gate |-> "kept"]
    <2>1. ASSUME NEW c, NEW kind, NEW old, NEW clients, NEW screen
          PROVE  /\ GATES!ValidDecision(r(c, kind, old, clients, screen)) <=> MORE!ValidDecision(r(c, kind, old, clients, screen))
                 /\ GATES!Begin(p, r(c, kind, old, clients, screen)) <=> MORE!Begin(p, r(c, kind, old, clients, screen))
      BY <1>5, <1>7
    <2>2. GATES!RecordDecision(p) <=>
            /\ Len(file.decisions) < FewDecisions
            /\ \E c \in DOMAIN file.checks, kind \in GATES!Kinds, old \in 0..FewDecisions, clients \in SUBSET Clients, screen \in BOOLEAN :
                  GATES!ValidDecision(r(c, kind, old, clients, screen)) /\ GATES!Begin(p, r(c, kind, old, clients, screen))
      BY DEF GATES!RecordDecision
    <2>3. MORE!RecordDecision(p) <=>
            /\ Len(file.decisions) < FewDecisions
            /\ \E c \in DOMAIN file.checks, kind \in GATES!Kinds, old \in 0..FewDecisions, clients \in SUBSET Clients, screen \in BOOLEAN :
                  MORE!ValidDecision(r(c, kind, old, clients, screen)) /\ MORE!Begin(p, r(c, kind, old, clients, screen))
      BY DEF MORE!RecordDecision, GATES!Kinds, MORE!Kinds
    <2> HIDE DEF r
    <2> QED
      BY <2>1, <2>2, <2>3
  <1>9. ASSUME NEW p PROVE GATES!ChangeWaiver(p) <=> MORE!ChangeWaiver(p)
    BY ZenonT(30), <1>5 DEF GATES!ChangeWaiver, MORE!ChangeWaiver, GATES!WaiverMoves, MORE!WaiverMoves, GATES!WaiverTask, MORE!WaiverTask
  <1>10. ASSUME NEW p PROVE GATES!ChangeScreen(p) <=> MORE!ChangeScreen(p)
    BY <1>5 DEF GATES!ChangeScreen, MORE!ChangeScreen
  <1>11. ASSUME NEW p PROVE GATES!Commit(p) <=> MORE!Commit(p)
    <2>1. ASSUME NEW r
          PROVE  /\ GATES!Fits(r) <=> MORE!Fits(r)
                 /\ GATES!Refreshes(r) <=> MORE!Refreshes(r)
                 /\ GATES!Completes(r) = MORE!Completes(r)
                 /\ GATES!TasksAfter(r) = MORE!TasksAfter(r)
                 /\ GATES!StageAfter(r) = MORE!StageAfter(r)
      BY DEF GATES!Fits, MORE!Fits, GATES!Refreshes, MORE!Refreshes, GATES!Completes, MORE!Completes, GATES!TasksAfter, MORE!TasksAfter, GATES!StageAfter, MORE!StageAfter, GATES!DecisionTask, MORE!DecisionTask, GATES!WaiverTask, MORE!WaiverTask
    <2>2. GATES!Idle = MORE!Idle
      BY DEF GATES!Idle, MORE!Idle
    <2> QED
      BY <1>4, <2>1, <2>2 DEF GATES!Commit, MORE!Commit
  <1>12. ASSUME NEW p PROVE GATES!Rollback(p) <=> MORE!Rollback(p)
    BY DEF GATES!Rollback, MORE!Rollback, GATES!Idle, MORE!Idle
  <1>13. [GATES!Next]_(GATES!vars) => [MORE!Next]_(MORE!vars)
    <2>1. GATES!Next => MORE!Next
      BY <1>6, <1>8, <1>9, <1>10, <1>11, <1>12 DEF GATES!Next, MORE!Next
    <2> QED
      BY <2>1 DEF GATES!vars, MORE!vars
  <1>14. MORE!OpenGateIsDeserved => GATES!OpenGateIsDeserved
    BY <1>3 DEF GATES!OpenGateIsDeserved, MORE!OpenGateIsDeserved
  <1> QED
    BY <1>1, <1>2, <1>13, <1>14, PTL DEF GATES!Spec, MORE!Spec

-----------------------------------------------------------------------------
(* What the run of MCMatters checks, for every value of its constants.  The *)
(* components share no state there, so a step of one leaves the others as   *)
(* they are.                                                                *)

LEMMA MatterRunsComponents ==
    MatterSpec => FIT!Spec /\ TALK!Spec /\ ASSIGN!Spec
  <1>1. MatterInit => FIT!Init /\ TALK!Init /\ ASSIGN!Init
    BY DEF MatterInit
  <1>2. [MatterNext]_matterVars => [FIT!Next]_(FIT!vars)
    BY DEF MatterNext, matterVars, fitVars, FIT!vars
  <1>3. [MatterNext]_matterVars => [TALK!Next]_(TALK!vars)
    BY DEF MatterNext, matterVars, talkVars, TALK!vars
  <1>4. [MatterNext]_matterVars => [ASSIGN!Next]_(ASSIGN!vars)
    BY DEF MatterNext, matterVars, assignVars, ASSIGN!vars
  <1> QED
    BY <1>1, <1>2, <1>3, <1>4, PTL DEF MatterSpec, FIT!Spec, TALK!Spec, ASSIGN!Spec

\* What the rules cannot settle stays before a lawyer, or a lawyer decided it,
\* however evaluations and decisions of any number of requests interleave.
THEOREM BorderlineStaysBeforeALawyer == MatterSpec => []BorderlineIsReviewed
  BY MatterRunsComponents, BorderlineOfRules, PTL DEF BorderlineIsReviewed

\* No case detail is on file before the person saw the disclosures and a check
\* of names they gave came back clear, however their requests overlap.
THEOREM DetailsStayBehindTheCheck == MatterSpec => []DetailsComeAfterTheCheck
  <1>1. TALK!Spec => []TALK!DetailsComeAfterTheCheck
    BY MatterAssumption, DetailsOfConversation
  <1> QED
    BY <1>1, MatterRunsComponents, PTL DEF DetailsComeAfterTheCheck

\* A matter does not lose its lawyer unnoticed, however runs, overrides and
\* screens of any number of requests overlap.
THEOREM AssigneesStayOfRecord == MatterSpec => []AssigneeIsOfRecord
  <1>1. ASSIGN!Spec => []ASSIGN!AssigneeIsOfRecord
    BY MatterAssumption, AssigneesOfRuns
  <1> QED
    BY <1>1, MatterRunsComponents, PTL DEF AssigneeIsOfRecord

\* Whatever the lawyers' loads, pasts and weights, and however the factors of
\* some stretch the scale of the others: a lawyer as good as the winner in
\* everything is passed over on a complete tie only.
THEOREM NobodyIsPassedOverButOnATie ==
    MatterSpec => [](focus = "scoring" => SCORE!PassedOverOnATieOnly)
  <1> DEFINE Typed == focus = "scoring" => SCORE!TypeOK
             Fair == focus = "scoring" => SCORE!PassedOverOnATieOnly
  <1>1. MatterInit => Typed
    BY MatterAssumption, ScoringTyped DEF MatterInit
  <1>2. Typed /\ [MatterNext]_matterVars => Typed'
    <2>1. [MatterNext]_matterVars => focus' = focus /\ (focus = "scoring" => [SCORE!Next]_candidates)
      BY DEF MatterNext, matterVars
    <2>2. SCORE!TypeOK /\ [SCORE!Next]_candidates => SCORE!TypeOK'
      BY MatterAssumption, ScoringTyped
    <2> QED
      BY <2>1, <2>2
  <1>3. Typed => Fair
    BY MatterAssumption, OnlyATiePassesOver
  <1> HIDE DEF Typed
  <1> QED
    BY <1>1, <1>2, <1>3, PTL DEF MatterSpec

\* The stored gate lets nothing through that its checks do not allow, but where
\* transactions crossed, until the next that crosses nothing.
THEOREM TheStoredGateIsDeserved == MatterSpec => []GateIsDeserved
  <1> DEFINE F == focus = "gate of checks"
  <1>1. MatterSpec => []F \/ []~F
    <2>1. [MatterNext]_matterVars => (F <=> F')
      BY DEF MatterNext, matterVars
    <2> QED
      BY <2>1, PTL DEF MatterSpec
  <1>2. MatterSpec /\ []F => GATES!Spec
    <2>1. MatterInit /\ F => GATES!Init
      BY DEF MatterInit
    <2>2. F /\ [MatterNext]_matterVars => [GATES!Next]_(GATES!vars)
      BY DEF MatterNext, matterVars, vars, GATES!vars
    <2> QED
      BY <2>1, <2>2, PTL DEF MatterSpec, GATES!Spec
  <1>3. MatterSpec /\ []~F => Spec
    <2>1. MatterInit /\ ~F => Init
      BY DEF MatterInit
    <2>2. ~F /\ [MatterNext]_matterVars => [Next]_vars
      BY DEF MatterNext, matterVars, vars
    <2> QED
      BY <2>1, <2>2, PTL DEF MatterSpec, Spec
  <1>4. /\ F /\ GATES!OpenGateIsDeserved => GateIsDeserved
        /\ ~F /\ OpenGateIsDeserved => GateIsDeserved
    BY DEF GateIsDeserved
  <1> HIDE DEF F
  <1> QED
    BY <1>1, <1>2, <1>3, <1>4, GateOfChecksIsDeserved, GateIsDeservedUnlessCrossed, PTL
=============================================================================
