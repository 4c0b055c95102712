------------------------- MODULE ConflictGateProofs -------------------------
(* The theorems about ConflictGate: for any clients, any number of         *)
(* requests at a time and every bound.                                     *)
EXTENDS ConflictGate, CommonLemmas

-----------------------------------------------------------------------------
(* Types.                                                                  *)

FileType == [checks : Seq(CheckType), decisions : Seq(DecisionType),
             waivers : [1..MaxDecisions -> [Clients -> WaiverStatuses]],
             screens : [1..MaxDecisions -> ScreenStatuses]]

Outcomes == {"clear", "possible", "definite"}
Gates == {"open", "closed", "kept"}

CheckReq == [op : {"check"}, outcome : Outcomes, gate : Gates]
DecisionReq == [op : {"decision"}, check : 1..MaxChecks, kind : Kinds,
                supersedes : 0..MaxDecisions, clients : SUBSET Clients,
                screen : BOOLEAN, gate : Gates]
WaiverReq == [op : {"waiver"}, decision : 1..MaxDecisions, client : Clients,
              status : WaiverStatuses \ {"none", "draft", "cancelled"}, gate : Gates,
              task : SUBSET [of : {"waiver"}, decision : 1..MaxDecisions, client : Clients]]
ScreenReq == [op : {"screen"}, decision : 1..MaxDecisions, status : {"active", "lifted"},
              gate : Gates]
RequestType == {Idle} \cup CheckReq \cup DecisionReq \cup WaiverReq \cup ScreenReq

FileTyped ==
    /\ file \in FileType
    /\ Len(file.checks) <= MaxChecks /\ Len(file.decisions) <= MaxDecisions
    /\ tasks \subseteq Tasks
RequestsTyped == request \in [Requests -> RequestType]

Check(c) == [of |-> "check", check |-> c]

\* A decision under way is about a check that is there, and corrects a
\* decision on it.
Founded(r) ==
    r.op = "decision" =>
        /\ r.check \in DOMAIN file.checks
        /\ r.supersedes # 0 => /\ r.supersedes \in DOMAIN file.decisions
                               /\ file.decisions[r.supersedes].check = r.check

\* The decisions on a check nobody has decided, and on one that is decided.
DecidedOnce(c) ==
    /\ ~file.checks[c].decided => \A d \in DOMAIN file.decisions : file.decisions[d].check # c
    /\ file.checks[c].decided => \E d : FirstDecisions(c) = {d}

\* A check has an open task until it is decided, and only then.
HasItsTask(c) ==
    /\ Check(c) \in tasks => ~file.checks[c].decided
    /\ file.checks[c].outcome # "clear" /\ ~file.checks[c].decided => Check(c) \in tasks

GateInv ==
    /\ FileTyped /\ RequestsTyped
    /\ \A p \in Requests : Founded(request[p])
    /\ \A c \in DOMAIN file.checks : DecidedOnce(c) /\ HasItsTask(c)
    /\ \A d \in DOMAIN file.decisions : file.decisions[d].check \in DOMAIN file.checks
    /\ \A c \in 1..MaxChecks : Check(c) \in tasks => c \in DOMAIN file.checks

LEMMA RequestByOperation ==
    ASSUME NEW r \in RequestType
    PROVE  /\ r.op = "check" => r \in CheckReq
           /\ r.op = "decision" => r \in DecisionReq
           /\ r.op = "waiver" => r \in WaiverReq
           /\ r.op = "screen" => r \in ScreenReq
           /\ r # Idle => r.op \in {"check", "decision", "waiver", "screen"}
  BY DEF RequestType, Idle, CheckReq, DecisionReq, WaiverReq, ScreenReq

LEMMA FileParts ==
    ASSUME FileTyped
    PROVE  /\ file.checks \in Seq(CheckType) /\ file.decisions \in Seq(DecisionType)
           /\ file.waivers \in [1..MaxDecisions -> [Clients -> WaiverStatuses]]
           /\ file.screens \in [1..MaxDecisions -> ScreenStatuses]
           /\ \A c \in DOMAIN file.checks : c \in 1..MaxChecks
           /\ \A d \in DOMAIN file.decisions : d \in 1..MaxDecisions
  BY BoundsAssumption DEF FileTyped, FileType

-----------------------------------------------------------------------------
(* A transaction begins.                                                   *)

LEMMA CombinedIsGate == \A f : CombinedGate(f) \in {"open", "closed"}
  BY DEF CombinedGate

\* A consent moves on from where it stood.
Moves(r) == r.op = "waiver" => r.status \in WaiverMoves(file.waivers[r.decision][r.client])

Begins(p) ==
    /\ UNCHANGED <<file, tasks, stage, gate, behind, crossed>>
    /\ request[p] = Idle
    /\ \E r \in RequestType : /\ r # Idle /\ Founded(r) /\ Moves(r)
                              /\ r.gate = IF Refreshes(r) THEN CombinedGate(Written(file, r)) ELSE "kept"
                              /\ request' = [request EXCEPT ![p] = r]

\* The gate is worked out from what the request is to write.
LEMMA GateIsApart ==
    ASSUME NEW r \in RequestType, r # Idle, NEW g \in Gates, NEW t, t = [r EXCEPT !.gate = g]
    PROVE  /\ t \in RequestType /\ t # Idle /\ t.gate = g
           /\ t.op = r.op /\ Refreshes(t) = Refreshes(r) /\ Written(file, t) = Written(file, r)
           /\ Founded(r) => Founded(t)
           /\ Moves(r) => Moves(t)
  <1>1. CASE r \in CheckReq
    <2>1. t \in CheckReq /\ t.gate = g
      BY <1>1 DEF CheckReq
    <2>2. t.op = "check" /\ r.op = "check" /\ t.outcome = r.outcome
      BY <1>1 DEF CheckReq
    <2>3. AddCheck(file, t) = AddCheck(file, r)
      BY <2>2 DEF AddCheck
    <2>4. Written(file, t) = AddCheck(file, t) /\ Written(file, r) = AddCheck(file, r)
      BY <2>2 DEF Written
    <2> QED
      BY <2>1, <2>2, <2>3, <2>4 DEF RequestType, Idle, CheckReq, Refreshes, Founded, Moves
  <1>2. CASE r \in DecisionReq
    <2>1. t \in DecisionReq /\ t.gate = g
      BY <1>2 DEF DecisionReq
    <2>2. /\ t.op = "decision" /\ r.op = "decision" /\ t.check = r.check /\ t.kind = r.kind
          /\ t.supersedes = r.supersedes /\ t.clients = r.clients /\ t.screen = r.screen
      BY <1>2 DEF DecisionReq
    <2>3. AddDecision(file, t) = AddDecision(file, r)
      BY <2>2 DEF AddDecision
    <2>4. Written(file, t) = AddDecision(file, t) /\ Written(file, r) = AddDecision(file, r)
      BY <2>2 DEF Written
    <2> QED
      BY <2>1, <2>2, <2>3, <2>4 DEF RequestType, Idle, DecisionReq, Refreshes, Founded, Moves
  <1>3. CASE r \in WaiverReq
    <2>1. t \in WaiverReq /\ t.gate = g
      BY <1>3 DEF WaiverReq
    <2>2. /\ t.op = "waiver" /\ r.op = "waiver" /\ t.decision = r.decision /\ t.client = r.client
          /\ t.status = r.status
      BY <1>3 DEF WaiverReq
    <2>3. Written(file, t) = Written(file, r)
      BY <2>2 DEF Written
    <2> QED
      BY <2>1, <2>2, <2>3 DEF RequestType, Idle, WaiverReq, Refreshes, Founded, Moves
  <1>4. CASE r \in ScreenReq
    <2>1. t \in ScreenReq /\ t.gate = g
      BY <1>4 DEF ScreenReq
    <2>2. t.op = "screen" /\ r.op = "screen" /\ t.decision = r.decision /\ t.status = r.status
      BY <1>4 DEF ScreenReq
    <2>3. Written(file, t) = Written(file, r)
      BY <2>2 DEF Written
    <2> QED
      BY <2>1, <2>2, <2>3 DEF RequestType, Idle, ScreenReq, Refreshes, Founded, Moves
  <1> QED
    BY <1>1, <1>2, <1>3, <1>4 DEF RequestType

LEMMA BeginEffect ==
    ASSUME NEW p \in Requests, NEW r \in RequestType, r # Idle, Founded(r), Moves(r), Begin(p, r)
    PROVE  Begins(p)
  <1> DEFINE g == IF Refreshes(r) THEN CombinedGate(Written(file, r)) ELSE "kept"
             t == [r EXCEPT !.gate = g]
  <1>1. g \in Gates
    BY CombinedIsGate DEF Gates
  <1>2. request[p] = Idle /\ request' = [request EXCEPT ![p] = t] /\ UNCHANGED <<file, tasks, stage, gate, behind, crossed>>
    BY DEF Begin
  <1>3. t \in RequestType /\ t # Idle /\ t.gate = g /\ Founded(t) /\ Moves(t)
    <2> HIDE DEF g
    <2> QED
      BY <1>1, GateIsApart
  <1>4. Refreshes(t) = Refreshes(r) /\ Written(file, t) = Written(file, r)
    <2> HIDE DEF g
    <2> QED
      BY <1>1, GateIsApart
  <1> HIDE DEF t
  <1> QED
    BY <1>2, <1>3, <1>4 DEF Begins

\* What a handler checks founds its request.
LEMMA HandlerEffect ==
    ASSUME GateInv, NEW p \in Requests,
           RunConflictCheck(p) \/ RecordDecision(p) \/ ChangeWaiver(p) \/ ChangeScreen(p)
    PROVE  Begins(p)
  <1>1. CASE RunConflictCheck(p)
    <2> PICK outcome \in Outcomes :
             Begin(p, [op |-> "check", outcome |-> outcome, gate |-> "kept"])
      BY <1>1 DEF RunConflictCheck, Outcomes
    <2> DEFINE r == [op |-> "check", outcome |-> outcome, gate |-> "kept"]
    <2>1. r \in CheckReq
      BY DEF CheckReq, Gates
    <2>2. r # Idle /\ Founded(r) /\ Moves(r) /\ r \in RequestType
      BY <2>1 DEF Idle, Founded, Moves, RequestType
    <2> HIDE DEF r
    <2> QED
      BY <2>2, BeginEffect DEF r
  <1>2. CASE RecordDecision(p)
    <2> PICK c \in DOMAIN file.checks, kind \in Kinds, old \in 0..MaxDecisions,
             clients \in SUBSET Clients, screen \in BOOLEAN :
             LET r == [op |-> "decision", check |-> c, kind |-> kind, supersedes |-> old,
                       clients |-> clients, screen |-> screen, gate |-> "kept"]
             IN  ValidDecision(r) /\ Begin(p, r)
      BY <1>2 DEF RecordDecision
    <2> DEFINE r == [op |-> "decision", check |-> c, kind |-> kind, supersedes |-> old,
                     clients |-> clients, screen |-> screen, gate |-> "kept"]
    <2>1. c \in 1..MaxChecks
      BY FileParts DEF GateInv
    <2>2. r \in DecisionReq
      BY <2>1 DEF DecisionReq, Gates
    <2>3. ValidDecision(r) /\ Begin(p, r)
      OBVIOUS
    <2>4. r.check \in DOMAIN file.checks
      OBVIOUS
    <2> HIDE DEF r
    <2>5. r.supersedes # 0 => r.supersedes \in Standing(file, r.check)
      BY <2>3 DEF ValidDecision
    <2>6. Founded(r)
      BY <2>4, <2>5 DEF Founded, Standing
    <2>7. r \in RequestType /\ r # Idle /\ Moves(r)
      BY <2>2 DEF RequestType, DecisionReq, Idle, Moves
    <2> QED
      BY <2>3, <2>6, <2>7, BeginEffect
  <1>3. CASE ChangeWaiver(p)
    <2> PICK d \in DOMAIN file.decisions, c \in Clients :
             \E status \in WaiverMoves(file.waivers[d][c]) :
                 Begin(p, [op |-> "waiver", decision |-> d, client |-> c, status |-> status,
                           gate |-> "kept", task |-> tasks \cap {WaiverTask(d, c)}])
      BY <1>3 DEF ChangeWaiver
    <2> PICK status \in WaiverMoves(file.waivers[d][c]) :
                 Begin(p, [op |-> "waiver", decision |-> d, client |-> c, status |-> status,
                           gate |-> "kept", task |-> tasks \cap {WaiverTask(d, c)}])
      OBVIOUS
    <2> DEFINE its == tasks \cap {WaiverTask(d, c)}
               r == [op |-> "waiver", decision |-> d, client |-> c, status |-> status,
                     gate |-> "kept", task |-> its]
    <2>1. d \in 1..MaxDecisions
      BY FileParts DEF GateInv
    <2>2. status \in WaiverStatuses \ {"none", "draft", "cancelled"}
      BY DEF WaiverMoves, WaiverStatuses
    <2>3. its \in SUBSET [of : {"waiver"}, decision : 1..MaxDecisions, client : Clients]
      BY <2>1 DEF WaiverTask
    <2> HIDE DEF its
    <2>4. r \in WaiverReq
      BY <2>1, <2>2, <2>3 DEF WaiverReq, Gates
    <2>5. r \in RequestType /\ r # Idle /\ Founded(r) /\ Moves(r)
      BY <2>4 DEF RequestType, Idle, Founded, Moves
    <2>6. Begin(p, r)
      BY DEF its
    <2> HIDE DEF r
    <2> QED
      BY <2>5, <2>6, BeginEffect
  <1>4. CASE ChangeScreen(p)
    <2> PICK d \in DOMAIN file.decisions, status \in {"active", "lifted"} :
             Begin(p, [op |-> "screen", decision |-> d, status |-> status, gate |-> "kept"])
      BY <1>4 DEF ChangeScreen
    <2> DEFINE r == [op |-> "screen", decision |-> d, status |-> status, gate |-> "kept"]
    <2>1. d \in 1..MaxDecisions
      BY FileParts DEF GateInv
    <2>2. r \in ScreenReq
      BY <2>1 DEF ScreenReq, Gates
    <2>3. r \in RequestType /\ r # Idle /\ Founded(r) /\ Moves(r)
      BY <2>2 DEF RequestType, Idle, Founded, Moves
    <2> HIDE DEF r
    <2> QED
      BY <2>3, BeginEffect DEF r
  <1> QED
    BY <1>1, <1>2, <1>3, <1>4

-----------------------------------------------------------------------------
(* A transaction commits.                                                  *)

LEMMA IdleIsFounded == Founded(Idle) /\ Idle \in RequestType
  BY DEF Founded, Idle, RequestType

LEMMA OthersStayTyped ==
    ASSUME GateInv, NEW p \in Requests, request' = [request EXCEPT ![p] = Idle]
    PROVE  /\ request' \in [Requests -> RequestType]
           /\ \A q \in Requests : request'[q] = Idle \/ request'[q] = request[q]
  BY IdleIsFounded DEF GateInv, RequestsTyped

\* A new check is undecided, has its task unless it is clear, and no decision.
LEMMA CheckCommits ==
    ASSUME GateInv, NEW p \in Requests, NEW r \in CheckReq, Fits(r),
           file' = Written(file, r), tasks' = TasksAfter(r),
           request' = [request EXCEPT ![p] = Idle]
    PROVE  GateInv'
  <1> DEFINE n == Len(file.checks) + 1
             new == [outcome |-> r.outcome, decided |-> FALSE]
  <1>1. r.op = "check" /\ r.outcome \in Outcomes
    BY DEF CheckReq
  <1>2. Len(file.checks) < MaxChecks
    BY <1>1 DEF Fits
  <1>3. file' = [file EXCEPT !.checks = Append(@, new)]
    BY <1>1 DEF Written, AddCheck
  <1>4. new \in CheckType
    BY <1>1 DEF CheckType, Outcomes
  <1> HIDE DEF new
  <1>5. file \in FileType /\ file.checks \in Seq(CheckType)
    BY FileParts DEF GateInv, FileTyped
  <1>6. /\ file'.checks = Append(file.checks, new) /\ file'.decisions = file.decisions
        /\ file'.waivers = file.waivers /\ file'.screens = file.screens
    BY <1>3, <1>5 DEF FileType
  <1>7. file' \in FileType
    <2> DEFINE longer == Append(file.checks, new)
    <2>1. longer \in Seq(CheckType) /\ file' = [file EXCEPT !.checks = longer]
      BY <1>3, <1>4, <1>5
    <2> HIDE DEF longer
    <2> QED
      BY <1>5, <2>1 DEF FileType
  <1>8. /\ Len(file'.checks) = n /\ DOMAIN file'.checks = 1..n
        /\ \A c \in DOMAIN file.checks : file'.checks[c] = file.checks[c]
        /\ file'.checks[n] = new
        /\ DOMAIN file.checks = 1..(n - 1) /\ n \in Nat \ {0}
    BY <1>4, <1>5, <1>6
  <1>9. n \in 1..MaxChecks
    BY <1>2, <1>5, BoundsAssumption
  <1>10. new.outcome = r.outcome /\ ~new.decided
    BY DEF new
  <1>11. tasks' = tasks \cup (IF r.outcome = "clear" THEN {} ELSE {Check(n)})
    BY <1>1 DEF TasksAfter, Check
  <1>12. FileTyped'
    <2>1. tasks' \subseteq Tasks
      BY <1>9, <1>11 DEF GateInv, FileTyped, Tasks, Check
    <2> QED
      BY <1>2, <1>5, <1>6, <1>7, <1>8, <2>1, BoundsAssumption DEF GateInv, FileTyped
  <1>13. RequestsTyped' /\ \A q \in Requests : Founded(request[q])'
    <2>1. \A q \in Requests : request'[q] = Idle \/ (request'[q] = request[q] /\ Founded(request[q]))
      BY OthersStayTyped DEF GateInv
    <2>2. DOMAIN file.checks \subseteq DOMAIN file'.checks
      BY <1>8
    <2> QED
      BY <1>6, <2>1, <2>2, OthersStayTyped, IdleIsFounded DEF RequestsTyped, Founded, Idle
  <1>14. \A c, d \in Nat : Check(c) = Check(d) => c = d
    BY DEF Check
  <1>15. ASSUME NEW c \in DOMAIN file'.checks
         PROVE  DecidedOnce(c)' /\ HasItsTask(c)'
    <2>1. CASE c \in DOMAIN file.checks
      <3>1. DecidedOnce(c) /\ HasItsTask(c) /\ c # n /\ c \in Nat /\ file'.checks[c] = file.checks[c]
        BY <1>8, <2>1 DEF GateInv
      <3>2. Check(c) \in tasks' <=> Check(c) \in tasks
        BY <1>8, <1>11, <1>14, <3>1
      <3> QED
        BY <1>6, <3>1, <3>2 DEF DecidedOnce, HasItsTask, FirstDecisions
    <2>2. CASE c = n
      <3>1. \A d \in DOMAIN file.decisions : file.decisions[d].check # n
        BY <1>8 DEF GateInv
      <3>2. ~file'.checks[c].decided /\ file'.checks[c].outcome = r.outcome
        BY <1>8, <1>10, <2>2
      <3>3. r.outcome # "clear" => Check(c) \in tasks'
        BY <1>11, <2>2
      <3> QED
        BY <1>6, <2>2, <3>1, <3>2, <3>3 DEF DecidedOnce, HasItsTask
    <2> QED
      BY <1>8, <2>1, <2>2
  <1>16. \A d \in DOMAIN file'.decisions : file'.decisions[d].check \in DOMAIN file'.checks
    BY <1>6, <1>8 DEF GateInv
  <1>17. \A c \in 1..MaxChecks : Check(c) \in tasks' => c \in DOMAIN file'.checks
    BY <1>8, <1>11, <1>14 DEF GateInv
  <1> QED
    BY <1>12, <1>13, <1>15, <1>16, <1>17 DEF GateInv

\* What a decision writes, read back.
LEMMA DecisionEffect ==
    ASSUME GateInv, NEW r \in DecisionReq, Founded(r), Fits(r), file' = Written(file, r),
           NEW n, n = Len(file.decisions) + 1
    PROVE  /\ file' \in FileType
           /\ file'.checks = [file.checks EXCEPT ![r.check].decided = TRUE]
           /\ file'.decisions = Append(file.decisions,
                  [check |-> r.check, kind |-> r.kind, supersedes |-> r.supersedes])
           /\ n \in 1..MaxDecisions /\ Len(file'.decisions) = n
           /\ DOMAIN file.decisions = 1..(n - 1) /\ DOMAIN file'.decisions = 1..n
           /\ \A d \in DOMAIN file.decisions : file'.decisions[d] = file.decisions[d]
           /\ file'.decisions[n].check = r.check /\ file'.decisions[n].supersedes = r.supersedes
           /\ Len(file'.checks) = Len(file.checks) /\ DOMAIN file'.checks = DOMAIN file.checks
  <1> DEFINE dec == [check |-> r.check, kind |-> r.kind, supersedes |-> r.supersedes]
             waivers == [d \in 1..MaxDecisions |-> [c \in Clients |->
                 IF d = n /\ r.kind = "proceed_with_consent" /\ c \in r.clients THEN "draft"
                 ELSE IF d = r.supersedes /\ file.waivers[d][c] \in {"draft", "approved", "sent"}
                      THEN "cancelled" ELSE file.waivers[d][c]]]
             screens == [d \in 1..MaxDecisions |->
                 IF d = n /\ r.screen THEN "requested"
                 ELSE IF d = r.supersedes /\ file.screens[d] = "requested" THEN "lifted" ELSE file.screens[d]]
             checks == [file.checks EXCEPT ![r.check].decided = TRUE]
  <1>1. r.op = "decision" /\ r.check \in DOMAIN file.checks
    BY DEF DecisionReq, Founded
  <1>2. file' = [checks |-> checks, decisions |-> Append(file.decisions, dec),
                 waivers |-> waivers, screens |-> screens]
    BY <1>1 DEF Written, AddDecision
  <1>3. dec \in DecisionType /\ dec.check = r.check /\ dec.supersedes = r.supersedes
    BY DEF DecisionReq, DecisionType
  <1>4. waivers \in [1..MaxDecisions -> [Clients -> WaiverStatuses]]
    BY FileParts DEF GateInv, WaiverStatuses
  <1>5. screens \in [1..MaxDecisions -> ScreenStatuses]
    BY FileParts DEF GateInv, ScreenStatuses
  <1>6. checks \in Seq(CheckType) /\ Len(checks) = Len(file.checks) /\ DOMAIN checks = DOMAIN file.checks
    <2>1. file.checks \in Seq(CheckType) /\ file.checks[r.check] \in CheckType
      BY <1>1, FileParts DEF GateInv
    <2>2. [file.checks[r.check] EXCEPT !.decided = TRUE] \in CheckType
      BY <2>1 DEF CheckType
    <2>3. checks = [file.checks EXCEPT ![r.check] = [file.checks[r.check] EXCEPT !.decided = TRUE]]
      OBVIOUS
    <2> DEFINE done == [file.checks[r.check] EXCEPT !.decided = TRUE]
    <2>4. done \in CheckType /\ checks = [file.checks EXCEPT ![r.check] = done]
      BY <2>2, <2>3
    <2> HIDE DEF done, checks
    <2> QED
      BY <1>1, <2>1, <2>4
  <1> HIDE DEF dec, waivers, screens, checks
  <1>7. file.decisions \in Seq(DecisionType) /\ Len(file.decisions) < MaxDecisions
    BY <1>1, FileParts DEF GateInv, Fits
  <1>8. /\ file'.checks = checks /\ file'.decisions = Append(file.decisions, dec)
        /\ file' \in FileType
    BY <1>2, <1>3, <1>4, <1>5, <1>6, <1>7 DEF FileType
  <1>9. /\ n \in 1..MaxDecisions /\ Len(file'.decisions) = n
        /\ DOMAIN file.decisions = 1..(n - 1) /\ DOMAIN file'.decisions = 1..n
        /\ \A d \in DOMAIN file.decisions : file'.decisions[d] = file.decisions[d]
        /\ file'.decisions[n] = dec
    BY <1>3, <1>7, <1>8, BoundsAssumption
  <1> QED
    BY <1>3, <1>6, <1>8, <1>9 DEF dec, checks

\* A first decision closes the check's task, and there was none before it; a
\* correction adds no first one.
LEMMA DecisionCommits ==
    ASSUME GateInv, NEW p \in Requests, NEW r \in DecisionReq, Founded(r), Fits(r),
           Completes(r) \subseteq tasks,
           file' = Written(file, r), tasks' = TasksAfter(r),
           request' = [request EXCEPT ![p] = Idle]
    PROVE  GateInv'
  <1> DEFINE n == Len(file.decisions) + 1
             k == r.check
  <1>1. r.op = "decision" /\ k \in DOMAIN file.checks /\ k \in 1..MaxChecks
    BY FileParts DEF DecisionReq, Founded, GateInv
  <1>2. /\ file' \in FileType
        /\ file'.checks = [file.checks EXCEPT ![k].decided = TRUE]
        /\ n \in 1..MaxDecisions /\ Len(file'.decisions) = n
        /\ DOMAIN file.decisions = 1..(n - 1) /\ DOMAIN file'.decisions = 1..n
        /\ \A d \in DOMAIN file.decisions : file'.decisions[d] = file.decisions[d]
        /\ file'.decisions[n].check = k /\ file'.decisions[n].supersedes = r.supersedes
        /\ Len(file'.checks) = Len(file.checks) /\ DOMAIN file'.checks = DOMAIN file.checks
    BY DecisionEffect
  <1>3. file.checks \in Seq(CheckType) /\ n \notin DOMAIN file.decisions
    BY <1>2, FileParts DEF GateInv
  <1>4. /\ file'.checks[k].decided
        /\ \A c \in DOMAIN file.checks : c # k => file'.checks[c] = file.checks[c]
    <2>1. file.checks[k] \in CheckType /\ k \in DOMAIN file.checks
      BY <1>1, <1>3
    <2> QED
      BY <1>2, <1>3, <2>1 DEF CheckType
  <1>5. tasks' = tasks \ DecisionTask(r) /\ DecisionTask(r) \subseteq tasks
    BY <1>1 DEF TasksAfter, Completes
  <1>6. DecisionTask(r) = IF r.supersedes = 0 THEN {Check(k)} ELSE {}
    BY DEF DecisionTask, Check
  <1>7. r.supersedes = 0 => ~file.checks[k].decided
    BY <1>1, <1>5, <1>6 DEF GateInv, HasItsTask
  <1>8. r.supersedes # 0 => file.checks[k].decided
    BY <1>1 DEF GateInv, DecidedOnce, Founded
  <1>9. \A c, d \in Nat : Check(c) = Check(d) => c = d
    BY DEF Check
  <1> HIDE DEF n
  <1>10. FileTyped'
    BY <1>2, <1>5, BoundsAssumption DEF GateInv, FileTyped
  <1>11. RequestsTyped' /\ \A q \in Requests : Founded(request[q])'
    <2>1. \A q \in Requests : request'[q] = Idle \/ (request'[q] = request[q] /\ Founded(request[q]))
      BY OthersStayTyped DEF GateInv
    <2>2. DOMAIN file.decisions \subseteq DOMAIN file'.decisions
      BY <1>2
    <2>3. ASSUME NEW q \in Requests PROVE Founded(request[q])'
      BY <1>2, <2>1, <2>2 DEF Founded, Idle
    <2> QED
      BY <2>3, OthersStayTyped DEF RequestsTyped
  <1>12. ASSUME NEW c \in DOMAIN file'.checks
         PROVE  DecidedOnce(c)'
    <2>1. CASE c # k
      <3>1. DecidedOnce(c) /\ file'.checks[c] = file.checks[c]
        BY <1>2, <1>4, <2>1 DEF GateInv
      <3>2. FirstDecisions(c)' = FirstDecisions(c)
        BY <1>2, <2>1 DEF FirstDecisions
      <3>3. (\A d \in DOMAIN file.decisions : file.decisions[d].check # c)
                => \A d \in DOMAIN file'.decisions : file'.decisions[d].check # c
        BY <1>2, <2>1
      <3> QED
        BY <3>1, <3>2, <3>3 DEF DecidedOnce
    <2>2. CASE c = k /\ r.supersedes = 0
      <3>1. \A d \in DOMAIN file.decisions : file.decisions[d].check # c
        BY <1>1, <1>7, <2>2 DEF GateInv, DecidedOnce
      <3>2. FirstDecisions(c)' = {n}
        BY <1>2, <2>2, <3>1 DEF FirstDecisions
      <3> QED
        BY <1>4, <2>2, <3>2 DEF DecidedOnce
    <2>3. CASE c = k /\ r.supersedes # 0
      <3>1. \E d : FirstDecisions(c) = {d}
        BY <1>1, <1>8, <2>3 DEF GateInv, DecidedOnce
      <3>2. FirstDecisions(c)' = FirstDecisions(c)
        BY <1>2, <1>3, <2>3 DEF FirstDecisions
      <3> QED
        BY <1>4, <2>3, <3>1, <3>2 DEF DecidedOnce
    <2> QED
      BY <2>1, <2>2, <2>3
  <1>13. ASSUME NEW c \in DOMAIN file'.checks
         PROVE  HasItsTask(c)'
    <2>1. HasItsTask(c) /\ c \in Nat /\ k \in Nat
      BY <1>1, <1>2, FileParts DEF GateInv
    <2>2. CASE c # k
      <3>1. file'.checks[c] = file.checks[c] /\ (Check(c) \in tasks' <=> Check(c) \in tasks)
        BY <1>2, <1>4, <1>5, <1>6, <1>9, <2>1, <2>2
      <3> QED
        BY <2>1, <3>1 DEF HasItsTask
    <2>3. CASE c = k
      <3>1. Check(c) \notin tasks'
        <4>1. r.supersedes = 0 => Check(c) \notin tasks'
          BY <1>5, <1>6, <2>3
        <4>2. r.supersedes # 0 => Check(c) \notin tasks
          BY <1>8, <2>1, <2>3 DEF HasItsTask
        <4> QED
          BY <1>5, <4>1, <4>2
      <3> QED
        BY <1>4, <2>3, <3>1 DEF HasItsTask
    <2> QED
      BY <2>2, <2>3
  <1>14. \A d \in DOMAIN file'.decisions : file'.decisions[d].check \in DOMAIN file'.checks
    BY <1>1, <1>2 DEF GateInv
  <1>15. \A c \in 1..MaxChecks : Check(c) \in tasks' => c \in DOMAIN file'.checks
    BY <1>2, <1>5 DEF GateInv
  <1> QED
    BY <1>10, <1>11, <1>12, <1>13, <1>14, <1>15 DEF GateInv

LEMMA SameDecisions ==
    ASSUME GateInv, file'.checks = file.checks, file'.decisions = file.decisions,
           \A c : Check(c) \in tasks' <=> Check(c) \in tasks,
           FileTyped', RequestsTyped', \A q \in Requests : Founded(request[q])'
    PROVE  GateInv'
  <1>1. ASSUME NEW c \in DOMAIN file.checks PROVE DecidedOnce(c)' /\ HasItsTask(c)'
    <2>1. DecidedOnce(c) /\ HasItsTask(c)
      BY DEF GateInv
    <2>2. FirstDecisions(c)' = FirstDecisions(c)
      BY DEF FirstDecisions
    <2> QED
      BY <2>1, <2>2 DEF DecidedOnce, HasItsTask
  <1> QED
    BY <1>1 DEF GateInv

\* A consent or a screen changes no check and no decision.
LEMMA StatusCommits ==
    ASSUME GateInv, NEW p \in Requests, NEW r \in WaiverReq \cup ScreenReq,
           file' = Written(file, r), tasks' = TasksAfter(r),
           request' = [request EXCEPT ![p] = Idle]
    PROVE  GateInv'
  <1>1. file \in FileType
    BY DEF GateInv, FileTyped
  <1>2. file' \in FileType /\ file'.checks = file.checks /\ file'.decisions = file.decisions
    <2>1. CASE r \in WaiverReq
      <3>1. /\ r.op = "waiver" /\ r.decision \in 1..MaxDecisions /\ r.client \in Clients
            /\ r.status \in WaiverStatuses
        BY <2>1 DEF WaiverReq
      <3>2. file' = [file EXCEPT !.waivers[r.decision][r.client] = r.status]
        BY <3>1 DEF Written
      <3> DEFINE w == [file.waivers EXCEPT ![r.decision][r.client] = r.status]
      <3>3. w \in [1..MaxDecisions -> [Clients -> WaiverStatuses]]
        BY <3>1, FileParts DEF GateInv
      <3>4. file' = [file EXCEPT !.waivers = w]
        BY <3>2
      <3> HIDE DEF w
      <3> QED
        BY <1>1, <3>3, <3>4 DEF FileType
    <2>2. CASE r \in ScreenReq
      <3>1. r.op = "screen" /\ r.decision \in 1..MaxDecisions /\ r.status \in ScreenStatuses
        BY <2>2 DEF ScreenReq, ScreenStatuses
      <3>2. file' = [file EXCEPT !.screens[r.decision] = r.status]
        BY <3>1 DEF Written
      <3> DEFINE s == [file.screens EXCEPT ![r.decision] = r.status]
      <3>3. s \in [1..MaxDecisions -> ScreenStatuses]
        BY <3>1, FileParts DEF GateInv
      <3>4. file' = [file EXCEPT !.screens = s]
        BY <3>2
      <3> HIDE DEF s
      <3> QED
        BY <1>1, <3>3, <3>4 DEF FileType
    <2> QED
      BY <2>1, <2>2
  <1>3. tasks' \subseteq Tasks /\ \A c : Check(c) \in tasks' <=> Check(c) \in tasks
    <2>1. CASE r \in WaiverReq
      <3>1. /\ r.op = "waiver" /\ r.decision \in 1..MaxDecisions /\ r.client \in Clients
            /\ \A t \in r.task : t.of = "waiver"
        BY <2>1 DEF WaiverReq
      <3>2. WaiverTask(r.decision, r.client) \in Tasks /\ WaiverTask(r.decision, r.client).of = "waiver"
        BY <3>1 DEF WaiverTask, Tasks
      <3>3. \/ tasks' = tasks \cup {WaiverTask(r.decision, r.client)}
            \/ tasks' = tasks \ r.task
            \/ tasks' = tasks
        BY <3>1 DEF TasksAfter
      <3>4. \A c : Check(c).of = "check"
        BY DEF Check
      <3>5. tasks \subseteq Tasks
        BY DEF GateInv, FileTyped
      <3> HIDE DEF GateInv
      <3> QED
        BY <3>1, <3>2, <3>3, <3>4, <3>5
    <2>2. CASE r \in ScreenReq
      BY <2>2 DEF ScreenReq, TasksAfter, GateInv, FileTyped
    <2> QED
      BY <2>1, <2>2
  <1>4. RequestsTyped' /\ \A q \in Requests : Founded(request[q])'
    <2>1. \A q \in Requests : request'[q] = Idle \/ (request'[q] = request[q] /\ Founded(request[q]))
      BY OthersStayTyped DEF GateInv
    <2>2. ASSUME NEW q \in Requests PROVE Founded(request[q])'
      BY <1>2, <2>1 DEF Founded, Idle
    <2> QED
      BY <2>2, OthersStayTyped DEF RequestsTyped
  <1>5. FileTyped'
    BY <1>2, <1>3 DEF GateInv, FileTyped
  <1> QED
    BY <1>2, <1>3, <1>4, <1>5, SameDecisions

LEMMA CommitKeepsGate ==
    ASSUME GateInv, NEW p \in Requests, Commit(p)
    PROVE  GateInv'
  <1> PICK r : r = request[p]
    OBVIOUS
  <1>1. /\ r # Idle /\ Fits(r) /\ Completes(r) \subseteq tasks
        /\ file' = Written(file, r) /\ tasks' = TasksAfter(r)
        /\ request' = [request EXCEPT ![p] = Idle]
    BY DEF Commit
  <1>2. r \in RequestType /\ Founded(r)
    BY DEF GateInv, RequestsTyped
  <1>3. r \in CheckReq \/ r \in DecisionReq \/ r \in WaiverReq \cup ScreenReq
    BY <1>1, <1>2 DEF RequestType
  <1> QED
    BY <1>1, <1>2, <1>3, CheckCommits, DecisionCommits, StatusCommits

LEMMA BeginKeepsGate ==
    ASSUME GateInv, NEW p \in Requests, Begins(p)
    PROVE  GateInv'
  <1> PICK r \in RequestType : Founded(r) /\ request' = [request EXCEPT ![p] = r]
    BY DEF Begins
  <1>1. UNCHANGED <<file, tasks>>
    BY DEF Begins
  <1>2. \A q \in Requests : request'[q] = r \/ request'[q] = request[q]
    BY DEF GateInv, RequestsTyped
  <1>3. RequestsTyped' /\ \A q \in Requests : Founded(request[q])'
    BY <1>1, <1>2 DEF GateInv, RequestsTyped, Founded
  <1> QED
    BY <1>1, <1>3 DEF GateInv, FileTyped, DecidedOnce, HasItsTask, FirstDecisions

LEMMA RollbackKeepsGate ==
    ASSUME GateInv, NEW p \in Requests, Rollback(p)
    PROVE  GateInv'
  <1>1. UNCHANGED <<file, tasks>> /\ request' = [request EXCEPT ![p] = Idle]
    BY DEF Rollback
  <1>2. RequestsTyped' /\ \A q \in Requests : Founded(request[q])'
    BY <1>1, OthersStayTyped, IdleIsFounded DEF GateInv, RequestsTyped, Founded
  <1> QED
    BY <1>1, <1>2 DEF GateInv, FileTyped, DecidedOnce, HasItsTask, FirstDecisions

THEOREM GateInvariant == Spec => []GateInv
  <1>1. Init => GateInv
    <2> SUFFICES ASSUME Init PROVE GateInv
      OBVIOUS
    <2>1. file.checks = <<>> /\ file.decisions = <<>> /\ tasks = {} /\ file \in FileType
      BY DEF Init, FileType, WaiverStatuses, ScreenStatuses
    <2>2. FileTyped
      BY <2>1, BoundsAssumption DEF FileTyped
    <2>3. RequestsTyped /\ \A p \in Requests : Founded(request[p])
      BY IdleIsFounded DEF Init, RequestsTyped
    <2> QED
      BY <2>1, <2>2, <2>3 DEF GateInv
  <1>2. GateInv /\ [Next]_vars => GateInv'
    <2> SUFFICES ASSUME GateInv, [Next]_vars PROVE GateInv'
      OBVIOUS
    <2>1. CASE UNCHANGED vars
      <3>1. FileTyped' /\ RequestsTyped' /\ UNCHANGED <<file, tasks, request>>
        BY <2>1 DEF vars, GateInv, FileTyped, RequestsTyped
      <3>2. \A q \in Requests : Founded(request[q])'
        BY <3>1 DEF GateInv, Founded
      <3> QED
        BY <3>1, <3>2, SameDecisions
    <2>2. ASSUME NEW p \in Requests,
                 RunConflictCheck(p) \/ RecordDecision(p) \/ ChangeWaiver(p) \/ ChangeScreen(p)
          PROVE  GateInv'
      BY <2>2, HandlerEffect, BeginKeepsGate
    <2>3. ASSUME NEW p \in Requests, Commit(p) PROVE GateInv'
      BY <2>3, CommitKeepsGate
    <2>4. ASSUME NEW p \in Requests, Rollback(p) PROVE GateInv'
      BY <2>4, RollbackKeepsGate
    <2> QED
      BY <2>1, <2>2, <2>3, <2>4 DEF Next
  <1> QED
    BY <1>1, <1>2, PTL DEF Spec

\* Of any number of attorneys deciding an open check at the same time one gets
\* through, and an undecided check that is not clear keeps its task.
THEOREM OneDecisionGetsThrough == Spec => []OneFirstDecision
  <1>1. GateInv => OneFirstDecision
    <2> SUFFICES ASSUME GateInv, NEW c \in DOMAIN file.checks
                 PROVE  /\ Cardinality(FirstDecisions(c)) = (IF file.checks[c].decided THEN 1 ELSE 0)
                        /\ file.checks[c].outcome # "clear" =>
                              (file.checks[c].decided \/ [of |-> "check", check |-> c] \in tasks)
      BY DEF OneFirstDecision
    <2>1. DecidedOnce(c) /\ HasItsTask(c)
      BY DEF GateInv
    <2>2. file.checks[c].decided => Cardinality(FirstDecisions(c)) = 1
      BY <2>1, FS_Singleton DEF DecidedOnce
    <2>3. ~file.checks[c].decided => FirstDecisions(c) = {}
      BY <2>1 DEF DecidedOnce, FirstDecisions
    <2>4. ~file.checks[c].decided => Cardinality(FirstDecisions(c)) = 0
      BY <2>3, FS_EmptySet
    <2> QED
      BY <2>1, <2>2, <2>4 DEF HasItsTask, Check
  <1> QED
    BY <1>1, GateInvariant, PTL

-----------------------------------------------------------------------------
(* The open gate is deserved, until transactions cross.  A transaction     *)
(* that saw every commit either refreshes the gate, from what is committed *)
(* then and what it writes itself, or writes what closes no gate.          *)

\* What a request found when it began, and the gate it is to store.
Current(r) ==
    r # Idle =>
        /\ r.gate = IF Refreshes(r) THEN CombinedGate(Written(file, r)) ELSE "kept"
        /\ Moves(r)

DeservedInv ==
    /\ GateInv /\ OpenGateIsDeserved
    /\ \A p \in Requests \ behind : Current(request[p])

\* The latest of the decisions that stand, when there is one.
LEMMA LatestStands ==
    ASSUME FileTyped, NEW c, Standing(file, c) # {}
    PROVE  Latest(file, c) \in Standing(file, c) /\ Latest(file, c) \in DOMAIN file.decisions
  <1>1. Standing(file, c) \subseteq 1..Len(file.decisions) /\ Len(file.decisions) \in Nat
    BY FileParts DEF Standing
  <1>2. \E d \in Standing(file, c) : \A e \in Standing(file, c) : d >= e
    <2> DEFINE M == Standing(file, c)
               n == Len(file.decisions)
    <2>1. M \subseteq 0..n /\ n \in Nat /\ M # {}
      BY <1>1
    <2> HIDE DEF M, n
    <2>2. PICK d \in M : \A e \in M : e <= d
      BY <2>1, GreatestNatural
    <2>3. \A e \in M : d >= e
      BY <2>1, <2>2
    <2> QED
      BY <2>3 DEF M
  <1>3. Latest(file, c) \in Standing(file, c)
    BY <1>2 DEF Latest
  <1> QED
    BY <1>3 DEF Standing

\* No file is more open for a consent that is not signed yet, nor for one
\* that goes on before it is: the decision's consents were not all signed.
LEMMA ConsentOnItsWay ==
    ASSUME GateInv, NEW r \in WaiverReq, ~Refreshes(r), CombinedGate(file) = "open",
           r.status \in WaiverMoves(file.waivers[r.decision][r.client]),
           file' = Written(file, r)
    PROVE  CombinedGate(file') = "open"
  <1> DEFINE d == r.decision
             c == r.client
             w == [file.waivers EXCEPT ![d][c] = r.status]
  <1>1. r.op = "waiver" /\ d \in 1..MaxDecisions /\ c \in Clients
    BY DEF WaiverReq
  <1>2. w \in [1..MaxDecisions -> [Clients -> WaiverStatuses]] /\ file' = [file EXCEPT !.waivers = w]
    <2>1. r.status \in WaiverStatuses
      BY DEF WaiverReq
    <2>2. w \in [1..MaxDecisions -> [Clients -> WaiverStatuses]]
      BY <1>1, <2>1, FileParts DEF GateInv
    <2> QED
      BY <1>1, <2>2 DEF Written
  <1>3. \A e \in 1..MaxDecisions : e # d => w[e] = file.waivers[e]
    BY <1>1, FileParts DEF GateInv
  <1>4. file.waivers[d][c] \in {"draft", "approved"}
    BY <1>1 DEF WaiverMoves, Refreshes
  <1> HIDE DEF w
  <1>5. /\ file'.checks = file.checks /\ file'.decisions = file.decisions
        /\ file'.waivers = w /\ file'.screens = file.screens
    <2>1. file \in FileType
      BY DEF GateInv, FileTyped
    <2> QED
      BY <1>2, <2>1 DEF FileType
  <1>6. ~AllSigned(file, d)
    BY <1>1, <1>4 DEF AllSigned
  <1>7. ASSUME NEW k \in DOMAIN file.checks, CheckGateOpen(file, k)
        PROVE  CheckGateOpen(file', k)
    <2>1. Standing(file', k) = Standing(file, k)
      BY <1>5 DEF Standing
    <2>2. Latest(file', k) = Latest(file, k)
      BY <2>1 DEF Latest
    <2>3. CASE file.checks[k].outcome = "clear"
      BY <1>5, <2>3 DEF CheckGateOpen
    <2>4. CASE file.checks[k].outcome # "clear"
      <3> DEFINE e == Latest(file, k)
      <3>1. Standing(file, k) # {}
        BY <1>7, <2>4 DEF CheckGateOpen
      <3>2. e \in 1..MaxDecisions
        BY <3>1, LatestStands, FileParts DEF GateInv
      <3>3. AllSigned(file, e) => AllSigned(file', e)
        BY <1>3, <1>5, <1>6, <3>2 DEF AllSigned
      <3>4. ScreensActive(file, e) <=> ScreensActive(file', e)
        BY <1>5 DEF ScreensActive
      <3>5. file.decisions[e] = file'.decisions[e]
        BY <1>5
      <3>6. file.decisions[e].kind \in Kinds
        <4>1. e \in DOMAIN file.decisions /\ file.decisions \in Seq(DecisionType)
          BY <3>1, LatestStands, FileParts DEF GateInv
        <4>2. file.decisions[e] \in DecisionType
          BY <4>1
        <4> QED
          BY <4>2 DEF DecisionType
      <3> HIDE DEF e
      <3>7. CASE file.decisions[e].kind = "cleared"
        BY <1>5, <2>1, <2>2, <3>1, <3>5, <3>7 DEF CheckGateOpen, e
      <3>8. CASE file.decisions[e].kind = "declined"
        BY <1>7, <2>4, <3>8 DEF CheckGateOpen, e
      <3>9. CASE file.decisions[e].kind = "proceed_with_consent"
        <4>1. AllSigned(file, e) /\ ScreensActive(file, e)
          BY <1>7, <2>4, <3>9 DEF CheckGateOpen, e
        <4> QED
          BY <2>1, <2>2, <3>1, <3>3, <3>4, <3>5, <3>9, <4>1 DEF CheckGateOpen, e
      <3>10. CASE file.decisions[e].kind = "proceed_with_screen"
        <4>1. file.screens[e] # "none" /\ ScreensActive(file, e)
          BY <1>7, <2>4, <3>10 DEF CheckGateOpen, e
        <4> QED
          BY <1>5, <2>1, <2>2, <3>1, <3>4, <3>5, <3>10, <4>1 DEF CheckGateOpen, e
      <3> QED
        BY <3>6, <3>7, <3>8, <3>9, <3>10 DEF Kinds
    <2> QED
      BY <2>3, <2>4
  <1> QED
    BY <1>5, <1>7 DEF CombinedGate

\* Lifting a screen closes no gate.
LEMMA ScreenLifted ==
    ASSUME GateInv, NEW r \in ScreenReq, ~Refreshes(r), CombinedGate(file) = "open",
           file' = Written(file, r)
    PROVE  CombinedGate(file') = "open"
  <1> DEFINE d == r.decision
             s == [file.screens EXCEPT ![d] = "lifted"]
  <1>1. r.op = "screen" /\ d \in 1..MaxDecisions /\ r.status = "lifted"
    BY DEF ScreenReq, Refreshes
  <1>2. file' = [file EXCEPT !.screens = s]
    BY <1>1 DEF Written
  <1>3. \A e \in 1..MaxDecisions : s[e] = IF e = d THEN "lifted" ELSE file.screens[e]
    BY <1>1, FileParts DEF GateInv
  <1> HIDE DEF s
  <1>4. /\ file'.checks = file.checks /\ file'.decisions = file.decisions
        /\ file'.waivers = file.waivers /\ file'.screens = s
    <2>1. file \in FileType
      BY DEF GateInv, FileTyped
    <2> QED
      BY <1>2, <2>1 DEF FileType
  <1>5. ASSUME NEW k \in DOMAIN file.checks, CheckGateOpen(file, k)
        PROVE  CheckGateOpen(file', k)
    <2>1. Standing(file', k) = Standing(file, k)
      BY <1>4 DEF Standing
    <2>2. Latest(file', k) = Latest(file, k)
      BY <2>1 DEF Latest
    <2>3. CASE file.checks[k].outcome = "clear"
      BY <1>4, <2>3 DEF CheckGateOpen
    <2>4. CASE file.checks[k].outcome # "clear"
      <3> DEFINE e == Latest(file, k)
      <3>1. Standing(file, k) # {}
        BY <1>5, <2>4 DEF CheckGateOpen
      <3>2. e \in 1..MaxDecisions
        BY <3>1, LatestStands, FileParts DEF GateInv
      <3>3. AllSigned(file, e) <=> AllSigned(file', e)
        BY <1>4 DEF AllSigned
      <3>4. /\ ScreensActive(file, e) => ScreensActive(file', e)
            /\ file.screens[e] # "none" => file'.screens[e] # "none"
        BY <1>3, <1>4, <3>2 DEF ScreensActive
      <3>5. file.decisions[e] = file'.decisions[e]
        BY <1>4
      <3>6. file.decisions[e].kind \in Kinds
        <4>1. e \in DOMAIN file.decisions /\ file.decisions \in Seq(DecisionType)
          BY <3>1, LatestStands, FileParts DEF GateInv
        <4>2. file.decisions[e] \in DecisionType
          BY <4>1
        <4> QED
          BY <4>2 DEF DecisionType
      <3> HIDE DEF e
      <3>7. CASE file.decisions[e].kind = "cleared"
        BY <1>4, <2>1, <2>2, <3>1, <3>5, <3>7 DEF CheckGateOpen, e
      <3>8. CASE file.decisions[e].kind = "declined"
        BY <1>5, <2>4, <3>8 DEF CheckGateOpen, e
      <3>9. CASE file.decisions[e].kind = "proceed_with_consent"
        <4>1. AllSigned(file, e) /\ ScreensActive(file, e)
          BY <1>5, <2>4, <3>9 DEF CheckGateOpen, e
        <4> QED
          BY <2>1, <2>2, <3>1, <3>3, <3>4, <3>5, <3>9, <4>1 DEF CheckGateOpen, e
      <3>10. CASE file.decisions[e].kind = "proceed_with_screen"
        <4>1. file.screens[e] # "none" /\ ScreensActive(file, e)
          BY <1>5, <2>4, <3>10 DEF CheckGateOpen, e
        <4> QED
          BY <1>4, <2>1, <2>2, <3>1, <3>4, <3>5, <3>10, <4>1 DEF CheckGateOpen, e
      <3> QED
        BY <3>6, <3>7, <3>8, <3>9, <3>10 DEF Kinds
    <2> QED
      BY <2>3, <2>4
  <1> QED
    BY <1>4, <1>5 DEF CombinedGate

\* Committing what was worked out against the file as it still is, or marking
\* that it was not.
LEMMA CommitDeserves ==
    ASSUME DeservedInv, NEW p \in Requests, Commit(p)
    PROVE  OpenGateIsDeserved'
  <1> PICK r : r = request[p]
    OBVIOUS
  <1>1. /\ r # Idle /\ file' = Written(file, r)
        /\ gate' = IF r.gate = "kept" THEN gate ELSE r.gate
        /\ crossed' = (p \in behind \/ (crossed /\ ~Refreshes(r)))
    BY DEF Commit
  <1>2. r \in RequestType /\ GateInv
    BY DEF DeservedInv, GateInv, RequestsTyped
  <1>3. CASE p \in behind
    BY <1>1, <1>3 DEF OpenGateIsDeserved
  <1>4. CASE p \notin behind /\ Refreshes(r)
    <2>1. Current(r)
      BY <1>4 DEF DeservedInv
    <2>2. r.gate = CombinedGate(file')
      BY <1>1, <1>4, <2>1 DEF Current
    <2> QED
      BY <1>1, <2>2, CombinedIsGate DEF OpenGateIsDeserved
  <1>5. CASE p \notin behind /\ ~Refreshes(r)
    <2>1. Current(r)
      BY <1>5 DEF DeservedInv
    <2>2. gate' = gate /\ (crossed' <=> crossed)
      BY <1>1, <1>5, <2>1 DEF Current
    <2>3. r \in WaiverReq \/ r \in ScreenReq
      BY <1>1, <1>2, <1>5 DEF RequestType, Refreshes, CheckReq, DecisionReq
    <2>4. r \in WaiverReq => r.status \in WaiverMoves(file.waivers[r.decision][r.client])
      BY <1>1, <2>1 DEF Current, Moves, WaiverReq
    <2>5. CombinedGate(file) = "open" => CombinedGate(file') = "open"
      BY <1>1, <1>2, <1>5, <2>3, <2>4, ConsentOnItsWay, ScreenLifted
    <2> QED
      BY <2>2, <2>5 DEF OpenGateIsDeserved, DeservedInv
  <1> QED
    BY <1>3, <1>4, <1>5

\* Whatever the number of transactions at a time, the stored gate is open only
\* when the checks, the decisions that stand, the consents and the screens
\* behind it allow it, until one commits that another had overtaken, and again
\* from the next refresh by one that saw every commit.
THEOREM GateIsDeservedUnlessCrossed == Spec => []OpenGateIsDeserved
  <1>1. Spec => []GateInv
    BY GateInvariant
  <1>2. Init /\ GateInv => DeservedInv
    BY DEF Init, DeservedInv, OpenGateIsDeserved, Current
  <1>3. DeservedInv /\ GateInv' /\ [Next]_vars => DeservedInv'
    <2> SUFFICES ASSUME DeservedInv, GateInv', [Next]_vars PROVE DeservedInv'
      OBVIOUS
    <2>1. CASE UNCHANGED vars
      <3>1. UNCHANGED <<file, gate, request, behind, crossed>>
        BY <2>1 DEF vars
      <3>2. \A q \in (Requests \ behind)' : Current(request[q])'
        BY <3>1 DEF DeservedInv, Current, Moves
      <3> QED
        BY <3>1, <3>2 DEF DeservedInv, OpenGateIsDeserved
    <2>2. ASSUME NEW p \in Requests,
                 RunConflictCheck(p) \/ RecordDecision(p) \/ ChangeWaiver(p) \/ ChangeScreen(p)
          PROVE  DeservedInv'
      <3>1. Begins(p)
        BY <2>2, HandlerEffect DEF DeservedInv
      <3>2. UNCHANGED <<file, gate, behind, crossed>>
        BY <3>1 DEF Begins
      <3> PICK r \in RequestType : /\ Current(r)
                                   /\ request' = [request EXCEPT ![p] = r]
        BY <3>1 DEF Begins, Current
      <3>3. ASSUME NEW q \in (Requests \ behind)' PROVE Current(request[q])'
        <4>1. request'[q] = r \/ (request'[q] = request[q] /\ q \in Requests \ behind)
          BY <3>2 DEF DeservedInv, GateInv, RequestsTyped
        <4> QED
          BY <3>2, <4>1 DEF DeservedInv, Current, Moves
      <3> QED
        BY <3>2, <3>3 DEF DeservedInv, OpenGateIsDeserved
    <2>3. ASSUME NEW p \in Requests, Commit(p) PROVE DeservedInv'
      <3>1. request' = [request EXCEPT ![p] = Idle] /\ behind' = {q \in Requests \ {p} : request[q] # Idle}
        BY <2>3 DEF Commit
      <3>2. ASSUME NEW q \in (Requests \ behind)' PROVE request'[q] = Idle
        BY <3>1 DEF DeservedInv, GateInv, RequestsTyped
      <3>3. \A q \in (Requests \ behind)' : Current(request[q])'
        BY <3>2 DEF Current
      <3> QED
        BY <2>3, <3>3, CommitDeserves DEF DeservedInv
    <2>4. ASSUME NEW p \in Requests, Rollback(p) PROVE DeservedInv'
      <3>1. /\ request' = [request EXCEPT ![p] = Idle] /\ behind' = behind \ {p}
            /\ UNCHANGED <<file, gate, crossed>>
        BY <2>4 DEF Rollback
      <3>2. ASSUME NEW q \in (Requests \ behind)' PROVE Current(request[q])'
        <4>1. request'[q] = Idle \/ (request'[q] = request[q] /\ q \in Requests \ behind)
          BY <3>1 DEF DeservedInv, GateInv, RequestsTyped
        <4> QED
          BY <3>1, <4>1 DEF DeservedInv, Current, Moves
      <3> QED
        BY <3>1, <3>2 DEF DeservedInv, OpenGateIsDeserved
    <2> QED
      BY <2>1, <2>2, <2>3, <2>4 DEF Next
  <1>4. DeservedInv => OpenGateIsDeserved
    BY DEF DeservedInv
  <1> QED
    BY <1>1, <1>2, <1>3, <1>4, PTL DEF Spec

=============================================================================
