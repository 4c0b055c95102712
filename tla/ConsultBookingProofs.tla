------------------------ MODULE ConsultBookingProofs ------------------------
(* The theorems about ConsultBooking: for any number of requests, sessions *)
(* and lawyers, any slots and every bound, however the transactions        *)
(* interleave.                                                             *)
EXTENDS ConsultBooking, TLAPS

-----------------------------------------------------------------------------
(* Types.                                                                  *)

HoldTx == [op : {"hold"}, pc : {"asked", "locked"}, session : Sessions,
           lawyer : Lawyers, slot : Slots, c : {0}, now : Nat]
ChangeTx == [op : DOMAIN Target \ {"reschedule"}, pc : {"asked", "marked", "silenced"},
             c : Nat, was : Statuses, now : Nat]
MoveTx == [op : {"reschedule"}, pc : {"asked", "locked", "marked", "silenced"},
           c : Nat, was : Statuses, lawyer : Lawyers, slot : Slots, now : Nat]
TickTx == [op : {"tick"}, now : Nat, claimed : SUBSET (TimerKinds \X Nat),
           left : SUBSET (TimerKinds \X Nat), run : SUBSET (TimerKinds \X Nat),
           moot : SUBSET (TimerKinds \X Nat)]

LEMMA Kinds == TxType = {Idle} \cup HoldTx \cup ChangeTx \cup MoveTx \cup TickTx
  BY DEF TxType, HoldTx, ChangeTx, MoveTx, TickTx

LEMMA Targets ==
    /\ DOMAIN Target = {"confirm", "cancel", "no_show", "complete", "on_hold", "reschedule"}
    /\ Target.confirm = "booked" /\ Target.cancel = "cancelled"
    /\ Target.no_show = "no_show" /\ Target.complete = "completed"
    /\ Target.on_hold = "on_hold" /\ Target.reschedule = "rescheduled"
  BY DEF Target

\* What is known of a transaction by its operation.
LEMMA TxByOperation ==
    ASSUME NEW t \in TxType
    PROVE  /\ t.op = "hold" => t \in HoldTx
           /\ t.op = "reschedule" => t \in MoveTx
           /\ t.op \in DOMAIN Target \ {"reschedule"} => t \in ChangeTx
           /\ t.op = "tick" => t \in TickTx
           /\ t.op \in {"idle", "hold", "reschedule", "tick"} \cup DOMAIN Target
  <1>1. CASE t = Idle
    BY <1>1, Targets DEF Idle
  <1>2. CASE t \in HoldTx
    BY <1>2, Targets DEF HoldTx
  <1>3. CASE t \in ChangeTx
    BY <1>3, Targets DEF ChangeTx
  <1>4. CASE t \in MoveTx
    BY <1>4, Targets DEF MoveTx
  <1>5. CASE t \in TickTx
    BY <1>5, Targets DEF TickTx
  <1> QED
    BY <1>1, <1>2, <1>3, <1>4, <1>5, Kinds

\* A transaction goes on to the next of its points.
GoesOn(t, label) ==
    \/ t.op = "hold" /\ label = "locked"
    \/ t.op = "reschedule" /\ label \in {"locked", "marked", "silenced"}
    \/ t.op \in DOMAIN Target \ {"reschedule"} /\ label \in {"marked", "silenced"}

LEMMA GoesOnTyped ==
    ASSUME NEW t \in TxType, NEW label, GoesOn(t, label)
    PROVE  [t EXCEPT !.pc = label] \in TxType
  <1>1. CASE t \in HoldTx
    BY <1>1, Kinds, Targets DEF HoldTx, GoesOn
  <1>2. CASE t \in ChangeTx
    BY <1>2, Kinds, Targets DEF ChangeTx, GoesOn
  <1>3. CASE t \in MoveTx
    BY <1>3, Kinds, Targets DEF MoveTx, GoesOn
  <1> QED
    BY <1>1, <1>2, <1>3, TxByOperation DEF GoesOn

-----------------------------------------------------------------------------
(* What the steps do.                                                      *)

\* A transaction as it begins: a request reads the consultation it is about
\* and the clock.
Begun(t) ==
    /\ t \in TxType
    /\ t.op \in DOMAIN Target \cup {"hold"} => t.pc = "asked" /\ t.now = clock
    /\ t.op \in DOMAIN Target =>
           /\ t.c \in DOMAIN consults
           /\ t.was = consults[t.c].status
           /\ CanTransition(t.was, Target[t.op])
           /\ t.op = "confirm" => t.was = "held"
    /\ t.op = "tick" => t.left \cup t.run \subseteq timers

Begins(p) ==
    /\ tx[p] = Idle
    /\ \E t \in TxType : Begun(t) /\ tx' = [tx EXCEPT ![p] = t]
    /\ UNCHANGED Stored

LEMMA RequestEffect ==
    ASSUME TypeOK, NEW p \in Requests, Request(p)
    PROVE  Begins(p)
  <1>0. consults \in Seq(ConsultType) /\ clock \in Nat
    BY BoundsAssumption DEF TypeOK, BookingAssumption
  <1>1. ASSUME NEW s \in Sessions, NEW l \in Lawyers, NEW slot \in Slots, AskHold(p, s, l, slot)
        PROVE  Begins(p)
    <2> DEFINE t == [op |-> "hold", pc |-> "asked", session |-> s, lawyer |-> l,
                     slot |-> slot, c |-> 0, now |-> clock]
    <2>1. t \in HoldTx
      BY <1>0 DEF HoldTx
    <2>2. Begun(t)
      BY <2>1, Kinds, Targets DEF Begun
    <2>3. tx[p] = Idle /\ tx' = [tx EXCEPT ![p] = t] /\ UNCHANGED Stored
      BY <1>1 DEF AskHold, Begin
    <2> HIDE DEF t
    <2> QED
      BY <2>2, <2>3 DEF Begins, Begun
  <1>2. ASSUME NEW op \in DOMAIN Target, NEW c \in DOMAIN consults, Ask(p, op, c)
        PROVE  Begins(p)
    <2> DEFINE t == [op |-> op, pc |-> "asked", c |-> c, was |-> consults[c].status,
                     now |-> clock]
    <2>1. t \in ChangeTx
      <3>1. consults[c] \in ConsultType
        BY <1>0
      <3>2. consults[c].status \in Statuses /\ c \in Nat
        BY <1>0, <3>1 DEF ConsultType
      <3> QED
        BY <1>0, <1>2, <3>2 DEF ChangeTx, Ask
    <2>2. Begun(t)
      BY <1>2, <2>1, Kinds, Targets DEF Begun, Ask, MayAsk
    <2>3. tx[p] = Idle /\ tx' = [tx EXCEPT ![p] = t] /\ UNCHANGED Stored
      BY <1>2 DEF Ask, Begin
    <2> HIDE DEF t
    <2> QED
      BY <2>2, <2>3 DEF Begins, Begun
  <1>3. ASSUME NEW c \in DOMAIN consults, NEW l \in Lawyers, NEW slot \in Slots,
               AskReschedule(p, c, l, slot)
        PROVE  Begins(p)
    <2> DEFINE t == [op |-> "reschedule", pc |-> "asked", c |-> c,
                     was |-> consults[c].status, lawyer |-> l, slot |-> slot,
                     now |-> clock]
    <2>1. t \in MoveTx
      <3>1. consults[c] \in ConsultType
        BY <1>0
      <3>2. consults[c].status \in Statuses /\ c \in Nat
        BY <1>0, <3>1 DEF ConsultType
      <3> QED
        BY <1>0, <3>2 DEF MoveTx
    <2>2. Begun(t)
      BY <1>3, <2>1, Kinds, Targets DEF Begun, AskReschedule, MayAsk
    <2>3. tx[p] = Idle /\ tx' = [tx EXCEPT ![p] = t] /\ UNCHANGED Stored
      BY <1>3 DEF AskReschedule, Begin
    <2> HIDE DEF t
    <2> QED
      BY <2>2, <2>3 DEF Begins, Begun
  <1>4. CASE TickClaim(p)
    <2> DEFINE due == {t \in timers : /\ DueAt(t) <= clock
                                      /\ ~TimerClaimed(t) /\ ~TimersSilenced(t[2])}
               t == [op |-> "tick", now |-> clock, claimed |-> due, left |-> due,
                     run |-> {}, moot |-> {}]
    <2>0. due \subseteq TimerKinds \X Nat
      <3>1. timers \subseteq TimerKinds \X DOMAIN consults
        BY DEF TypeOK
      <3> QED
        BY <1>0, <3>1
    <2>3. tx[p] = Idle /\ tx' = [tx EXCEPT ![p] = t] /\ UNCHANGED Stored
      BY <1>4 DEF TickClaim, Begin
    <2>4. due \subseteq timers
      OBVIOUS
    <2> HIDE DEF due
    <2>1. t \in TickTx
      BY <1>0, <2>0 DEF TickTx
    <2>2. Begun(t)
      BY <2>1, <2>4, Kinds, Targets DEF Begun
    <2> HIDE DEF t
    <2> QED
      BY <2>2, <2>3 DEF Begins, Begun
  <1> QED
    BY <1>1, <1>2, <1>3, <1>4 DEF Request

\* A tick runs one of its timers.
Ticks(p) ==
    /\ tx[p].op = "tick"
    /\ \E t \in TickTx : /\ t.left \cup t.run \subseteq tx[p].left \cup tx[p].run
                         /\ t.claimed = tx[p].claimed
                         /\ t.moot \subseteq tx[p].left \cup tx[p].moot
                         /\ tx' = [tx EXCEPT ![p] = t]
    /\ UNCHANGED Stored

\* A transaction ends and leaves the consultations as they are.
Ends(p) == Finish(p) /\ UNCHANGED <<consults, clock>>

\* The status of one consultation is written.
Settles(p) == \/ CommitConfirm(p) \/ CommitCancel(p) \/ CommitComplete(p)
              \/ (\E mayWrite \in BOOLEAN : CommitNoShow(p, mayWrite))
              \/ CommitOnHold(p)

LEMMA ProceedEffect ==
    ASSUME TypeOK, NEW p \in Requests, Proceed(p)
    PROVE  \/ LockCalendar(p) \/ Mark(p) \/ Silence(p) \/ Ticks(p) \/ Ends(p)
           \/ CommitHold(p) \/ Settles(p) \/ CommitReschedule(p)
  <1>1. ASSUME tx[p].op = "tick", NEW t \in tx[p].left, TickHandle(p, t) \/ TickHandlerFails(p, t)
        PROVE  Ticks(p)
    <2>1. tx[p] \in TickTx
      BY <1>1, TxByOperation DEF TypeOK
    <2>2. PICK u : /\ tx' = [tx EXCEPT ![p] = u]
                   /\ \/ u = [tx[p] EXCEPT !.left = @ \ {t}, !.run = @ \cup {t}]
                      \/ u = [tx[p] EXCEPT !.left = @ \ {t}, !.moot = @ \cup {t}]
                      \/ u = [tx[p] EXCEPT !.left = @ \ {t}]
      BY <1>1 DEF TickHandle, TickHandlerFails
    <2>3. u \in TickTx
      <3> DEFINE r == tx[p]
      <3>1. r \in TickTx /\ t \in TimerKinds \X Nat
        BY <1>1, <2>1 DEF TickTx
      <3> HIDE DEF r
      <3>2. CASE u = [r EXCEPT !.left = @ \ {t}]
        BY <3>1, <3>2 DEF TickTx
      <3>3. CASE u = [r EXCEPT !.left = @ \ {t}, !.run = @ \cup {t}]
        <4>1. r.run \cup {t} \in SUBSET (TimerKinds \X Nat)
          BY <3>1 DEF TickTx
        <4> QED
          BY <3>1, <3>3, <4>1 DEF TickTx
      <3>4. CASE u = [r EXCEPT !.left = @ \ {t}, !.moot = @ \cup {t}]
        <4>1. r.moot \cup {t} \in SUBSET (TimerKinds \X Nat)
          BY <3>1 DEF TickTx
        <4> QED
          BY <3>1, <3>4, <4>1 DEF TickTx
      <3> QED
        BY <2>2, <3>2, <3>3, <3>4 DEF r
    <2>4. /\ u.left \cup u.run \subseteq tx[p].left \cup tx[p].run
          /\ u.claimed = tx[p].claimed /\ u.moot \subseteq tx[p].left \cup tx[p].moot
      <3> DEFINE r == tx[p]
      <3>1. r \in TickTx /\ t \in r.left
        BY <1>1, <2>1
      <3> HIDE DEF r
      <3>2. /\ u.left = r.left \ {t}
            /\ u.run = r.run \/ u.run = r.run \cup {t}
            /\ u.claimed = r.claimed
            /\ u.moot = r.moot \/ u.moot = r.moot \cup {t}
        <4>1. \/ u = [r EXCEPT !.left = r.left \ {t}, !.run = r.run \cup {t}]
              \/ u = [r EXCEPT !.left = r.left \ {t}, !.moot = r.moot \cup {t}]
              \/ u = [r EXCEPT !.left = r.left \ {t}]
          BY <2>2 DEF r
        <4> QED
          BY <3>1, <4>1 DEF TickTx
      <3> QED
        BY <3>1, <3>2 DEF r
    <2> QED
      BY <1>1, <2>2, <2>3, <2>4 DEF Ticks, TickHandle, TickHandlerFails
  <1>2. CASE TickCommit(p) \/ Rollback(p)
    BY <1>2 DEF TickCommit, Rollback, Ends, Stored
  <1> QED
    BY <1>1, <1>2 DEF Proceed, Settles

-----------------------------------------------------------------------------
(* The invariant of the consultations.                                     *)

Writing(p) == Changing(p) /\ tx[p].pc \in {"marked", "silenced"}

\* A request is about a consultation that is there, whose status it may change
\* to its target; once its UPDATE has the row the status is still that.
ReadsRow(p) ==
    Changing(p) =>
        /\ tx[p].c \in DOMAIN consults
        /\ CanTransition(tx[p].was, Target[tx[p].op])
        /\ tx[p].op = "confirm" => tx[p].was = "held"
        /\ tx[p].op = "reschedule" => consults[tx[p].c].status # "held"
        /\ tx[p].pc \in {"marked", "silenced"} => consults[tx[p].c].status = tx[p].was

\* One transaction at a time has a row.
OneWriter ==
    \A p, q \in Requests : Writing(p) /\ Writing(q) /\ tx[p].c = tx[q].c => p = q

\* A consultation replaces an earlier one, which no other does.
Chain ==
    /\ \A i \in DOMAIN consults :
           consults[i].previous # 0 =>
               /\ consults[i].previous \in DOMAIN consults
               /\ consults[consults[i].previous].status = "rescheduled"
    /\ \A i, j \in DOMAIN consults :
           i # j /\ consults[i].previous # 0 => consults[i].previous # consults[j].previous

\* A tick runs timers of consultations that are there.
TicksRows ==
    \A p \in Requests : tx[p].op = "tick" =>
        tx[p].left \cup tx[p].run \subseteq TimerKinds \X DOMAIN consults

BookInv ==
    /\ TypeOK
    /\ TicksRows
    /\ \A p \in Requests : ReadsRow(p)
    /\ OneWriter
    /\ CalendarFollowsStatus
    /\ Chain

OnCalendar == {"booked", "on_hold", "completed", "no_show"}

LEMMA Transitions ==
    /\ \A from, to : CanTransition(from, to) => from \in {"held", "booked", "on_hold"}
    /\ \A from : CanTransition(from, "rescheduled") => from \in {"booked", "on_hold"}
    /\ \A from : CanTransition(from, "completed") => from = "booked"
    /\ \A from : CanTransition(from, "no_show") => from = "booked"
    /\ \A from : CanTransition(from, "on_hold") => from = "booked"
  BY DEF CanTransition

\* What the write of a status makes of the consultation's row.
RowOf(c, q, target) ==
    /\ q \in ConsultType
    /\ q.lawyer = consults[c].lawyer /\ q.slot = consults[c].slot
    /\ q.previous = consults[c].previous
    /\ q.status = target
    /\ q.event = "live" <=> target \in OnCalendar

Settled(c, q, target) == RowOf(c, q, target) /\ consults' = [consults EXCEPT ![c] = q]

LEMMA SettleEffect ==
    ASSUME BookInv, NEW p \in Requests, Settles(p)
    PROVE  /\ Writing(p) /\ tx[p].op # "reschedule"
           /\ \E q : /\ Settled(tx[p].c, q, Target[tx[p].op])
                     /\ tx[p].op # "confirm" /\ q.event = "live"
                            => consults[tx[p].c].event = "live"
           /\ Finish(p) /\ clock' = clock
  <1> DEFINE c == tx[p].c
  <1>0. consults \in Seq(ConsultType) /\ tx[p] \in TxType
    BY DEF BookInv, TypeOK
  <1> DEFINE r == consults[c]
  <1>a. ASSUME NEW op \in {"confirm", "cancel", "complete", "no_show", "on_hold"}, tx[p].op = op,
               tx[p].pc = IF op = "confirm" THEN "marked" ELSE "silenced"
        PROVE  /\ Writing(p) /\ tx[p].op # "reschedule"
               /\ c \in DOMAIN consults /\ r \in ConsultType
               /\ CanTransition(r.status, Target[op])
               /\ (r.event = "live") <=> r.status \in OnCalendar
               /\ op = "confirm" => r.status = "held"
    <2>1. Writing(p) /\ ReadsRow(p)
      BY <1>a, Targets DEF Writing, Changing, BookInv
    <2> QED
      BY <1>0, <1>a, <2>1 DEF ReadsRow, Writing, BookInv, CalendarFollowsStatus, OnCalendar
  <1>1. CASE CommitConfirm(p)
    <2> PICK q : q = [r EXCEPT !.status = "booked", !.expires = 0, !.event = "live"]
      OBVIOUS
    <2>1. consults' = [consults EXCEPT ![c] = q] /\ Finish(p) /\ clock' = clock
      BY <1>1 DEF CommitConfirm
    <2>2. tx[p].op = "confirm" /\ tx[p].pc = "marked"
      BY <1>1 DEF CommitConfirm
    <2>3. Settled(c, q, "booked")
      BY <1>a, <2>1, <2>2 DEF Settled, RowOf, ConsultType, Statuses, OnCalendar
    <2> QED
      BY <1>a, <2>1, <2>2, <2>3, Targets
  <1>2. CASE CommitCancel(p)
    <2> PICK q : q = [r EXCEPT !.status = "cancelled", !.event = EventAfter(c)]
      OBVIOUS
    <2>1. consults' = [consults EXCEPT ![c] = q] /\ Finish(p) /\ clock' = clock
      BY <1>2 DEF CommitCancel
    <2>2. tx[p].op = "cancel" /\ tx[p].pc = "silenced"
      BY <1>2 DEF CommitCancel
    <2>3. EventAfter(c) \in {"none", "cancelled"}
      BY <1>a, <2>2 DEF EventAfter, ConsultType
    <2>4. Settled(c, q, "cancelled")
      BY <1>a, <2>1, <2>2, <2>3 DEF Settled, RowOf, ConsultType, Statuses, OnCalendar
    <2>5. q.event # "live"
      BY <2>4 DEF Settled, RowOf, OnCalendar
    <2>6. Target[tx[p].op] = "cancelled" /\ tx[p].op # "confirm"
      BY <2>2, Targets
    <2> QED
      BY <1>a, <2>1, <2>2, <2>4, <2>5, <2>6
  <1>3. ASSUME NEW op \in {"complete", "no_show", "on_hold"}, tx[p].op = op, tx[p].pc = "silenced",
               consults' = [consults EXCEPT ![c].status = Target[op]], Finish(p), clock' = clock
        PROVE  \E q : /\ Settled(c, q, Target[op])
                      /\ q.event = "live" => consults[c].event = "live"
    <2> PICK q : q = [r EXCEPT !.status = Target[op]]
      OBVIOUS
    <2>1. consults' = [consults EXCEPT ![c] = q]
      BY <1>3
    <2>2. r.status = "booked" /\ Target[op] \in OnCalendar /\ Target[op] \in Statuses
      BY <1>3, <1>a, Transitions, Targets DEF OnCalendar, Statuses
    <2>3. r \in ConsultType /\ r.event = "live"
      BY <1>3, <1>a, <2>2 DEF OnCalendar
    <2>4. Settled(c, q, Target[op])
      BY <2>1, <2>2, <2>3 DEF Settled, RowOf, ConsultType
    <2> QED
      BY <2>3, <2>4
  <1>4. ASSUME CommitComplete(p) \/ (\E mayWrite \in BOOLEAN : CommitNoShow(p, mayWrite)) \/ CommitOnHold(p)
        PROVE  \E op \in {"complete", "no_show", "on_hold"} :
                   /\ tx[p].op = op /\ tx[p].pc = "silenced"
                   /\ consults' = [consults EXCEPT ![c].status = Target[op]]
                   /\ Finish(p) /\ clock' = clock
    BY <1>4, Targets DEF CommitComplete, CommitNoShow, CommitOnHold
  <1>5. CASE CommitComplete(p) \/ (\E mayWrite \in BOOLEAN : CommitNoShow(p, mayWrite)) \/ CommitOnHold(p)
    BY <1>a, <1>3, <1>4, <1>5
  <1> QED
    BY <1>1, <1>2, <1>5 DEF Settles

\* A row that is held, and one that is booked in another's place.
HeldRow(p, n) ==
    /\ n \in ConsultType
    /\ n.lawyer = tx[p].lawyer /\ n.slot = tx[p].slot
    /\ n.status = "held" /\ n.event = "none" /\ n.previous = 0
BookedRow(p, n) ==
    /\ n \in ConsultType
    /\ n.lawyer = tx[p].lawyer /\ n.slot = tx[p].slot
    /\ n.status = "booked" /\ n.event = "live" /\ n.previous = tx[p].c

LEMMA HoldEffect ==
    ASSUME BookInv, NEW p \in Requests, CommitHold(p)
    PROVE  /\ tx[p] \in HoldTx /\ tx[p].pc = "locked"
           /\ \E n : HeldRow(p, n) /\ consults' = Append(consults, n)
           /\ Finish(p) /\ clock' = clock
  <1>1. tx[p] \in HoldTx
    BY TxByOperation DEF CommitHold, BookInv, TypeOK
  <1> DEFINE n == [session |-> tx[p].session, lawyer |-> tx[p].lawyer,
                   slot |-> tx[p].slot, status |-> "held",
                   expires |-> tx[p].now + HoldTime, event |-> "none", previous |-> 0]
  <1>2. tx[p].now + HoldTime \in Nat
    BY <1>1, BoundsAssumption DEF HoldTx, BookingAssumption
  <1>3. n \in ConsultType
    BY <1>1, <1>2 DEF HoldTx, ConsultType, Statuses
  <1>4. HeldRow(p, n)
    BY <1>3 DEF HeldRow
  <1>5. consults' = Append(consults, n)
    BY DEF CommitHold
  <1> HIDE DEF n
  <1> QED
    BY <1>1, <1>4, <1>5 DEF CommitHold

LEMMA MoveEffect ==
    ASSUME BookInv, NEW p \in Requests, CommitReschedule(p)
    PROVE  /\ tx[p] \in MoveTx /\ tx[p].pc = "silenced" /\ Writing(p)
           /\ \E q, n : /\ RowOf(tx[p].c, q, "rescheduled") /\ BookedRow(p, n)
                        /\ consults' = Append([consults EXCEPT ![tx[p].c] = q], n)
           /\ Finish(p) /\ clock' = clock
  <1> DEFINE c == tx[p].c
             r == consults[c]
             n == [session |-> consults[c].session, lawyer |-> tx[p].lawyer,
                   slot |-> tx[p].slot, status |-> "booked", expires |-> 0,
                   event |-> "live", previous |-> c]
  <1>1. tx[p] \in MoveTx
    BY TxByOperation DEF CommitReschedule, BookInv, TypeOK
  <1>2. Writing(p) /\ ReadsRow(p)
    BY Targets DEF CommitReschedule, Writing, Changing, BookInv
  <1>3. c \in DOMAIN consults /\ consults \in Seq(ConsultType)
    BY <1>2 DEF ReadsRow, Writing, BookInv, TypeOK
  <1>4. r \in ConsultType
    BY <1>3
  <1>5. EventAfter(c) \in {"none", "cancelled"}
    BY <1>4 DEF EventAfter, ConsultType
  <1> PICK q : q = [r EXCEPT !.status = "rescheduled", !.event = EventAfter(c)]
    OBVIOUS
  <1>6. RowOf(c, q, "rescheduled")
    BY <1>4, <1>5 DEF RowOf, ConsultType, Statuses, OnCalendar
  <1>7. n \in ConsultType
    <2>1. r.session \in Sessions /\ c \in Nat
      BY <1>1, <1>4 DEF ConsultType, MoveTx
    <2> QED
      BY <1>1, <2>1 DEF MoveTx, ConsultType, Statuses
  <1>8. BookedRow(p, n)
    BY <1>7 DEF BookedRow
  <1>9. consults' = Append([consults EXCEPT ![c] = q], n)
    BY DEF CommitReschedule
  <1> HIDE DEF n, r
  <1> QED
    BY <1>1, <1>2, <1>6, <1>8, <1>9 DEF CommitReschedule

LEMMA ExpireEffect ==
    ASSUME BookInv, NEW c \in DOMAIN consults, NEW now, ExpireSlotHold(c, now)
    PROVE  /\ \E q : Settled(c, q, "expired")
           /\ consults[c].status = "held"
           /\ \A p \in Requests : Writing(p) => tx[p].c # c
           /\ tx' = tx /\ clock' = clock
  <1> PICK q : q = [consults[c] EXCEPT !.status = "expired"]
    OBVIOUS
  <1>1. consults[c] \in ConsultType
    BY DEF BookInv, TypeOK
  <1>2. consults' = [consults EXCEPT ![c] = q]
    BY DEF ExpireSlotHold
  <1>3. consults[c].event # "live"
    BY DEF BookInv, CalendarFollowsStatus, ExpireSlotHold
  <1>4. Settled(c, q, "expired")
    BY <1>1, <1>2, <1>3 DEF Settled, RowOf, ConsultType, Statuses, OnCalendar
  <1> QED
    BY <1>4 DEF ExpireSlotHold, RowLocked, Writing

\* Every other step leaves the consultations as they are.
LEMMA OtherEffect ==
    ASSUME [Next]_vars,
           ~\E p \in Requests : Proceed(p) \/ Request(p),
           ~\E c \in DOMAIN consults, now \in 0 .. clock : ExpireSlotHold(c, now)
    PROVE  /\ UNCHANGED <<consults, timers, tasks, reminded, offers, flagged, tx>>
           /\ clock' = clock \/ (clock < LastTime /\ clock' = clock + 1)
  BY DEF Next, PassTime, vars

-----------------------------------------------------------------------------
(* Rows written and rows added.                                            *)

LEMMA RowWritten ==
    ASSUME consults \in Seq(ConsultType), NEW c \in DOMAIN consults, NEW q \in ConsultType,
           NEW rows, rows = [consults EXCEPT ![c] = q]
    PROVE  /\ rows \in Seq(ConsultType) /\ DOMAIN rows = DOMAIN consults
           /\ Len(rows) = Len(consults)
           /\ rows[c] = q /\ \A i \in DOMAIN consults : i # c => rows[i] = consults[i]
  OBVIOUS

LEMMA RowAdded ==
    ASSUME NEW rows \in Seq(ConsultType), NEW n \in ConsultType,
           NEW next, next = Append(rows, n)
    PROVE  /\ next \in Seq(ConsultType) /\ DOMAIN next = DOMAIN rows \cup {Len(rows) + 1}
           /\ Len(rows) + 1 \notin DOMAIN rows /\ Len(rows) + 1 > 0
           /\ next[Len(rows) + 1] = n /\ \A i \in DOMAIN rows : next[i] = rows[i]
  OBVIOUS

-----------------------------------------------------------------------------
(* The invariant stays: types.                                             *)

LEMMA TxSet ==
    ASSUME tx \in [Requests -> TxType], NEW p \in Requests, NEW t \in TxType,
           tx' = [tx EXCEPT ![p] = t]
    PROVE  /\ tx' \in [Requests -> TxType] /\ tx'[p] = t
           /\ \A q \in Requests : q # p => tx'[q] = tx[q]
  OBVIOUS

LEMMA TxFinished ==
    ASSUME tx \in [Requests -> TxType], NEW p \in Requests, Finish(p)
    PROVE  /\ tx' \in [Requests -> TxType] /\ tx'[p] = Idle
           /\ \A q \in Requests : q # p => tx'[q] = tx[q]
  BY Kinds DEF Finish

\* A request goes on to its next point.
Steps(p, label) ==
    GoesOn(tx[p], label) /\ tx' = [tx EXCEPT ![p] = [tx[p] EXCEPT !.pc = label]]

LEMMA StepEffect ==
    ASSUME TypeOK, NEW p \in Requests, LockCalendar(p) \/ Mark(p) \/ Silence(p)
    PROVE  /\ LockCalendar(p) => tx[p].op \in {"hold", "reschedule"} /\ Steps(p, "locked")
           /\ Mark(p) => Changing(p) /\ Steps(p, "marked")
           /\ Silence(p) => Writing(p) /\ Steps(p, "silenced")
           /\ UNCHANGED Stored
  BY Targets DEF LockCalendar, Mark, Silence, Steps, GoesOn, Goto, Changing, Writing

\* Rows are only ever added to the consultations.
LEMMA ConsultsTyped ==
    ASSUME BookInv, [Next]_vars
    PROVE  /\ consults' \in Seq(ConsultType) /\ DOMAIN consults \subseteq DOMAIN consults'
           /\ Len(consults) <= Len(consults')
  <1>0. consults \in Seq(ConsultType)
    BY DEF BookInv, TypeOK
  <1>1. ASSUME NEW p \in Requests, Proceed(p)
        PROVE  /\ consults' \in Seq(ConsultType) /\ DOMAIN consults \subseteq DOMAIN consults'
               /\ Len(consults) <= Len(consults')
    <2>1. CASE CommitHold(p)
      BY <1>0, <2>1, HoldEffect, RowAdded DEF HeldRow
    <2>2. CASE Settles(p)
      <3>1. PICK q : Settled(tx[p].c, q, Target[tx[p].op])
        BY <2>2, SettleEffect
      <3>2. tx[p].c \in DOMAIN consults
        BY <2>2, SettleEffect DEF Writing, BookInv, ReadsRow
      <3> QED
        BY <1>0, <3>1, <3>2, RowWritten DEF Settled, RowOf
    <2>3. CASE CommitReschedule(p)
      <3>1. PICK q, n : /\ RowOf(tx[p].c, q, "rescheduled") /\ BookedRow(p, n)
                        /\ consults' = Append([consults EXCEPT ![tx[p].c] = q], n)
        BY <2>3, MoveEffect
      <3>2. tx[p].c \in DOMAIN consults
        BY <2>3, MoveEffect DEF Writing, BookInv, ReadsRow
      <3> DEFINE rows == [consults EXCEPT ![tx[p].c] = q]
      <3>3. rows \in Seq(ConsultType) /\ DOMAIN rows = DOMAIN consults /\ Len(rows) = Len(consults)
        BY <1>0, <3>1, <3>2, RowWritten DEF RowOf
      <3>4. consults' = Append(rows, n) /\ n \in ConsultType
        BY <3>1 DEF BookedRow
      <3> HIDE DEF rows
      <3> QED
        BY <3>3, <3>4, RowAdded
    <2>4. CASE LockCalendar(p) \/ Mark(p) \/ Silence(p) \/ Ticks(p) \/ Ends(p)
      BY <1>0, <2>4 DEF LockCalendar, Mark, Silence, Ticks, Ends, Stored
    <2> QED
      BY <1>1, <2>1, <2>2, <2>3, <2>4, ProceedEffect DEF BookInv
  <1>2. ASSUME NEW p \in Requests, Request(p)
        PROVE  UNCHANGED consults
    BY <1>2, RequestEffect DEF Begins, Stored, BookInv
  <1>3. ASSUME NEW c \in DOMAIN consults, NEW now \in 0 .. clock, ExpireSlotHold(c, now)
        PROVE  /\ consults' \in Seq(ConsultType) /\ DOMAIN consults \subseteq DOMAIN consults'
               /\ Len(consults) <= Len(consults')
    BY <1>0, <1>3, ExpireEffect, RowWritten DEF Settled, RowOf
  <1> QED
    BY <1>0, <1>1, <1>2, <1>3, OtherEffect

LEMMA TxStaysTyped ==
    ASSUME BookInv, [Next]_vars
    PROVE  tx' \in [Requests -> TxType]
  <1>0. tx \in [Requests -> TxType]
    BY DEF BookInv, TypeOK
  <1>1. ASSUME NEW p \in Requests, Proceed(p)
        PROVE  tx' \in [Requests -> TxType]
    <2>1. CASE CommitHold(p) \/ Settles(p) \/ CommitReschedule(p) \/ Ends(p)
      BY <1>0, <2>1, HoldEffect, SettleEffect, MoveEffect, TxFinished DEF Ends
    <2>2. CASE LockCalendar(p) \/ Mark(p) \/ Silence(p)
      <3>1. PICK label : Steps(p, label)
        BY <2>2, StepEffect DEF BookInv
      <3>2. [tx[p] EXCEPT !.pc = label] \in TxType
        BY <1>0, <3>1, GoesOnTyped DEF Steps
      <3> QED
        BY <1>0, <3>1, <3>2, TxSet DEF Steps
    <2>3. CASE Ticks(p)
      BY <1>0, <2>3, TxSet, Kinds DEF Ticks
    <2> QED
      BY <1>1, <2>1, <2>2, <2>3, ProceedEffect DEF BookInv
  <1>2. ASSUME NEW p \in Requests, Request(p)
        PROVE  tx' \in [Requests -> TxType]
    BY <1>0, <1>2, RequestEffect, TxSet DEF Begins, BookInv
  <1> QED
    BY <1>0, <1>1, <1>2, ExpireEffect, OtherEffect

\* What is kept beside the consultations: timers, tasks, reminders, offers
\* and flags.
Beside == <<timers, tasks, reminded, offers, flagged>>
BesideTyped ==
    /\ timers \in SUBSET (TimerKinds \X DOMAIN consults)
    /\ tasks \in SUBSET (TaskKinds \X DOMAIN consults)
    /\ reminded \in SUBSET DOMAIN consults
    /\ offers \in [Sessions -> Nat]
    /\ flagged \in SUBSET Sessions

LEMMA NewTimersTyped ==
    ASSUME NEW n, NEW slot, NEW now
    PROVE  NewTimers(n, slot, now) \subseteq TimerKinds \X {n}
  BY DEF NewTimers, TimerKinds

LEMMA BesideStaysTyped ==
    ASSUME BookInv, [Next]_vars
    PROVE  BesideTyped'
  <1>0. BesideTyped /\ DOMAIN consults \subseteq DOMAIN consults' /\ consults \in Seq(ConsultType)
    BY ConsultsTyped DEF BookInv, TypeOK, BesideTyped
  <1>1. ASSUME UNCHANGED Beside
        PROVE  BesideTyped'
    BY <1>0, <1>1 DEF Beside, BesideTyped
  <1>2. ASSUME NEW c \in DOMAIN consults
        PROVE  consults[c].session \in Sessions
    <2>1. consults[c] \in ConsultType
      BY <1>0
    <2> QED
      BY <2>1 DEF ConsultType
  <1>3. ASSUME NEW p \in Requests, Proceed(p)
        PROVE  BesideTyped'
    <2> DEFINE c == tx[p].c
    <2>1. CASE CommitConfirm(p)
      <3>1. c \in DOMAIN consults
        BY <2>1, SettleEffect DEF Settles, Writing, BookInv, ReadsRow
      <3>2. NewTimers(c, consults[c].slot, tx[p].now) \subseteq TimerKinds \X {c}
        BY NewTimersTyped
      <3> QED
        BY <1>0, <2>1, <3>1, <3>2 DEF CommitConfirm, BesideTyped, TaskKinds
    <2>2. CASE CommitCancel(p) \/ CommitComplete(p) \/ CommitOnHold(p)
      BY <1>0, <2>2 DEF CommitCancel, CommitComplete, CommitOnHold, BesideTyped
    <2>3. ASSUME NEW mayWrite \in BOOLEAN, CommitNoShow(p, mayWrite)
          PROVE  BesideTyped'
      <3>1. c \in DOMAIN consults
        BY <2>3, SettleEffect DEF Settles, Writing, BookInv, ReadsRow
      <3>2. consults[c].session \in Sessions
        BY <1>2, <3>1
      <3> DEFINE s == consults[c].session
      <3>3. /\ offers' = [offers EXCEPT ![s] = offers[s] + 1] \/ offers' = offers
            /\ flagged' = flagged \/ flagged' = flagged \cup {s}
        BY <1>0, <2>3, <3>2 DEF CommitNoShow, BesideTyped
      <3>4. timers' \subseteq timers /\ tasks' \subseteq tasks /\ reminded' = reminded
        BY <2>3 DEF CommitNoShow
      <3> HIDE DEF s
      <3>5. s \in Sessions
        BY <3>2 DEF s
      <3>6. offers' \in [Sessions -> Nat]
        BY <1>0, <3>3, <3>5 DEF BesideTyped
      <3> QED
        BY <1>0, <3>3, <3>4, <3>5, <3>6 DEF BesideTyped
    <2>4. CASE CommitReschedule(p)
      <3> DEFINE n == Len(consults) + 1
      <3>1. n \in DOMAIN consults'
        <4>1. PICK q, r : /\ RowOf(c, q, "rescheduled") /\ BookedRow(p, r)
                          /\ consults' = Append([consults EXCEPT ![c] = q], r)
          BY <2>4, MoveEffect
        <4>2. c \in DOMAIN consults
          BY <2>4, MoveEffect DEF Writing, BookInv, ReadsRow
        <4> DEFINE rows == [consults EXCEPT ![c] = q]
        <4>3. rows \in Seq(ConsultType) /\ Len(rows) = Len(consults)
          BY <1>0, <4>1, <4>2, RowWritten DEF RowOf
        <4>4. consults' = Append(rows, r) /\ r \in ConsultType
          BY <4>1 DEF BookedRow
        <4> HIDE DEF rows
        <4> QED
          BY <4>3, <4>4, RowAdded
      <3>2. NewTimers(n, tx[p].slot, tx[p].now) \subseteq TimerKinds \X {n}
        BY NewTimersTyped
      <3>3. /\ timers' = (timers \ TimersOf(c)) \cup NewTimers(n, tx[p].slot, tx[p].now)
            /\ tasks' = (tasks \ TasksOf(c)) \cup {<<"record_outcome", n>>}
            /\ UNCHANGED <<reminded, offers, flagged>>
        BY <2>4 DEF CommitReschedule
      <3> HIDE DEF n
      <3>4. timers' \subseteq TimerKinds \X DOMAIN consults'
        BY <1>0, <3>1, <3>2, <3>3 DEF BesideTyped
      <3>5. tasks' \subseteq TaskKinds \X DOMAIN consults'
        BY <1>0, <3>1, <3>3 DEF BesideTyped, TaskKinds
      <3> QED
        BY <1>0, <3>3, <3>4, <3>5 DEF BesideTyped
    <2>5. CASE TickCommit(p)
      <3>1. tx[p].run \subseteq TimerKinds \X DOMAIN consults
        BY <2>5 DEF TickCommit, TicksRows, BookInv
      <3>2. \A t \in tx[p].run : t[2] \in DOMAIN consults
        BY <3>1
      <3> QED
        BY <1>0, <2>5, <3>2 DEF TickCommit, BesideTyped, TaskKinds
    <2>6. CASE CommitHold(p)
      BY <1>1, <2>6 DEF CommitHold, Beside
    <2>7. CASE LockCalendar(p) \/ Mark(p) \/ Silence(p) \/ Rollback(p)
      BY <1>1, <2>7 DEF LockCalendar, Mark, Silence, Rollback, Stored, Beside
    <2>8. ASSUME NEW t, TickHandle(p, t) \/ TickHandlerFails(p, t)
          PROVE  BesideTyped'
      BY <1>1, <2>8 DEF TickHandle, TickHandlerFails, Stored, Beside
    <2> QED
      BY <1>3, <2>1, <2>2, <2>3, <2>4, <2>5, <2>6, <2>7, <2>8 DEF Proceed
  <1>4. ASSUME NEW p \in Requests, Request(p)
        PROVE  BesideTyped'
    BY <1>1, <1>4, RequestEffect DEF Begins, Stored, Beside, BookInv
  <1>5. ASSUME NEW c \in DOMAIN consults, NEW now \in 0 .. clock, ExpireSlotHold(c, now)
        PROVE  BesideTyped'
    BY <1>1, <1>5 DEF ExpireSlotHold, Beside
  <1> QED
    BY <1>1, <1>3, <1>4, <1>5, OtherEffect DEF Beside

-----------------------------------------------------------------------------
(* The invariant stays: what the requests read.                            *)

LEMMA TypeStays ==
    ASSUME BookInv, [Next]_vars
    PROVE  TypeOK'
  <1>1. clock \in 0 .. LastTime => clock' \in 0 .. LastTime
    <2>1. clock' = clock \/ (clock < LastTime /\ clock' = clock + 1)
      <3>1. ASSUME NEW p \in Requests, Proceed(p)
            PROVE  clock' = clock
        BY <3>1, ProceedEffect, HoldEffect, SettleEffect, MoveEffect
           DEF LockCalendar, Mark, Silence, Ticks, Ends, Stored, BookInv
      <3>2. ASSUME NEW p \in Requests, Request(p)
            PROVE  clock' = clock
        BY <3>2, RequestEffect DEF Begins, Stored, BookInv
      <3> QED
        BY <3>1, <3>2, ExpireEffect, OtherEffect
    <2> QED
      BY <2>1, BoundsAssumption DEF BookingAssumption
  <1> QED
    BY <1>1, ConsultsTyped, TxStaysTyped, BesideStaysTyped DEF TypeOK, BesideTyped, BookInv

\* What becomes of one request.
LEMMA TxMoves ==
    ASSUME BookInv, [Next]_vars, NEW p \in Requests
    PROVE  \/ tx'[p] = tx[p]
           \/ tx'[p] = Idle
           \/ tx[p] = Idle /\ Begun(tx'[p]) /\ UNCHANGED <<consults, timers, clock>>
           \/ /\ tx[p].op = "tick" /\ tx'[p] \in TickTx
              /\ tx'[p].left \cup tx'[p].run \subseteq tx[p].left \cup tx[p].run
           \/ /\ LockCalendar(p) \/ Mark(p) \/ Silence(p)
              /\ UNCHANGED <<consults, clock>>
              /\ \A q \in Requests : q # p => tx'[q] = tx[q]
  <1>0. tx \in [Requests -> TxType] /\ TypeOK
    BY DEF BookInv, TypeOK
  <1>1. ASSUME NEW q \in Requests, Proceed(q), NEW r \in Requests, r # q
        PROVE  tx'[r] = tx[r]
    BY <1>0, <1>1, ProceedEffect, HoldEffect, SettleEffect, MoveEffect, StepEffect
       DEF Finish, Ends, Ticks, Steps
  <1>2. ASSUME NEW q \in Requests, Request(q), NEW r \in Requests, r # q
        PROVE  tx'[r] = tx[r]
    BY <1>0, <1>2, RequestEffect DEF Begins
  <1>3. CASE Proceed(p)
    <2>1. CASE CommitHold(p) \/ Settles(p) \/ CommitReschedule(p) \/ Ends(p)
      BY <1>0, <2>1, HoldEffect, SettleEffect, MoveEffect, TxFinished DEF Ends
    <2>2. CASE LockCalendar(p) \/ Mark(p) \/ Silence(p)
      BY <1>1, <1>3, <2>2 DEF LockCalendar, Mark, Silence, Stored
    <2>3. CASE Ticks(p)
      BY <1>0, <2>3, TxSet, Kinds DEF Ticks
    <2> QED
      BY <1>0, <1>3, <2>1, <2>2, <2>3, ProceedEffect
  <1>4. CASE Request(p)
    BY <1>0, <1>4, RequestEffect, TxSet DEF Begins, Stored
  <1> QED
    BY <1>0, <1>1, <1>2, <1>3, <1>4, ExpireEffect, OtherEffect

\* A row keeps its lawyer, slot and predecessor; it is changed as it was or
\* to a status that is no longer "held", and only by the transaction that has
\* it, which ends with that, or when nobody has it.
LEMMA RowsStay ==
    ASSUME BookInv, [Next]_vars, NEW i \in DOMAIN consults
    PROVE  /\ consults'[i].lawyer = consults[i].lawyer
           /\ consults'[i].slot = consults[i].slot
           /\ consults'[i].previous = consults[i].previous
           /\ \/ consults'[i] = consults[i]
              \/ /\ consults'[i].status # "held"
                 /\ consults[i].status \in {"held", "booked", "on_hold"}
                 /\ consults'[i].event = "live" <=> consults'[i].status \in OnCalendar
                 /\ \A p \in Requests : Writing(p) /\ tx[p].c = i => tx'[p] = Idle
  <1> DEFINE Goal ==
           /\ consults'[i].lawyer = consults[i].lawyer
           /\ consults'[i].slot = consults[i].slot
           /\ consults'[i].previous = consults[i].previous
           /\ \/ consults'[i] = consults[i]
              \/ /\ consults'[i].status # "held"
                 /\ consults[i].status \in {"held", "booked", "on_hold"}
                 /\ consults'[i].event = "live" <=> consults'[i].status \in OnCalendar
                 /\ \A p \in Requests : Writing(p) /\ tx[p].c = i => tx'[p] = Idle
  <1> SUFFICES Goal
    OBVIOUS
  <1>0. consults \in Seq(ConsultType) /\ tx \in [Requests -> TxType] /\ TypeOK
    BY DEF BookInv, TypeOK
  <1>1. ASSUME consults'[i] = consults[i] PROVE Goal
    BY <1>1
  <1>2. ASSUME NEW c \in DOMAIN consults, NEW q, NEW target \in Statuses \ {"held"},
               RowOf(c, q, target), consults'[i] = IF i = c THEN q ELSE consults[i],
               consults[c].status \in {"held", "booked", "on_hold"},
               \A p \in Requests : Writing(p) /\ tx[p].c = c => tx'[p] = Idle
        PROVE  Goal
    BY <1>2 DEF RowOf
  <1> HIDE DEF Goal
  <1>3. ASSUME NEW p \in Requests, Writing(p), Finish(p)
        PROVE  /\ tx[p].c \in DOMAIN consults
               /\ consults[tx[p].c].status \in {"held", "booked", "on_hold"}
               /\ \A q \in Requests : Writing(q) /\ tx[q].c = tx[p].c => tx'[q] = Idle
    BY <1>0, <1>3, TxFinished, Transitions DEF BookInv, ReadsRow, Writing, OneWriter
  <1>4. ASSUME NEW p \in Requests, Proceed(p)
        PROVE  Goal
    <2>1. CASE CommitHold(p)
      BY <1>0, <1>1, <2>1, HoldEffect, RowAdded DEF HeldRow
    <2>2. CASE Settles(p)
      <3> DEFINE c == tx[p].c
      <3>1. PICK q : Settled(c, q, Target[tx[p].op])
        BY <2>2, SettleEffect
      <3>2. Writing(p) /\ Finish(p)
        BY <2>2, SettleEffect
      <3>3. Target[tx[p].op] \in Statuses \ {"held"}
        BY <3>2, Targets DEF Writing, Changing, Statuses
      <3>4. consults'[i] = IF i = c THEN q ELSE consults[i]
        BY <1>0, <1>3, <3>1, <3>2, RowWritten DEF Settled, RowOf
      <3> QED
        BY <1>2, <1>3, <3>1, <3>2, <3>3, <3>4 DEF Settled
    <2>3. CASE CommitReschedule(p)
      <3> DEFINE c == tx[p].c
      <3>1. PICK q, n : /\ RowOf(c, q, "rescheduled") /\ BookedRow(p, n)
                        /\ consults' = Append([consults EXCEPT ![c] = q], n)
        BY <2>3, MoveEffect
      <3>2. Writing(p) /\ Finish(p)
        BY <2>3, MoveEffect
      <3> DEFINE rows == [consults EXCEPT ![c] = q]
      <3>3. /\ rows \in Seq(ConsultType) /\ DOMAIN rows = DOMAIN consults
            /\ rows[i] = IF i = c THEN q ELSE consults[i]
        BY <1>0, <1>3, <3>1, <3>2, RowWritten DEF RowOf
      <3>4. consults' = Append(rows, n) /\ n \in ConsultType
        BY <3>1 DEF BookedRow
      <3> HIDE DEF rows
      <3>5. consults'[i] = IF i = c THEN q ELSE consults[i]
        BY <3>3, <3>4, RowAdded
      <3> QED
        BY <1>2, <1>3, <3>1, <3>2, <3>5 DEF Statuses
    <2>4. CASE LockCalendar(p) \/ Mark(p) \/ Silence(p) \/ Ticks(p) \/ Ends(p)
      BY <1>1, <2>4 DEF LockCalendar, Mark, Silence, Ticks, Ends, Stored
    <2> QED
      BY <1>0, <1>4, <2>1, <2>2, <2>3, <2>4, ProceedEffect
  <1>5. ASSUME NEW p \in Requests, Request(p)
        PROVE  Goal
    BY <1>0, <1>1, <1>5, RequestEffect DEF Begins, Stored
  <1>6. ASSUME NEW c \in DOMAIN consults, NEW now \in 0 .. clock, ExpireSlotHold(c, now)
        PROVE  Goal
    <2>1. PICK q : Settled(c, q, "expired")
      BY <1>6, ExpireEffect
    <2>2. consults'[i] = IF i = c THEN q ELSE consults[i]
      BY <1>0, <2>1, RowWritten DEF Settled, RowOf
    <2> QED
      BY <1>2, <1>6, <2>1, <2>2, ExpireEffect DEF Settled, Statuses
  <1> QED
    BY <1>1, <1>4, <1>5, <1>6, OtherEffect

\* A new row is a held one, or takes the place of one that is closed by it.
LEMMA NewRow ==
    ASSUME BookInv, [Next]_vars, NEW j \in DOMAIN consults' \ DOMAIN consults
    PROVE  \E p \in Requests :
               /\ Finish(p) /\ clock' = clock
               /\ DOMAIN consults' = DOMAIN consults \cup {j} /\ j # 0
               /\ \/ CommitHold(p) /\ HeldRow(p, consults'[j])
                  \/ /\ CommitReschedule(p) /\ BookedRow(p, consults'[j]) /\ Writing(p)
                     /\ consults'[tx[p].c].status = "rescheduled"
                     /\ consults'[tx[p].c].event # "live"
  <1>0. consults \in Seq(ConsultType) /\ tx \in [Requests -> TxType] /\ TypeOK
    BY DEF BookInv, TypeOK
  <1>1. PICK p \in Requests : CommitHold(p) \/ CommitReschedule(p)
    <2>1. ASSUME NEW p \in Requests, Proceed(p), ~CommitHold(p), ~CommitReschedule(p)
          PROVE  DOMAIN consults' = DOMAIN consults
      <3>1. CASE Settles(p)
        <4>1. PICK q : Settled(tx[p].c, q, Target[tx[p].op])
          BY <3>1, SettleEffect
        <4>2. tx[p].c \in DOMAIN consults
          BY <3>1, SettleEffect DEF Writing, BookInv, ReadsRow
        <4> QED
          BY <1>0, <4>1, <4>2, RowWritten DEF Settled, RowOf
      <3>2. CASE LockCalendar(p) \/ Mark(p) \/ Silence(p) \/ Ticks(p) \/ Ends(p)
        BY <3>2 DEF LockCalendar, Mark, Silence, Ticks, Ends, Stored
      <3> QED
        BY <1>0, <2>1, <3>1, <3>2, ProceedEffect
    <2>2. ASSUME NEW p \in Requests, Request(p)
          PROVE  DOMAIN consults' = DOMAIN consults
      BY <1>0, <2>2, RequestEffect DEF Begins, Stored
    <2>3. ASSUME NEW c \in DOMAIN consults, NEW now \in 0 .. clock, ExpireSlotHold(c, now)
          PROVE  DOMAIN consults' = DOMAIN consults
      BY <1>0, <2>3, ExpireEffect, RowWritten DEF Settled, RowOf
    <2> QED
      BY <2>1, <2>2, <2>3, OtherEffect
  <1>2. CASE CommitHold(p)
    <2>1. PICK n : HeldRow(p, n) /\ consults' = Append(consults, n)
      BY <1>2, HoldEffect
    <2>2. DOMAIN consults' = DOMAIN consults \cup {j} /\ j # 0 /\ consults'[j] = n
      BY <1>0, <2>1, RowAdded DEF HeldRow
    <2> QED
      BY <1>2, <2>1, <2>2, HoldEffect
  <1>3. CASE CommitReschedule(p)
    <2> DEFINE c == tx[p].c
    <2>1. PICK q, n : /\ RowOf(c, q, "rescheduled") /\ BookedRow(p, n)
                      /\ consults' = Append([consults EXCEPT ![c] = q], n)
      BY <1>3, MoveEffect
    <2>2. Writing(p) /\ Finish(p) /\ clock' = clock /\ c \in DOMAIN consults
      BY <1>3, MoveEffect DEF BookInv, ReadsRow, Writing
    <2> DEFINE rows == [consults EXCEPT ![c] = q]
    <2>3. rows \in Seq(ConsultType) /\ DOMAIN rows = DOMAIN consults /\ rows[c] = q
      BY <1>0, <2>1, <2>2, RowWritten DEF RowOf
    <2>4. consults' = Append(rows, n) /\ n \in ConsultType
      BY <2>1 DEF BookedRow
    <2> HIDE DEF rows
    <2>5. /\ DOMAIN consults' = DOMAIN consults \cup {j} /\ j # 0
          /\ consults'[j] = n /\ consults'[c] = q
      BY <2>2, <2>3, <2>4, RowAdded
    <2>6. q.status = "rescheduled" /\ q.event # "live"
      BY <2>1 DEF RowOf, OnCalendar
    <2> QED
      BY <1>3, <2>1, <2>2, <2>5, <2>6
  <1> QED
    BY <1>1, <1>2, <1>3

LEMMA CalendarStays ==
    ASSUME BookInv, [Next]_vars
    PROVE  CalendarFollowsStatus'
  <1> SUFFICES ASSUME NEW i \in DOMAIN consults'
               PROVE  consults'[i].event = "live" <=> consults'[i].status \in OnCalendar
    BY DEF CalendarFollowsStatus, OnCalendar
  <1>1. CASE i \in DOMAIN consults
    BY <1>1, RowsStay DEF BookInv, CalendarFollowsStatus, OnCalendar
  <1>2. CASE i \notin DOMAIN consults
    BY <1>2, NewRow DEF HeldRow, BookedRow, OnCalendar
  <1> QED
    BY <1>1, <1>2

LEMMA ChainStays ==
    ASSUME BookInv, [Next]_vars
    PROVE  Chain'
  <1>0. DOMAIN consults \subseteq DOMAIN consults'
    BY ConsultsTyped
  <1>1. ASSUME NEW i \in DOMAIN consults, consults[i].status = "rescheduled"
        PROVE  consults'[i].status = "rescheduled"
    BY <1>1, RowsStay
  <1>2. ASSUME NEW i \in DOMAIN consults' \ DOMAIN consults, consults'[i].previous # 0
        PROVE  /\ consults'[i].previous \in DOMAIN consults
               /\ consults[consults'[i].previous].status # "rescheduled"
               /\ consults'[consults'[i].previous].status = "rescheduled"
               /\ DOMAIN consults' = DOMAIN consults \cup {i}
    <2>1. PICK p \in Requests : /\ CommitReschedule(p) /\ BookedRow(p, consults'[i]) /\ Writing(p)
                                /\ consults'[tx[p].c].status = "rescheduled"
                                /\ DOMAIN consults' = DOMAIN consults \cup {i}
      BY <1>2, NewRow DEF HeldRow
    <2>2. tx[p].c \in DOMAIN consults /\ consults[tx[p].c].status # "rescheduled"
      BY <2>1, Transitions DEF BookInv, ReadsRow, Writing
    <2> QED
      BY <2>1, <2>2 DEF BookedRow
  <1>3. ASSUME NEW i \in DOMAIN consults', consults'[i].previous # 0
        PROVE  /\ consults'[i].previous \in DOMAIN consults'
               /\ consults'[consults'[i].previous].status = "rescheduled"
    <2>1. CASE i \in DOMAIN consults
      BY <1>0, <1>1, <1>3, <2>1, RowsStay DEF BookInv, Chain
    <2>2. CASE i \notin DOMAIN consults
      BY <1>0, <1>2, <1>3, <2>2
    <2> QED
      BY <2>1, <2>2
  <1>4. ASSUME NEW i \in DOMAIN consults', NEW j \in DOMAIN consults', i # j,
               consults'[i].previous # 0, consults'[i].previous = consults'[j].previous
        PROVE  FALSE
    <2>1. CASE i \in DOMAIN consults /\ j \in DOMAIN consults
      BY <1>4, <2>1, RowsStay DEF BookInv, Chain
    <2>2. CASE i \notin DOMAIN consults
      <3>1. j \in DOMAIN consults
        BY <1>2, <1>4, <2>2
      <3>2. consults'[j].previous = consults[j].previous
        BY <3>1, RowsStay
      <3>3. consults[consults[j].previous].status = "rescheduled"
        BY <1>4, <3>1, <3>2 DEF BookInv, Chain
      <3> QED
        BY <1>2, <1>4, <2>2, <3>2, <3>3
    <2>3. CASE j \notin DOMAIN consults
      <3>1. i \in DOMAIN consults
        BY <1>2, <1>4, <2>3
      <3>2. consults'[i].previous = consults[i].previous
        BY <3>1, RowsStay
      <3>3. consults[consults[i].previous].status = "rescheduled"
        BY <1>4, <3>1, <3>2 DEF BookInv, Chain
      <3> QED
        BY <1>2, <1>4, <2>3, <3>2, <3>3
    <2> QED
      BY <2>1, <2>2, <2>3
  <1> QED
    BY <1>3, <1>4 DEF Chain

LEMMA ReadsStay ==
    ASSUME BookInv, [Next]_vars, NEW p \in Requests
    PROVE  ReadsRow(p)'
  <1>0. TypeOK /\ tx[p] \in TxType /\ ReadsRow(p)
    BY DEF BookInv, TypeOK
  <1>1. CASE tx'[p] = tx[p]
    <2>1. tx[p] # Idle \/ ~Changing(p)
      BY Targets DEF Changing, Idle
    <2>2. SUFFICES ASSUME Changing(p), tx[p] # Idle
                   PROVE  ReadsRow(p)'
      BY <1>1, <2>1 DEF Changing, ReadsRow
    <2> DEFINE c == tx[p].c
    <2>3. c \in DOMAIN consults /\ DOMAIN consults \subseteq DOMAIN consults'
      BY <1>0, <2>2, ConsultsTyped DEF ReadsRow
    <2>4. \/ consults'[c] = consults[c]
          \/ consults'[c].status # "held" /\ ~Writing(p)
      BY <1>1, <2>2, <2>3, RowsStay
    <2> QED
      BY <1>0, <1>1, <2>2, <2>3, <2>4 DEF ReadsRow, Writing, Changing
  <1>2. CASE tx'[p] = Idle
    BY <1>2, Targets DEF ReadsRow, Changing, Idle
  <1>3. CASE Begun(tx'[p]) /\ UNCHANGED <<consults, clock>>
    <2>1. ASSUME tx'[p].op = "reschedule"
          PROVE  CanTransition(tx'[p].was, "rescheduled") /\ tx'[p].was = consults[tx'[p].c].status
      BY <1>3, <2>1, Targets DEF Begun
    <2> QED
      BY <1>3, <2>1, Transitions DEF ReadsRow, Changing, Begun
  <1>4. CASE tx'[p] \in TickTx
    BY <1>4, Targets DEF TickTx, ReadsRow, Changing
  <1>5. CASE (LockCalendar(p) \/ Mark(p) \/ Silence(p)) /\ UNCHANGED <<consults, clock>>
    <2>1. PICK label : Steps(p, label) /\ (Mark(p) \/ Writing(p) \/ label = "locked")
      BY <1>0, <1>5, StepEffect
    <2> DEFINE t == [tx[p] EXCEPT !.pc = label]
    <2>2. tx'[p] = t
      BY <2>1 DEF Steps, BookInv, TypeOK
    <2>3. ASSUME tx[p] \in ChangeTx \cup MoveTx
          PROVE  t.op = tx[p].op /\ t.c = tx[p].c /\ t.was = tx[p].was /\ t.pc = label
      BY <2>3 DEF ChangeTx, MoveTx
    <2>4. Changing(p)' => Changing(p) /\ tx[p] \in ChangeTx \cup MoveTx
      <3>1. tx[p].op = t.op
        OBVIOUS
      <3> QED
        BY <1>0, <2>2, <3>1, TxByOperation, Targets DEF Changing
    <2>5. Mark(p) => consults[tx[p].c].status = tx[p].was
      BY DEF Mark
    <2> HIDE DEF t
    <2> QED
      BY <1>0, <1>5, <2>1, <2>2, <2>3, <2>4, <2>5 DEF ReadsRow, Writing
  <1> QED
    BY <1>1, <1>2, <1>3, <1>4, <1>5, TxMoves

LEMMA OneWriterStays ==
    ASSUME BookInv, [Next]_vars
    PROVE  OneWriter'
  <1> SUFFICES ASSUME NEW p \in Requests, NEW q \in Requests, p # q, Writing(p)', Writing(q)',
                      tx'[p].c = tx'[q].c
               PROVE  FALSE
    BY DEF OneWriter
  <1>0. TypeOK /\ tx \in [Requests -> TxType]
    BY DEF BookInv, TypeOK
  <1>1. ASSUME NEW r \in Requests, Writing(r)'
        PROVE  \/ tx'[r] = tx[r] /\ Writing(r)
               \/ /\ tx'[r].c = tx[r].c
                  /\ Writing(r) \/ Mark(r)
                  /\ \A o \in Requests : o # r => tx'[o] = tx[o]
    <2>1. CASE tx'[r] = tx[r]
      BY <1>1, <2>1 DEF Writing, Changing
    <2>2. CASE tx'[r] = Idle \/ tx'[r] \in TickTx \/ Begun(tx'[r])
      BY <1>1, <2>2, Targets DEF Idle, TickTx, Begun, Writing, Changing
    <2>3. CASE (LockCalendar(r) \/ Mark(r) \/ Silence(r)) /\ \A o \in Requests : o # r => tx'[o] = tx[o]
      <3>1. PICK label : Steps(r, label) /\ (Mark(r) \/ Writing(r) \/ label = "locked")
        BY <1>0, <2>3, StepEffect
      <3> DEFINE t == [tx[r] EXCEPT !.pc = label]
      <3>2. tx'[r] = t
        BY <1>0, <3>1 DEF Steps
      <3>3. tx[r].op = t.op
        OBVIOUS
      <3>4. tx[r] \in ChangeTx \cup MoveTx
        BY <1>0, <1>1, <3>2, <3>3, TxByOperation, Targets DEF Writing, Changing
      <3>5. t.c = tx[r].c /\ t.pc = label
        BY <3>4 DEF ChangeTx, MoveTx
      <3> HIDE DEF t
      <3> QED
        BY <1>1, <2>3, <3>1, <3>2, <3>5 DEF Writing
    <2> QED
      BY <2>1, <2>2, <2>3, TxMoves
  <1>2. ASSUME NEW r \in Requests, NEW o \in Requests, r # o, Mark(r), Writing(o), tx[r].c = tx[o].c
        PROVE  FALSE
    BY <1>2 DEF Mark, RowLocked, Writing
  <1>3. (Writing(p) \/ Mark(p)) /\ (Writing(q) \/ Mark(q)) /\ tx[p].c = tx[q].c
    BY <1>1
  <1>4. ~(Mark(p) /\ Mark(q))
    <2> SUFFICES ASSUME Mark(p), Mark(q) PROVE FALSE
      OBVIOUS
    <2>1. Steps(p, "marked") /\ Steps(q, "marked")
      BY <1>0, StepEffect
    <2>2. tx'[p] = tx[p]
      BY <1>0, <2>1 DEF Steps
    <2>3. tx[p].pc # "marked" /\ tx[p] \in ChangeTx \cup MoveTx
      BY <1>0, TxByOperation, Targets DEF Mark, Changing
    <2>4. [tx[p] EXCEPT !.pc = "marked"].pc = "marked"
      BY <2>3 DEF ChangeTx, MoveTx
    <2> QED
      BY <1>0, <2>1, <2>2, <2>3, <2>4 DEF Steps
  <1> QED
    BY <1>2, <1>3, <1>4 DEF BookInv, OneWriter

LEMMA TicksStay ==
    ASSUME BookInv, [Next]_vars
    PROVE  TicksRows'
  <1> SUFFICES ASSUME NEW p \in Requests, tx'[p].op = "tick"
               PROVE  tx'[p].left \cup tx'[p].run \subseteq TimerKinds \X DOMAIN consults'
    BY DEF TicksRows
  <1>0. /\ TimerKinds \X DOMAIN consults \subseteq TimerKinds \X DOMAIN consults'
        /\ TypeOK /\ timers \subseteq TimerKinds \X DOMAIN consults
    BY ConsultsTyped DEF BookInv, TypeOK
  <1>1. ASSUME LockCalendar(p) \/ Mark(p) \/ Silence(p)
        PROVE  FALSE
    <2>1. PICK label : Steps(p, label)
      BY <1>0, <1>1, StepEffect
    <2>2. tx'[p].op = tx[p].op /\ tx[p].op # "tick"
      <3> DEFINE t == [tx[p] EXCEPT !.pc = label]
      <3>1. tx[p].op = t.op
        OBVIOUS
      <3>2. tx'[p] = t
        BY <2>1 DEF Steps, BookInv, TypeOK
      <3> QED
        BY <2>1, <3>1, <3>2, Targets DEF Steps, GoesOn
    <2> QED
      BY <2>2
  <1> QED
    BY <1>0, <1>1, TxMoves DEF BookInv, TicksRows, Begun, Idle

LEMMA BookStays == BookInv /\ [Next]_vars => BookInv'
  BY TypeStays, TicksStay, ReadsStay, OneWriterStays, CalendarStays, ChainStays DEF BookInv

LEMMA BookStarts == Init => BookInv
  <1> SUFFICES ASSUME Init PROVE BookInv
    OBVIOUS
  <1>1. \A p \in Requests : tx[p] = Idle /\ ~Changing(p) /\ tx[p].op # "tick"
    BY Targets DEF Init, Changing, Idle
  <1>2. DOMAIN consults = {}
    BY DEF Init
  <1>3. TypeOK
    BY Kinds, BoundsAssumption DEF Init, TypeOK, BookingAssumption
  <1> QED
    BY <1>1, <1>2, <1>3
       DEF BookInv, TicksRows, ReadsRow, OneWriter, Writing, CalendarFollowsStatus, Chain

LEMMA BookIsSound == Spec => []BookInv
  BY BookStarts, BookStays, PTL DEF Spec

\* Every reachable state of the consultations, their timers and tasks and the
\* transactions in progress is well typed.
THEOREM TypeCorrect == Spec => []TypeOK
  <1>1. BookInv => TypeOK
    BY DEF BookInv
  <1> QED
    BY <1>1, BookIsSound, PTL

-----------------------------------------------------------------------------
(* No two meetings at a time.                                              *)

\* A consultation takes up its lawyer's time: it is on the calendar, or a hold
\* of it still stands.
Taken(i) ==
    \/ consults[i].event = "live"
    \/ consults[i].status = "held" /\ consults[i].expires > clock

Clash(l, s, m, t) == l = m /\ Overlap(s, t)

\* A request has its lawyer's calendar.
HasCalendar(p) == tx[p].op \in {"hold", "reschedule"} /\ tx[p].pc # "asked"

\* What takes up time does not clash, nor does the slot a request that has the
\* calendar has found free; one request at a time has a lawyer's calendar.
Apart ==
    \A i, j \in DOMAIN consults :
        i # j /\ Taken(i) /\ Taken(j) =>
            ~Clash(consults[i].lawyer, consults[i].slot, consults[j].lawyer, consults[j].slot)
FoundFree ==
    \A p \in Requests, i \in DOMAIN consults :
        HasCalendar(p) /\ Taken(i) =>
            ~Clash(consults[i].lawyer, consults[i].slot, tx[p].lawyer, tx[p].slot)
OnePerCalendar ==
    \A p, q \in Requests :
        HasCalendar(p) /\ HasCalendar(q) /\ tx[p].lawyer = tx[q].lawyer => p = q
ClockRead ==
    \A p \in Requests : tx[p].op \in {"hold", "reschedule"} => tx[p].now <= clock

TimeInv == Apart /\ FoundFree /\ OnePerCalendar /\ ClockRead

LEMMA ClashTurned ==
    ASSUME NEW l, NEW s, NEW m, NEW t, Clash(l, s, m, t)
    PROVE  Clash(m, t, l, s)
  BY DEF Clash, Overlap

LEMMA ClockGoesOn ==
    ASSUME BookInv, [Next]_vars
    PROVE  clock' >= clock /\ clock \in Nat /\ clock' \in Nat
  <1>1. clock' = clock \/ (clock < LastTime /\ clock' = clock + 1)
    <2>1. ASSUME NEW p \in Requests, Proceed(p)
          PROVE  clock' = clock
      BY <2>1, ProceedEffect, HoldEffect, SettleEffect, MoveEffect
         DEF LockCalendar, Mark, Silence, Ticks, Ends, Stored, BookInv
    <2>2. ASSUME NEW p \in Requests, Request(p)
          PROVE  clock' = clock
      BY <2>2, RequestEffect DEF Begins, Stored, BookInv
    <2> QED
      BY <2>1, <2>2, ExpireEffect, OtherEffect
  <1> QED
    BY <1>1, BoundsAssumption DEF BookInv, TypeOK, BookingAssumption

\* A consultation that takes up time after a step did before it, unless it is
\* new: a hold is confirmed while it still stands.
LEMMA TakenBefore ==
    ASSUME BookInv, ConfirmedInTime, [Next]_vars, NEW i \in DOMAIN consults, Taken(i)'
    PROVE  Taken(i)
  <1>0. TypeOK /\ consults \in Seq(ConsultType)
    BY DEF BookInv, TypeOK
  <1>1. CASE consults'[i] = consults[i]
    <2>1. consults[i].expires \in Nat
      <3>1. consults[i] \in ConsultType
        BY <1>0
      <3> QED
        BY <3>1 DEF ConsultType
    <2> QED
      BY <1>1, <2>1, ClockGoesOn DEF Taken
  <1>2. CASE consults'[i] # consults[i]
    <2>1. consults'[i].event = "live"
      BY <1>2, RowsStay DEF Taken
    <2>2. ASSUME NEW p \in Requests, Settles(p)
          PROVE  Taken(i)
      <3> DEFINE c == tx[p].c
      <3>1. PICK q : /\ Settled(c, q, Target[tx[p].op])
                     /\ tx[p].op # "confirm" /\ q.event = "live" => consults[c].event = "live"
        BY <2>2, SettleEffect
      <3>2. Writing(p) /\ c \in DOMAIN consults
        BY <2>2, SettleEffect DEF BookInv, ReadsRow, Writing
      <3>3. i = c /\ consults'[i] = q
        BY <1>0, <1>2, <3>1, <3>2, RowWritten DEF Settled, RowOf
      <3>4. CASE tx[p].op = "confirm"
        <4>1. consults[c].status = "held"
          BY <3>2, <3>4 DEF BookInv, ReadsRow, Writing
        <4>2. clock < consults[c].expires
          BY <3>4 DEF ConfirmedInTime
        <4>3. consults[c].expires \in Nat /\ clock \in Nat
          <5>1. consults[c] \in ConsultType
            BY <1>0, <3>2
          <5> QED
            BY <5>1, ClockGoesOn DEF ConsultType
        <4> QED
          BY <3>3, <4>1, <4>2, <4>3 DEF Taken
      <3> QED
        BY <2>1, <3>1, <3>3, <3>4 DEF Taken
    <2>3. ASSUME NEW p \in Requests, CommitReschedule(p)
          PROVE  Taken(i)
      <3> DEFINE c == tx[p].c
      <3>1. PICK q, n : /\ RowOf(c, q, "rescheduled") /\ BookedRow(p, n)
                        /\ consults' = Append([consults EXCEPT ![c] = q], n)
        BY <2>3, MoveEffect
      <3>2. c \in DOMAIN consults
        BY <2>3, MoveEffect DEF BookInv, ReadsRow, Writing
      <3> DEFINE rows == [consults EXCEPT ![c] = q]
      <3>3. /\ rows \in Seq(ConsultType) /\ DOMAIN rows = DOMAIN consults
            /\ rows[i] = IF i = c THEN q ELSE consults[i]
        BY <1>0, <3>1, <3>2, RowWritten DEF RowOf
      <3>4. consults' = Append(rows, n) /\ n \in ConsultType
        BY <3>1 DEF BookedRow
      <3> HIDE DEF rows
      <3>5. consults'[i] = IF i = c THEN q ELSE consults[i]
        BY <3>3, <3>4, RowAdded
      <3>6. q.event # "live"
        BY <3>1 DEF RowOf, OnCalendar
      <3> QED
        BY <1>2, <2>1, <3>5, <3>6
    <2>4. ASSUME NEW p \in Requests, CommitHold(p)
          PROVE  FALSE
      BY <1>0, <1>2, <2>4, HoldEffect, RowAdded DEF HeldRow
    <2>5. ASSUME NEW c \in DOMAIN consults, NEW now \in 0 .. clock, ExpireSlotHold(c, now)
          PROVE  FALSE
      <3>1. PICK q : Settled(c, q, "expired")
        BY <2>5, ExpireEffect
      <3>2. q.event # "live"
        BY <3>1 DEF Settled, RowOf, OnCalendar
      <3> QED
        BY <1>0, <1>2, <2>1, <3>1, <3>2, RowWritten DEF Settled, RowOf
    <2>6. ASSUME NEW p \in Requests, Request(p)
          PROVE  FALSE
      BY <1>0, <1>2, <2>6, RequestEffect DEF Begins, Stored
    <2>7. ASSUME NEW p \in Requests,
                 LockCalendar(p) \/ Mark(p) \/ Silence(p) \/ Ticks(p) \/ Ends(p)
          PROVE  FALSE
      BY <1>2, <2>7 DEF LockCalendar, Mark, Silence, Ticks, Ends, Stored
    <2> QED
      BY <1>0, <1>2, <2>2, <2>3, <2>4, <2>5, <2>6, <2>7, ProceedEffect, OtherEffect
  <1> QED
    BY <1>1, <1>2

\* A step of a request keeps its lawyer, its slot and the clock it read.
LEMMA FieldsStay ==
    ASSUME BookInv, NEW p \in Requests, LockCalendar(p) \/ Mark(p) \/ Silence(p)
    PROVE  /\ tx'[p].op = tx[p].op
           /\ tx[p].op \in {"hold", "reschedule"} =>
                  /\ tx'[p].lawyer = tx[p].lawyer /\ tx'[p].slot = tx[p].slot
                  /\ tx'[p].now = tx[p].now
  <1>1. PICK label : Steps(p, label)
    BY StepEffect DEF BookInv
  <1> DEFINE t == [tx[p] EXCEPT !.pc = label]
  <1>2. tx'[p] = t /\ tx[p] \in TxType
    BY <1>1 DEF Steps, BookInv, TypeOK
  <1>3. tx[p].op \in {"hold", "reschedule"} => tx[p] \in HoldTx \cup MoveTx
    BY <1>2, TxByOperation
  <1>4. t.op = tx[p].op
    OBVIOUS
  <1> QED
    BY <1>2, <1>3, <1>4 DEF HoldTx, MoveTx

LEMMA CalendarAfter ==
    ASSUME BookInv, [Next]_vars, NEW p \in Requests, HasCalendar(p)'
    PROVE  /\ tx'[p].lawyer = tx[p].lawyer /\ tx'[p].slot = tx[p].slot
           /\ \/ HasCalendar(p)
              \/ /\ LockCalendar(p) /\ UNCHANGED <<consults, clock>>
                 /\ \A q \in Requests : q # p => tx'[q] = tx[q]
  <1>1. CASE tx'[p] = tx[p]
    BY <1>1 DEF HasCalendar
  <1>2. CASE tx'[p] = Idle \/ tx'[p] \in TickTx \/ Begun(tx'[p])
    BY <1>2, Targets DEF HasCalendar, Idle, TickTx, Begun
  <1>3. CASE (LockCalendar(p) \/ Mark(p) \/ Silence(p)) /\ UNCHANGED <<consults, clock>>
             /\ \A q \in Requests : q # p => tx'[q] = tx[q]
    <2>1. tx[p].op \in {"hold", "reschedule"}
      BY <1>3, FieldsStay DEF HasCalendar
    <2>2. LockCalendar(p) \/ tx[p].pc # "asked"
      BY <1>3, <2>1, Targets DEF Mark, Silence, Changing
    <2> QED
      BY <1>3, <2>1, <2>2, FieldsStay DEF HasCalendar
  <1> QED
    BY <1>1, <1>2, <1>3, TxMoves

\* The slot a new consultation takes was the one its request had found free.
LEMMA NewInCalendar ==
    ASSUME BookInv, [Next]_vars, NEW j \in DOMAIN consults' \ DOMAIN consults
    PROVE  \E p \in Requests :
               /\ HasCalendar(p) /\ tx'[p] = Idle
               /\ consults'[j].lawyer = tx[p].lawyer /\ consults'[j].slot = tx[p].slot
               /\ DOMAIN consults' = DOMAIN consults \cup {j}
  <1>1. PICK p \in Requests :
               /\ Finish(p)
               /\ DOMAIN consults' = DOMAIN consults \cup {j}
               /\ \/ CommitHold(p) /\ HeldRow(p, consults'[j])
                  \/ CommitReschedule(p) /\ BookedRow(p, consults'[j])
    BY NewRow
  <1>2. HasCalendar(p)
    BY <1>1 DEF CommitHold, CommitReschedule, HasCalendar
  <1>3. tx'[p] = Idle
    BY <1>1, TxFinished DEF BookInv, TypeOK
  <1> QED
    BY <1>1, <1>2, <1>3 DEF HeldRow, BookedRow

LEMMA FreeIsFree ==
    ASSUME BookInv, TimeInv, NEW p \in Requests, LockCalendar(p),
           NEW i \in DOMAIN consults, Taken(i)
    PROVE  ~Clash(consults[i].lawyer, consults[i].slot, tx[p].lawyer, tx[p].slot)
  <1>1. tx[p] \in HoldTx \cup MoveTx
    BY TxByOperation DEF LockCalendar, BookInv, TypeOK
  <1>2. tx[p].now \in Nat /\ tx[p].now <= clock
    BY <1>1 DEF LockCalendar, TimeInv, ClockRead, HoldTx, MoveTx
  <1>3. consults[i].expires \in Nat /\ clock \in Nat
    <2>1. consults[i] \in ConsultType
      BY DEF BookInv, TypeOK
    <2> QED
      BY <2>1, BoundsAssumption DEF ConsultType, BookInv, TypeOK, BookingAssumption
  <1>4. consults[i].status = "held" => i # tx[p].c
    <2>1. CASE tx[p] \in HoldTx
      BY <2>1 DEF HoldTx, BookInv, TypeOK
    <2>2. CASE tx[p] \in MoveTx
      BY <2>2, Targets DEF MoveTx, BookInv, ReadsRow, Changing
    <2> QED
      BY <1>1, <2>1, <2>2
  <1>5. TakesTime(i, tx[p].now, tx[p].c)
    BY <1>2, <1>3, <1>4 DEF TakesTime, Taken
  <1> QED
    BY <1>5 DEF LockCalendar, Free, Clash

LEMMA TimeStays ==
    ASSUME BookInv, TimeInv, ConfirmedInTime, [Next]_vars
    PROVE  TimeInv'
  <1>0. tx \in [Requests -> TxType]
    BY DEF BookInv, TypeOK
  <1>1. Apart'
    <2> SUFFICES ASSUME NEW i \in DOMAIN consults', NEW j \in DOMAIN consults', i # j,
                        Taken(i)', Taken(j)'
                 PROVE  ~Clash(consults'[i].lawyer, consults'[i].slot,
                               consults'[j].lawyer, consults'[j].slot)
      BY DEF Apart
    <2>1. ASSUME NEW a \in DOMAIN consults' \ DOMAIN consults,
                 NEW b \in DOMAIN consults', a # b, Taken(b)'
          PROVE  ~Clash(consults'[b].lawyer, consults'[b].slot,
                        consults'[a].lawyer, consults'[a].slot)
      <3>1. PICK p \in Requests :
               /\ HasCalendar(p)
               /\ consults'[a].lawyer = tx[p].lawyer /\ consults'[a].slot = tx[p].slot
               /\ DOMAIN consults' = DOMAIN consults \cup {a}
        BY NewInCalendar
      <3>2. b \in DOMAIN consults
        BY <2>1, <3>1
      <3>3. Taken(b)
        BY <2>1, <3>2, TakenBefore
      <3>4. consults'[b].lawyer = consults[b].lawyer /\ consults'[b].slot = consults[b].slot
        BY <3>2, RowsStay
      <3> QED
        BY <3>1, <3>2, <3>3, <3>4 DEF TimeInv, FoundFree
    <2>2. CASE i \in DOMAIN consults /\ j \in DOMAIN consults
      <3>1. Taken(i) /\ Taken(j)
        BY <2>2, TakenBefore
      <3>2. /\ consults'[i].lawyer = consults[i].lawyer /\ consults'[i].slot = consults[i].slot
            /\ consults'[j].lawyer = consults[j].lawyer /\ consults'[j].slot = consults[j].slot
        BY <2>2, RowsStay
      <3> QED
        BY <2>2, <3>1, <3>2 DEF TimeInv, Apart
    <2> QED
      BY <2>1, <2>2, ClashTurned
  <1>2. FoundFree'
    <2> SUFFICES ASSUME NEW p \in Requests, NEW i \in DOMAIN consults',
                        HasCalendar(p)', Taken(i)'
                 PROVE  ~Clash(consults'[i].lawyer, consults'[i].slot, tx'[p].lawyer, tx'[p].slot)
      BY DEF FoundFree
    <2>1. CASE i \in DOMAIN consults
      <3>1. Taken(i) /\ consults'[i].lawyer = consults[i].lawyer /\ consults'[i].slot = consults[i].slot
        BY <2>1, TakenBefore, RowsStay
      <3>2. CASE HasCalendar(p)
        BY <2>1, <3>1, <3>2, CalendarAfter DEF TimeInv, FoundFree
      <3>3. CASE LockCalendar(p)
        BY <2>1, <3>1, <3>3, CalendarAfter, FreeIsFree
      <3> QED
        BY <3>2, <3>3, CalendarAfter
    <2>2. CASE i \notin DOMAIN consults
      <3>1. PICK q \in Requests :
               /\ HasCalendar(q) /\ tx'[q] = Idle
               /\ consults'[i].lawyer = tx[q].lawyer
        BY <2>2, NewInCalendar
      <3>2. p # q
        BY <3>1 DEF HasCalendar, Idle
      <3>3. HasCalendar(p) /\ tx'[p].lawyer = tx[p].lawyer
        BY <2>2, CalendarAfter
      <3>4. tx[p].lawyer # tx[q].lawyer
        BY <3>1, <3>2, <3>3 DEF TimeInv, OnePerCalendar
      <3> QED
        BY <3>1, <3>3, <3>4 DEF Clash
    <2> QED
      BY <2>1, <2>2
  <1>3. OnePerCalendar'
    <2> SUFFICES ASSUME NEW p \in Requests, NEW q \in Requests, p # q,
                        HasCalendar(p)', HasCalendar(q)', tx'[p].lawyer = tx'[q].lawyer
                 PROVE  FALSE
      BY DEF OnePerCalendar
    <2>1. ASSUME NEW r \in Requests, NEW o \in Requests, r # o, HasCalendar(r)', HasCalendar(o)',
                 tx'[r].lawyer = tx'[o].lawyer, ~HasCalendar(r)
          PROVE  FALSE
      <3>1. LockCalendar(r) /\ tx'[o] = tx[o] /\ tx'[r].lawyer = tx[r].lawyer
        BY <2>1, CalendarAfter
      <3> QED
        BY <2>1, <3>1 DEF LockCalendar, LawyerLocked, HasCalendar
    <2> QED
      BY <2>1, CalendarAfter DEF TimeInv, OnePerCalendar
  <1>4. ClockRead'
    <2> SUFFICES ASSUME NEW p \in Requests, tx'[p].op \in {"hold", "reschedule"}
                 PROVE  tx'[p].now <= clock'
      BY DEF ClockRead
    <2>1. ASSUME tx[p].op \in {"hold", "reschedule"}, tx'[p].now = tx[p].now
          PROVE  tx'[p].now <= clock'
      <3>1. tx[p].now \in Nat
        BY <1>0, <2>1, TxByOperation DEF HoldTx, MoveTx
      <3> QED
        BY <2>1, <3>1, ClockGoesOn DEF TimeInv, ClockRead
    <2>2. CASE tx'[p] = tx[p]
      BY <2>1, <2>2
    <2>3. CASE tx'[p] = Idle \/ tx'[p] \in TickTx
      BY <2>3 DEF Idle, TickTx
    <2>4. CASE Begun(tx'[p]) /\ UNCHANGED clock
      BY <2>4, ClockGoesOn, Targets DEF Begun
    <2>5. CASE LockCalendar(p) \/ Mark(p) \/ Silence(p)
      BY <2>1, <2>5, FieldsStay
    <2> QED
      BY <2>2, <2>3, <2>4, <2>5, TxMoves
  <1> QED
    BY <1>1, <1>2, <1>3, <1>4 DEF TimeInv

LEMMA TimeStarts == Init => TimeInv
  BY DEF Init, TimeInv, Apart, FoundFree, OnePerCalendar, ClockRead, HasCalendar, Idle

\* Requests that hold, confirm and move consultations at the same time, and
\* holds that run out and are given to others, never leave a lawyer with two
\* meetings at overlapping times, as long as no hold runs out under its own
\* confirmation: for any slots, meeting length, hold time and number of requests.
THEOREM InTimeIsNeverDoubleBooked == Spec => InTimeNeverDoubleBooked
  <1>1. BookInv /\ TimeInv => NoDoubleBooking
    <2> SUFFICES ASSUME BookInv, TimeInv, NEW i \in DOMAIN consults, NEW j \in DOMAIN consults,
                        i # j, consults[i].status = "booked", consults[j].status = "booked",
                        consults[i].lawyer = consults[j].lawyer
                 PROVE  ~Overlap(consults[i].slot, consults[j].slot)
      BY DEF NoDoubleBooking
    <2>1. Taken(i) /\ Taken(j)
      BY DEF BookInv, CalendarFollowsStatus, Taken
    <2> QED
      BY <2>1 DEF TimeInv, Apart, Clash
  <1>2. BookInv /\ TimeInv /\ ConfirmedInTime /\ [Next]_vars => TimeInv'
    BY TimeStays
  <1> QED
    BY <1>1, <1>2, TimeStarts, BookIsSound, PTL DEF Spec, InTimeNeverDoubleBooked

-----------------------------------------------------------------------------
(* Timers, tasks and reminders.                                            *)

\* What a tick has claimed is pending, no other tick has claimed it, and no
\* request has silenced its consultation; timers are of booked consultations.
Ticking(p) == tx[p].op = "tick"
Silenced(p) == Changing(p) /\ tx[p].pc = "silenced"

ClaimsPend ==
    \A p \in Requests : Ticking(p) =>
        /\ tx[p].left \cup tx[p].run \cup tx[p].moot \subseteq tx[p].claimed
        /\ tx[p].claimed \subseteq timers
OneClaim ==
    \A p, q \in Requests, t \in timers :
        Ticking(p) /\ Ticking(q) /\ t \in tx[p].claimed /\ t \in tx[q].claimed => p = q
ClaimsHeard ==
    \A p, q \in Requests, t \in timers :
        Ticking(p) /\ t \in tx[p].claimed /\ Silenced(q) => t[2] # tx[q].c

TimerInv ==
    /\ ClaimsPend /\ OneClaim /\ ClaimsHeard
    /\ TimersOnlyWhileBooked /\ NoTaskAfterEnd

LEMMA TickAfter ==
    ASSUME BookInv, [Next]_vars, NEW p \in Requests, Ticking(p)'
    PROVE  \/ /\ Ticking(p) /\ tx'[p].claimed = tx[p].claimed
              /\ tx'[p].left \cup tx'[p].run \cup tx'[p].moot
                    \subseteq tx[p].left \cup tx[p].run \cup tx[p].moot
           \/ /\ UNCHANGED Stored /\ \A q \in Requests : q # p => tx'[q] = tx[q]
              /\ tx'[p].left \cup tx'[p].run \cup tx'[p].moot \subseteq tx'[p].claimed
              /\ tx'[p].claimed \subseteq timers
              /\ \A t \in tx'[p].claimed : ~TimerClaimed(t) /\ ~TimersSilenced(t[2])
  <1>0. TypeOK /\ tx \in [Requests -> TxType]
    BY DEF BookInv, TypeOK
  <1>1. CASE tx'[p] = tx[p]
    BY <1>1 DEF Ticking
  <1>2. CASE Proceed(p)
    <2>1. ASSUME CommitHold(p) \/ Settles(p) \/ CommitReschedule(p) \/ Ends(p)
          PROVE  FALSE
      <3>1. tx'[p] = Idle
        BY <1>0, <2>1, HoldEffect, SettleEffect, MoveEffect, TxFinished DEF Ends
      <3> QED
        BY <3>1 DEF Ticking, Idle
    <2>2. ASSUME LockCalendar(p) \/ Mark(p) \/ Silence(p)
          PROVE  FALSE
      <3>1. tx[p].op # "tick"
        BY <2>2, Targets DEF LockCalendar, Mark, Silence, Changing
      <3> QED
        BY <2>2, <3>1, FieldsStay DEF Ticking
    <2>3. CASE Ticks(p)
      <3>1. PICK t \in TickTx : /\ t.left \cup t.run \subseteq tx[p].left \cup tx[p].run
                               /\ t.claimed = tx[p].claimed
                               /\ t.moot \subseteq tx[p].left \cup tx[p].moot
                               /\ tx' = [tx EXCEPT ![p] = t]
        BY <2>3 DEF Ticks
      <3>2. tx'[p] = t
        BY <1>0, <3>1
      <3> QED
        BY <2>3, <3>1, <3>2 DEF Ticks, Ticking
    <2> QED
      BY <1>0, <1>2, <2>1, <2>2, <2>3, ProceedEffect
  <1>3. CASE Request(p)
    <2>1. ASSUME NEW t, tx' = [tx EXCEPT ![p] = t]
          PROVE  tx'[p] = t /\ \A q \in Requests : q # p => tx'[q] = tx[q]
      BY <1>0, <2>1
    <2>2. ASSUME ~TickClaim(p)
          PROVE  FALSE
      <3>1. PICK t : tx' = [tx EXCEPT ![p] = t] /\ t.op # "tick"
        <4>1. ASSUME NEW s \in Sessions, NEW l \in Lawyers, NEW slot \in Slots, AskHold(p, s, l, slot)
              PROVE  \E t : tx' = [tx EXCEPT ![p] = t] /\ t.op # "tick"
          <5> DEFINE t == [op |-> "hold", pc |-> "asked", session |-> s, lawyer |-> l,
                           slot |-> slot, c |-> 0, now |-> clock]
          <5>1. tx' = [tx EXCEPT ![p] = t]
            BY <4>1 DEF AskHold, Begin
          <5>2. t.op # "tick"
            OBVIOUS
          <5> HIDE DEF t
          <5> QED
            BY <5>1, <5>2
        <4>2. ASSUME NEW op \in DOMAIN Target, NEW c \in DOMAIN consults, Ask(p, op, c)
              PROVE  \E t : tx' = [tx EXCEPT ![p] = t] /\ t.op # "tick"
          <5> DEFINE t == [op |-> op, pc |-> "asked", c |-> c, was |-> consults[c].status,
                           now |-> clock]
          <5>1. tx' = [tx EXCEPT ![p] = t]
            BY <4>2 DEF Ask, Begin
          <5>2. t.op # "tick"
            BY <4>2, Targets
          <5> HIDE DEF t
          <5> QED
            BY <5>1, <5>2
        <4>3. ASSUME NEW c \in DOMAIN consults, NEW l \in Lawyers, NEW slot \in Slots,
                     AskReschedule(p, c, l, slot)
              PROVE  \E t : tx' = [tx EXCEPT ![p] = t] /\ t.op # "tick"
          <5> DEFINE t == [op |-> "reschedule", pc |-> "asked", c |-> c,
                           was |-> consults[c].status, lawyer |-> l, slot |-> slot,
                           now |-> clock]
          <5>1. tx' = [tx EXCEPT ![p] = t]
            BY <4>3 DEF AskReschedule, Begin
          <5>2. t.op # "tick"
            OBVIOUS
          <5> HIDE DEF t
          <5> QED
            BY <5>1, <5>2
        <4> QED
          BY <1>3, <2>2, <4>1, <4>2, <4>3 DEF Request
      <3> QED
        BY <2>1, <3>1 DEF Ticking
    <2> DEFINE due == {t \in timers : /\ DueAt(t) <= clock
                                      /\ ~TimerClaimed(t) /\ ~TimersSilenced(t[2])}
               t == [op |-> "tick", now |-> clock, claimed |-> due, left |-> due,
                     run |-> {}, moot |-> {}]
    <2>3. tx' = [tx EXCEPT ![p] = t] /\ UNCHANGED Stored
      BY <2>2 DEF TickClaim, Begin
    <2>4. tx'[p] = t /\ \A q \in Requests : q # p => tx'[q] = tx[q]
      BY <2>1, <2>3
    <2>5. /\ t.left \cup t.run \cup t.moot \subseteq t.claimed /\ t.claimed \subseteq timers
          /\ \A u \in t.claimed : ~TimerClaimed(u) /\ ~TimersSilenced(u[2])
      OBVIOUS
    <2> HIDE DEF t
    <2> QED
      BY <2>3, <2>4, <2>5
  <1>4. CASE ~Proceed(p) /\ ~Request(p)
    <2>1. ASSUME NEW q \in Requests, q # p, Proceed(q)
          PROVE  tx'[p] = tx[p]
      BY <1>0, <2>1, ProceedEffect, HoldEffect, SettleEffect, MoveEffect, StepEffect
         DEF Finish, Ends, Ticks, Steps
    <2>2. ASSUME NEW q \in Requests, q # p, Request(q)
          PROVE  tx'[p] = tx[p]
      BY <1>0, <2>2, RequestEffect DEF Begins
    <2> QED
      BY <1>1, <1>4, <2>1, <2>2, ExpireEffect, OtherEffect
  <1> QED
    BY <1>2, <1>3, <1>4

\* A request that has silenced a consultation's timers had done so, or waited
\* for those that were claimed.
LEMMA SilencedAfter ==
    ASSUME BookInv, [Next]_vars, NEW q \in Requests, Silenced(q)'
    PROVE  \/ tx'[q] = tx[q] /\ Silenced(q)
           \/ /\ tx'[q].c = tx[q].c /\ \A t \in TimersOf(tx[q].c) : ~TimerClaimed(t)
              /\ UNCHANGED Stored /\ \A p \in Requests : p # q => tx'[p] = tx[p]
  <1>0. TypeOK /\ tx \in [Requests -> TxType]
    BY DEF BookInv, TypeOK
  <1>1. CASE tx'[q] = tx[q]
    BY <1>1 DEF Silenced, Changing
  <1>2. CASE tx'[q] = Idle \/ tx'[q] \in TickTx \/ Begun(tx'[q])
    BY <1>2, Targets DEF Idle, TickTx, Begun, Silenced, Changing
  <1>3. CASE (LockCalendar(q) \/ Mark(q) \/ Silence(q)) /\ \A p \in Requests : p # q => tx'[p] = tx[p]
    <2>1. PICK label : /\ Steps(q, label) /\ UNCHANGED Stored
                       /\ label = "silenced" => Silence(q)
      BY <1>0, <1>3, StepEffect
    <2> DEFINE t == [tx[q] EXCEPT !.pc = label]
    <2>2. tx'[q] = t
      BY <1>0, <2>1 DEF Steps
    <2>3. tx[q].op = t.op
      OBVIOUS
    <2>4. tx[q] \in ChangeTx \cup MoveTx
      BY <1>0, <2>2, <2>3, TxByOperation, Targets DEF Silenced, Changing
    <2>5. t.c = tx[q].c /\ t.pc = label
      BY <2>4 DEF ChangeTx, MoveTx
    <2> HIDE DEF t
    <2> QED
      BY <1>3, <2>1, <2>2, <2>5 DEF Silenced, Silence
  <1> QED
    BY <1>1, <1>2, <1>3, TxMoves

\* A consultation that has ended, or was put on hold, has no timers left, and no
\* tasks either unless it is on hold.
LEMMA Ending ==
    ASSUME BookInv, [Next]_vars, NEW i \in DOMAIN consults,
           consults[i].status \in {"booked", "on_hold"},
           consults'[i].status # consults[i].status
    PROVE  /\ \A t \in timers' : t[2] # i
           /\ consults'[i].status = "on_hold" \/ \A t \in tasks' : t[2] # i
  <1>0. /\ TypeOK /\ consults \in Seq(ConsultType)
        /\ timers \subseteq TimerKinds \X DOMAIN consults
        /\ tasks \subseteq TaskKinds \X DOMAIN consults
    BY DEF BookInv, TypeOK
  <1>1. /\ \A t \in timers \ TimersOf(i) : t[2] # i
        /\ \A t \in tasks \ TasksOf(i) : t[2] # i
    BY <1>0 DEF TimersOf, TasksOf
  <1>2. ASSUME NEW p \in Requests, Settles(p)
        PROVE  /\ \A t \in timers' : t[2] # i
               /\ consults'[i].status = "on_hold" \/ \A t \in tasks' : t[2] # i
    <2> DEFINE c == tx[p].c
    <2>1. PICK q : Settled(c, q, Target[tx[p].op])
      BY <1>2, SettleEffect
    <2>2. Writing(p) /\ c \in DOMAIN consults
      BY <1>2, SettleEffect DEF BookInv, ReadsRow, Writing
    <2>3. i = c /\ consults'[i].status = Target[tx[p].op]
      BY <1>0, <2>1, <2>2, RowWritten DEF Settled, RowOf
    <2>4. ~CommitConfirm(p)
      BY <2>2, <2>3 DEF CommitConfirm, BookInv, ReadsRow, Writing
    <2>5. CASE CommitOnHold(p)
      BY <1>1, <2>3, <2>5, Targets DEF CommitOnHold
    <2>6. CASE CommitCancel(p) \/ CommitComplete(p) \/ \E mayWrite \in BOOLEAN : CommitNoShow(p, mayWrite)
      BY <1>1, <2>3, <2>6 DEF CommitCancel, CommitComplete, CommitNoShow
    <2> QED
      BY <1>2, <2>4, <2>5, <2>6 DEF Settles
  <1>3. ASSUME NEW p \in Requests, CommitReschedule(p)
        PROVE  /\ \A t \in timers' : t[2] # i
               /\ \A t \in tasks' : t[2] # i
    <2> DEFINE c == tx[p].c
               m == Len(consults) + 1
    <2>1. PICK q, n : /\ RowOf(c, q, "rescheduled") /\ BookedRow(p, n)
                      /\ consults' = Append([consults EXCEPT ![c] = q], n)
      BY <1>3, MoveEffect
    <2>2. c \in DOMAIN consults
      BY <1>3, MoveEffect DEF BookInv, ReadsRow, Writing
    <2> DEFINE rows == [consults EXCEPT ![c] = q]
    <2>3. /\ rows \in Seq(ConsultType) /\ DOMAIN rows = DOMAIN consults
          /\ Len(rows) = Len(consults)
          /\ rows[i] = IF i = c THEN q ELSE consults[i]
      BY <1>0, <2>1, <2>2, RowWritten DEF RowOf
    <2>4. consults' = Append(rows, n) /\ n \in ConsultType
      BY <2>1 DEF BookedRow
    <2> HIDE DEF rows
    <2>5. consults'[i] = (IF i = c THEN q ELSE consults[i]) /\ m # i
      BY <2>3, <2>4, RowAdded
    <2>6. i = c
      BY <2>5
    <2>7. /\ timers' = (timers \ TimersOf(c)) \cup NewTimers(m, tx[p].slot, tx[p].now)
          /\ tasks' = (tasks \ TasksOf(c)) \cup {<<"record_outcome", m>>}
      BY <1>3 DEF CommitReschedule
    <2> HIDE DEF m
    <2>8. \A t \in NewTimers(m, tx[p].slot, tx[p].now) : t[2] = m
      BY NewTimersTyped
    <2> QED
      BY <1>1, <2>5, <2>6, <2>7, <2>8
  <1>4. ASSUME NEW p \in Requests, CommitHold(p)
        PROVE  FALSE
    BY <1>0, <1>4, HoldEffect, RowAdded DEF HeldRow
  <1>5. ASSUME NEW c \in DOMAIN consults, NEW now \in 0 .. clock, ExpireSlotHold(c, now)
        PROVE  FALSE
    BY <1>0, <1>5, ExpireEffect, RowWritten DEF Settled, RowOf
  <1>6. ASSUME NEW p \in Requests, Request(p)
        PROVE  FALSE
    BY <1>0, <1>6, RequestEffect DEF Begins, Stored
  <1>7. ASSUME NEW p \in Requests,
               LockCalendar(p) \/ Mark(p) \/ Silence(p) \/ Ticks(p) \/ Ends(p)
        PROVE  FALSE
    BY <1>7 DEF LockCalendar, Mark, Silence, Ticks, Ends, Stored
  <1> QED
    BY <1>0, <1>2, <1>3, <1>4, <1>5, <1>6, <1>7, ProceedEffect, OtherEffect

\* What a step does to the timers, the tasks and the reminders.
LEMMA BesideMoves ==
    ASSUME BookInv, [Next]_vars
    PROVE  \/ UNCHANGED <<timers, tasks, reminded>>
           \/ \E p \in Requests : CommitConfirm(p)
           \/ \E p \in Requests : /\ Silenced(p) /\ Finish(p) /\ reminded' = reminded
                                  /\ timers' = timers \ TimersOf(tx[p].c)
                                  /\ tasks' \subseteq tasks
           \/ \E p \in Requests : CommitReschedule(p)
           \/ \E p \in Requests : TickCommit(p)
  <1>0. TypeOK
    BY DEF BookInv
  <1>1. ASSUME NEW p \in Requests, Proceed(p)
        PROVE  \/ UNCHANGED <<timers, tasks, reminded>>
               \/ CommitConfirm(p) \/ CommitReschedule(p) \/ TickCommit(p)
               \/ /\ Silenced(p) /\ Finish(p) /\ reminded' = reminded
                  /\ timers' = timers \ TimersOf(tx[p].c)
                  /\ tasks' \subseteq tasks
    <2>1. CASE CommitCancel(p) \/ CommitComplete(p) \/ CommitOnHold(p)
               \/ \E mayWrite \in BOOLEAN : CommitNoShow(p, mayWrite)
      BY <2>1, Targets DEF CommitCancel, CommitComplete, CommitOnHold, CommitNoShow,
                           Silenced, Changing
    <2>2. CASE LockCalendar(p) \/ CommitHold(p) \/ Mark(p) \/ Silence(p) \/ Rollback(p)
      BY <2>2 DEF LockCalendar, CommitHold, Mark, Silence, Rollback, Stored
    <2>3. ASSUME NEW t, TickHandle(p, t) \/ TickHandlerFails(p, t)
          PROVE  UNCHANGED <<timers, tasks, reminded>>
      BY <2>3 DEF TickHandle, TickHandlerFails, Stored
    <2> QED
      BY <1>1, <2>1, <2>2, <2>3 DEF Proceed
  <1>2. ASSUME NEW p \in Requests, Request(p)
        PROVE  UNCHANGED <<timers, tasks, reminded>>
    BY <1>0, <1>2, RequestEffect DEF Begins, Stored
  <1>3. ASSUME NEW c \in DOMAIN consults, NEW now \in 0 .. clock, ExpireSlotHold(c, now)
        PROVE  UNCHANGED <<timers, tasks, reminded>>
    BY <1>3 DEF ExpireSlotHold
  <1> QED
    BY <1>1, <1>2, <1>3, OtherEffect

\* A confirmed consultation, and one booked in another's place, is booked.
LEMMA BookedBy ==
    ASSUME BookInv, NEW p \in Requests
    PROVE  /\ CommitConfirm(p) => /\ tx[p].c \in DOMAIN consults
                                  /\ consults'[tx[p].c].status = "booked"
           /\ CommitReschedule(p) => consults'[Len(consults) + 1].status = "booked"
  <1>0. TypeOK /\ consults \in Seq(ConsultType)
    BY DEF BookInv, TypeOK
  <1> DEFINE c == tx[p].c
  <1>1. ASSUME CommitConfirm(p)
        PROVE  c \in DOMAIN consults /\ consults'[c].status = "booked"
    <2>1. PICK q : Settled(c, q, Target[tx[p].op])
      BY <1>1, SettleEffect DEF Settles
    <2>2. c \in DOMAIN consults
      BY <1>1, SettleEffect DEF Settles, BookInv, ReadsRow, Writing
    <2>3. Target[tx[p].op] = "booked"
      BY <1>1, Targets DEF CommitConfirm
    <2> QED
      BY <1>0, <2>1, <2>2, <2>3, RowWritten DEF Settled, RowOf
  <1>2. ASSUME CommitReschedule(p)
        PROVE  consults'[Len(consults) + 1].status = "booked"
    <2>1. PICK q, n : /\ RowOf(c, q, "rescheduled") /\ BookedRow(p, n)
                      /\ consults' = Append([consults EXCEPT ![c] = q], n)
      BY <1>2, MoveEffect
    <2>2. c \in DOMAIN consults
      BY <1>2, MoveEffect DEF BookInv, ReadsRow, Writing
    <2> DEFINE rows == [consults EXCEPT ![c] = q]
    <2>3. rows \in Seq(ConsultType) /\ Len(rows) = Len(consults)
      BY <1>0, <2>1, <2>2, RowWritten DEF RowOf
    <2>4. consults' = Append(rows, n) /\ n \in ConsultType /\ n.status = "booked"
      BY <2>1 DEF BookedRow
    <2> HIDE DEF rows
    <2> QED
      BY <2>3, <2>4, RowAdded
  <1> QED
    BY <1>1, <1>2

\* What a tick ran was pending, so of a booked consultation.
LEMMA RunIsBooked ==
    ASSUME BookInv, TimerInv, NEW p \in Requests, TickCommit(p), NEW t \in tx[p].run
    PROVE  t \in timers /\ consults'[t[2]].status = "booked" /\ consults[t[2]].status = "booked"
  BY DEF TickCommit, TimerInv, ClaimsPend, Ticking, TimersOnlyWhileBooked

\* What a step adds is of a booked consultation.
LEMMA Coming ==
    ASSUME BookInv, TimerInv, [Next]_vars
    PROVE  /\ \A t \in timers' \ timers : consults'[t[2]].status = "booked"
           /\ \A t \in tasks' \ tasks : consults'[t[2]].status = "booked"
           /\ \A c \in reminded' \ reminded : consults[c].status = "booked"
  <1>1. ASSUME NEW p \in Requests, CommitConfirm(p)
        PROVE  /\ \A t \in timers' \ timers : t[2] = tx[p].c
               /\ \A t \in tasks' \ tasks : t[2] = tx[p].c
               /\ reminded' = reminded
    <2>1. NewTimers(tx[p].c, consults[tx[p].c].slot, tx[p].now) \subseteq TimerKinds \X {tx[p].c}
      BY NewTimersTyped
    <2> QED
      BY <1>1, <2>1 DEF CommitConfirm
  <1>2. ASSUME NEW p \in Requests, CommitReschedule(p)
        PROVE  /\ \A t \in timers' \ timers : t[2] = Len(consults) + 1
               /\ \A t \in tasks' \ tasks : t[2] = Len(consults) + 1
               /\ reminded' = reminded
    <2>1. NewTimers(Len(consults) + 1, tx[p].slot, tx[p].now) \subseteq TimerKinds \X {Len(consults) + 1}
      BY NewTimersTyped
    <2> QED
      BY <1>2, <2>1 DEF CommitReschedule
  <1>3. ASSUME NEW p \in Requests, TickCommit(p)
        PROVE  /\ timers' \subseteq timers
               /\ \A t \in tasks' \ tasks : consults'[t[2]].status = "booked"
               /\ \A c \in reminded' \ reminded : consults[c].status = "booked"
    BY <1>3, RunIsBooked DEF TickCommit
  <1> QED
    BY <1>1, <1>2, <1>3, BesideMoves, BookedBy

\* A timer that a tick has claimed stays pending as long as the tick has it.
LEMMA ClaimsStay ==
    ASSUME BookInv, TimerInv, [Next]_vars, NEW p \in Requests, Ticking(p), Ticking(p)',
           NEW t \in tx[p].claimed
    PROVE  t \in timers'
  <1>0. t \in timers /\ tx \in [Requests -> TxType] /\ timers \subseteq TimerKinds \X DOMAIN consults
    BY DEF TimerInv, ClaimsPend, BookInv, TypeOK
  <1>1. ASSUME NEW q \in Requests, Silenced(q)
        PROVE  t \notin TimersOf(tx[q].c)
    BY <1>0, <1>1 DEF TimerInv, ClaimsHeard, TimersOf
  <1>2. ASSUME NEW q \in Requests, CommitReschedule(q)
        PROVE  t \in timers'
    BY <1>0, <1>1, <1>2, Targets DEF CommitReschedule, Silenced, Changing
  <1>3. ASSUME NEW q \in Requests, TickCommit(q)
        PROVE  t \in timers'
    <2>1. tx'[q] = Idle /\ Ticking(q)
      BY <1>0, <1>3, TxFinished DEF TickCommit, Ticking
    <2>2. q # p
      BY <2>1 DEF Ticking, Idle
    <2>3. t \notin tx[q].claimed
      BY <1>0, <2>1, <2>2 DEF TimerInv, OneClaim
    <2>4. tx[q].run \cup tx[q].moot \subseteq tx[q].claimed
      BY <2>1 DEF TimerInv, ClaimsPend
    <2> QED
      BY <1>0, <1>3, <2>3, <2>4 DEF TickCommit
  <1>4. ASSUME NEW q \in Requests, CommitConfirm(q)
        PROVE  t \in timers'
    BY <1>0, <1>4 DEF CommitConfirm
  <1> QED
    BY <1>0, <1>1, <1>2, <1>3, <1>4, BesideMoves

LEMMA TimersStay ==
    ASSUME BookInv, TimerInv, [Next]_vars
    PROVE  TimerInv'
  <1>1. ClaimsPend'
    <2> SUFFICES ASSUME NEW p \in Requests, Ticking(p)'
                 PROVE  /\ tx'[p].left \cup tx'[p].run \cup tx'[p].moot \subseteq tx'[p].claimed
                        /\ tx'[p].claimed \subseteq timers'
      BY DEF ClaimsPend
    <2>1. CASE Ticking(p) /\ tx'[p].claimed = tx[p].claimed
      <3>1. tx[p].claimed \subseteq timers'
        BY <2>1, ClaimsStay
      <3> QED
        BY <2>1, <3>1, TickAfter DEF TimerInv, ClaimsPend, Stored
    <2>2. CASE UNCHANGED Stored /\ tx'[p].claimed \subseteq timers
               /\ tx'[p].left \cup tx'[p].run \cup tx'[p].moot \subseteq tx'[p].claimed
      BY <2>2 DEF Stored
    <2> QED
      BY <2>1, <2>2, TickAfter
  <1>2. OneClaim'
    <2> SUFFICES ASSUME NEW p \in Requests, NEW q \in Requests, NEW t, p # q,
                        Ticking(p)', Ticking(q)', t \in tx'[p].claimed, t \in tx'[q].claimed
                 PROVE  FALSE
      BY DEF OneClaim
    <2>1. ASSUME NEW r \in Requests, NEW o \in Requests, r # o, Ticking(r)', Ticking(o)',
                 t \in tx'[r].claimed, t \in tx'[o].claimed,
                 ~TimerClaimed(t), tx'[o] = tx[o]
          PROVE  FALSE
      BY <2>1 DEF TimerClaimed, Ticking
    <2>2. CASE /\ Ticking(p) /\ tx'[p].claimed = tx[p].claimed
               /\ Ticking(q) /\ tx'[q].claimed = tx[q].claimed
      BY <2>2 DEF TimerInv, OneClaim, ClaimsPend
    <2> QED
      BY <2>1, <2>2, TickAfter
  <1>3. ClaimsHeard'
    <2> SUFFICES ASSUME NEW p \in Requests, NEW q \in Requests, NEW t,
                        Ticking(p)', t \in tx'[p].claimed, Silenced(q)'
                 PROVE  t[2] # tx'[q].c
      BY DEF ClaimsHeard
    <2>0. p # q
      BY Targets DEF Ticking, Silenced, Changing
    <2>1. CASE tx'[q] = tx[q] /\ Silenced(q)
      <3>1. CASE Ticking(p) /\ tx'[p].claimed = tx[p].claimed
        BY <2>1, <3>1 DEF TimerInv, ClaimsHeard, ClaimsPend
      <3>2. CASE ~TimersSilenced(t[2])
        BY <2>1, <3>2 DEF TimersSilenced, Silenced
      <3> QED
        BY <3>1, <3>2, TickAfter
    <2>2. CASE /\ tx'[q].c = tx[q].c /\ \A u \in TimersOf(tx[q].c) : ~TimerClaimed(u)
               /\ tx'[p] = tx[p]
      <3>1. TimerClaimed(t) /\ t \in timers
        BY <2>2 DEF Ticking, TimerClaimed, TimerInv, ClaimsPend
      <3>2. t \in TimersOf(t[2])
        <4>1. t \in TimerKinds \X DOMAIN consults
          BY <3>1 DEF BookInv, TypeOK
        <4> QED
          BY <4>1 DEF TimersOf
      <3> QED
        BY <2>2, <3>1, <3>2
    <2> QED
      BY <2>0, <2>1, <2>2, SilencedAfter
  <1>4. TimersOnlyWhileBooked'
    <2> SUFFICES ASSUME NEW t \in timers'
                 PROVE  consults'[t[2]].status = "booked"
      BY DEF TimersOnlyWhileBooked
    <2>1. CASE t \in timers
      <3>1. t[2] \in DOMAIN consults
        <4>1. t \in TimerKinds \X DOMAIN consults
          BY <2>1 DEF BookInv, TypeOK
        <4> QED
          BY <4>1
      <3>2. consults[t[2]].status = "booked"
        BY <2>1 DEF TimerInv, TimersOnlyWhileBooked
      <3> QED
        BY <3>1, <3>2, Ending
    <2>2. CASE t \notin timers
      BY <2>2, Coming
    <2> QED
      BY <2>1, <2>2
  <1>5. NoTaskAfterEnd'
    <2> SUFFICES ASSUME NEW t \in tasks'
                 PROVE  consults'[t[2]].status \in {"booked", "on_hold"}
      BY DEF NoTaskAfterEnd
    <2>1. CASE t \in tasks
      <3>1. t[2] \in DOMAIN consults
        <4>1. t \in TaskKinds \X DOMAIN consults
          BY <2>1 DEF BookInv, TypeOK
        <4> QED
          BY <4>1
      <3>2. consults[t[2]].status \in {"booked", "on_hold"}
        BY <2>1 DEF TimerInv, NoTaskAfterEnd
      <3> QED
        BY <3>1, <3>2, Ending
    <2>2. CASE t \notin tasks
      BY <2>2, Coming
    <2> QED
      BY <2>1, <2>2
  <1> QED
    BY <1>1, <1>2, <1>3, <1>4, <1>5 DEF TimerInv

LEMMA TimersStart == Init => TimerInv
  BY DEF Init, TimerInv, ClaimsPend, OneClaim, ClaimsHeard, Ticking, Idle,
         TimersOnlyWhileBooked, NoTaskAfterEnd

\* Whatever confirmations, cancellations, reschedules, outcomes, expiries and
\* ticks of the worker ran side by side, a consultation has an entry on the
\* lawyer's calendar just when its status says so, is replaced at most once, by
\* being closed, has timers only while it is booked and staff tasks only until
\* it is over, and no reminder is queued for one that is no longer booked.
THEOREM BookingsStayConsistent == Spec => BookingsAreConsistent
  <1>1. BookInv /\ TimerInv =>
            CalendarFollowsStatus /\ MovedOnce /\ TimersOnlyWhileBooked /\ NoTaskAfterEnd
    BY DEF BookInv, Chain, MovedOnce, TimerInv
  <1>2. BookInv /\ TimerInv /\ [Next]_vars => TimerInv'
    BY TimersStay
  <1>3. BookInv /\ TimerInv /\ [Next]_vars =>
            [\A c \in reminded' \ reminded : consults[c].status = "booked"]_vars
    BY Coming
  <1> QED
    BY <1>1, <1>2, <1>3, TimersStart, BookIsSound, PTL
       DEF Spec, BookingsAreConsistent, RemindersWhileBooked

=============================================================================
