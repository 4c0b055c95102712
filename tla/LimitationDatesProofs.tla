------------------------ MODULE LimitationDatesProofs ------------------------
(* The theorems about LimitationDates: for any people, any number of       *)
(* requests at a time, any dates and every bound.                          *)
EXTENDS LimitationDates, FiniteSetTheorems, TLAPS

Reads == {"verify", "change", "close"}

\* A row, with the versions a bound allows.
Row == {r \in RowType : r.version \in 1 .. MaxVersion}

\* What a request has in hand between what it read and its commit.
TxType ==
    {Idle}
    \cup [op : {"not_applicable"}]
    \cup [op : {"verify"}, row : DOMAIN rows, by : People, date : Dates, was : Row]
    \cup {t \in [op : {"change"}, row : DOMAIN rows, by : Lawyers, date : Dates, was : Row] :
              t.was.version < MaxVersion}
    \cup [op : {"close"}, row : DOMAIN rows, outcome : Outcomes, was : Row]

\* The row a request read is the date's row or an older version of it; a
\* version has one date.
ReadHolds(p) ==
    tx[p].op \in Reads =>
        /\ tx[p].was.version <= rows[tx[p].row].version
        /\ tx[p].was.version = rows[tx[p].row].version
              => tx[p].was.date = rows[tx[p].row].date

TypeInv ==
    /\ rows \in Seq(Row)
    /\ tx \in [Requests -> TxType]

ReadInv == TypeInv /\ \A p \in Requests : ReadHolds(p)

\* What one row may become.
LEMMA RowsStay ==
    ASSUME TypeInv, NEW i \in DOMAIN rows, NEW r \in Row, rows' = [rows EXCEPT ![i] = r]
    PROVE  /\ rows' \in Seq(Row) /\ DOMAIN rows' = DOMAIN rows
           /\ rows'[i] = r /\ \A j \in DOMAIN rows : j # i => rows'[j] = rows[j]
  BY DEF TypeInv

LEMMA RowKnown ==
    ASSUME TypeInv, NEW i \in DOMAIN rows
    PROVE  /\ rows[i] \in Row /\ rows[i].version \in 1 .. MaxVersion
           /\ rows[i].date \in Dates /\ rows[i].enteredBy \in Lawyers
           /\ rows[i].changedBy \in Lawyers \cup {Nobody}
           /\ rows[i].status \in Open \cup Outcomes
           /\ rows[i].event \in {"proposed", "confirmed", "cancelled"}
  BY DEF TypeInv, Row, RowType

-----------------------------------------------------------------------------
(* The steps, by what they do to the rows and to the requests.             *)

Records == <<rows, verifications, changes>>

\* A request reads and has yet to write.
Starts(p) ==
    /\ UNCHANGED Records
    /\ \E t \in TxType : /\ tx' = [tx EXCEPT ![p] = t]
                         /\ t.op \in Reads => t.was = rows[t.row]

\* A request ends and leaves the dates as they are.
Ends(p) == UNCHANGED Records /\ tx' = [tx EXCEPT ![p] = Idle]

Writes(p) == CommitMatch(p) \/ CommitMismatch(p) \/ CommitChange(p) \/ CommitClose(p)

LEMMA RequestEffect ==
    ASSUME TypeInv, NEW p \in Requests, Request(p)
    PROVE  Starts(p) \/ Ends(p) \/ Writes(p)
  <1>1. CASE AskNotApplicable(p)
    <2> DEFINE t == [op |-> "not_applicable"]
    <2>1. t \in TxType /\ t.op \notin Reads
      BY DEF TxType, Reads
    <2>2. tx' = [tx EXCEPT ![p] = t] /\ UNCHANGED Records
      BY <1>1 DEF AskNotApplicable, Begin, Stored, Records
    <2> HIDE DEF t
    <2> QED
      BY <2>1, <2>2 DEF Starts
  <1>2. ASSUME NEW i \in DOMAIN rows, NEW who \in People, NEW d \in Dates,
               AskVerify(p, who, i, d)
        PROVE  Starts(p)
    <2> DEFINE t == [op |-> "verify", row |-> i, by |-> who, date |-> d, was |-> rows[i]]
    <2>1. rows[i] \in Row
      BY RowKnown
    <2>2. t \in TxType /\ t.was = rows[t.row]
      BY <1>2, <2>1 DEF TxType, AskVerify
    <2>3. tx' = [tx EXCEPT ![p] = t] /\ UNCHANGED Records
      BY <1>2 DEF AskVerify, Begin, Stored, Records
    <2> HIDE DEF t
    <2> QED
      BY <2>2, <2>3 DEF Starts
  <1>3. ASSUME NEW i \in DOMAIN rows, NEW who \in Lawyers, NEW d \in Dates,
               AskChange(p, who, i, d)
        PROVE  Starts(p)
    <2> DEFINE t == [op |-> "change", row |-> i, by |-> who, date |-> d, was |-> rows[i]]
    <2>1. rows[i] \in Row
      BY RowKnown
    <2>2. t \in TxType /\ t.was = rows[t.row]
      BY <1>3, <2>1 DEF TxType, AskChange
    <2>3. tx' = [tx EXCEPT ![p] = t] /\ UNCHANGED Records
      BY <1>3 DEF AskChange, Begin, Stored, Records
    <2> HIDE DEF t
    <2> QED
      BY <2>2, <2>3 DEF Starts
  <1>4. ASSUME NEW i \in DOMAIN rows, NEW o \in Outcomes, AskClose(p, i, o)
        PROVE  Starts(p)
    <2> DEFINE t == [op |-> "close", row |-> i, outcome |-> o, was |-> rows[i]]
    <2>1. rows[i] \in Row
      BY RowKnown
    <2>2. t \in TxType /\ t.was = rows[t.row]
      BY <1>4, <2>1 DEF TxType, AskClose
    <2>3. tx' = [tx EXCEPT ![p] = t] /\ UNCHANGED Records
      BY <1>4 DEF AskClose, Begin, Stored, Records
    <2> HIDE DEF t
    <2> QED
      BY <2>2, <2>3 DEF Starts
  <1>5. CASE CommitNotApplicable(p) \/ Rollback(p)
    BY <1>5 DEF CommitNotApplicable, Rollback, Finish, Stored, Ends, Records
  <1> QED
    BY <1>1, <1>2, <1>3, <1>4, <1>5 DEF Request, Writes

\* The steps that are no request's: a date is entered, or no date changes.
LEMMA OtherEffect ==
    ASSUME [Next]_vars, ~\E p \in Requests : Request(p)
    PROVE  \/ \E who \in Lawyers, d \in Dates : EnterLimitationDate(who, d)
           \/ UNCHANGED <<Records, tx>>
  BY DEF Next, vars, Records, SetApplies, ScanRead, ScanCommit, CoverageRead,
         CoverageCommit, ScanFails, NextDay, Stored

\* The next version of a row.
LEMMA ChangeRow ==
    ASSUME NEW r \in Row, NEW who \in Lawyers, NEW d \in Dates, r.version < MaxVersion,
           NEW q, q = Changed(r, who, d)
    PROVE  /\ q \in Row /\ q.version = r.version + 1 /\ q.date = d
           /\ q.enteredBy = r.enteredBy /\ q.changedBy = who
           /\ q.status = "unverified" /\ q.event = "proposed"
  <1>1. MaxVersion \in Nat
    BY ConstantsHold DEF LimitationAssumption
  <1>2. r \in RowType /\ r.version \in 1 .. MaxVersion /\ r.version \in Nat
    BY <1>1 DEF Row
  <1>3. r.version + 1 \in 1 .. MaxVersion /\ r.version + 1 \in Nat
    BY <1>1, <1>2
  <1>4. q = [date |-> d, version |-> r.version + 1, status |-> "unverified",
             enteredBy |-> r.enteredBy, changedBy |-> who, event |-> "proposed"]
    BY <1>2 DEF RowType, Changed
  <1>5. r.enteredBy \in Lawyers
    BY <1>2 DEF RowType
  <1> QED
    BY <1>3, <1>4, <1>5 DEF Row, RowType, Open

\* What a request that writes had read.
LEMMA WriterTyped ==
    ASSUME TypeInv, NEW p \in Requests, Writes(p)
    PROVE  /\ tx[p].op \in Reads /\ tx[p].row \in DOMAIN rows /\ tx[p].was \in Row
           /\ tx[p].op = "verify" => tx[p].by \in People /\ tx[p].date \in Dates
           /\ tx[p].op = "change" => /\ tx[p].by \in Lawyers /\ tx[p].date \in Dates
                                     /\ tx[p].was.version < MaxVersion
           /\ tx[p].op = "close" => tx[p].outcome \in Outcomes
  <1>1. tx[p] \in TxType /\ tx[p].op \in Reads
    BY DEF TypeInv, Writes, CommitMatch, CommitMismatch, CommitChange, CommitClose, Reads
  <1> QED
    BY <1>1 DEF TxType, Reads, Idle

\* A date that is written keeps its version and its date, or gets the next
\* version; the request ends.
LEMMA WriteEffect ==
    ASSUME TypeInv, NEW p \in Requests, Writes(p)
    PROVE  LET i == tx[p].row
           IN  /\ tx' = [tx EXCEPT ![p] = Idle]
               /\ \E q \in Row :
                      /\ rows' = [rows EXCEPT ![i] = q]
                      /\ \/ q.version = rows[i].version /\ q.date = rows[i].date
                         \/ q.version = rows[i].version + 1
  <1> DEFINE i == tx[p].row
  <1>1. i \in DOMAIN rows /\ rows[i] \in Row
    BY WriterTyped, RowKnown
  <1>2. tx' = [tx EXCEPT ![p] = Idle]
    BY DEF Writes, CommitMatch, CommitMismatch, CommitChange, CommitClose, Finish
  <1> DEFINE Goal == \E q \in Row :
                         /\ rows' = [rows EXCEPT ![i] = q]
                         /\ \/ q.version = rows[i].version /\ q.date = rows[i].date
                            \/ q.version = rows[i].version + 1
  <1>3. CASE CommitMatch(p)
    <2> PICK q : q = [rows[i] EXCEPT !.status = "verified",
                                     !.event = IF @ = "proposed" THEN "confirmed" ELSE @]
      OBVIOUS
    <2>1. rows' = [rows EXCEPT ![i] = q]
      BY <1>1, <1>3 DEF CommitMatch, TypeInv
    <2>2. q \in Row /\ q.version = rows[i].version /\ q.date = rows[i].date
      BY <1>1 DEF Row, RowType, Open
    <2> HIDE DEF i
    <2>3. Goal
      BY <2>1, <2>2
    <2> QED
      BY <1>2, <2>3 DEF i
  <1>4. CASE CommitMismatch(p)
    <2> PICK q : q = [rows[i] EXCEPT !.status = "disputed"]
      OBVIOUS
    <2>1. rows' = [rows EXCEPT ![i] = q]
      BY <1>1, <1>4 DEF CommitMismatch, TypeInv
    <2>2. q \in Row /\ q.version = rows[i].version /\ q.date = rows[i].date
      BY <1>1 DEF Row, RowType, Open
    <2> HIDE DEF i
    <2>3. Goal
      BY <2>1, <2>2
    <2> QED
      BY <1>2, <2>3 DEF i
  <1>5. CASE CommitChange(p)
    <2> PICK q : q = Changed(rows[i], tx[p].by, tx[p].date)
      OBVIOUS
    <2>1. rows' = [rows EXCEPT ![i] = q]
      BY <1>1, <1>5 DEF CommitChange, TypeInv
    <2>2. rows[i].version < MaxVersion /\ tx[p].by \in Lawyers /\ tx[p].date \in Dates
      BY <1>5, WriterTyped DEF CommitChange, SameVersion
    <2>3. q \in Row /\ q.version = rows[i].version + 1
      BY <1>1, <2>2, ChangeRow
    <2> HIDE DEF i
    <2>4. Goal
      BY <2>1, <2>3
    <2> QED
      BY <1>2, <2>4 DEF i
  <1>6. CASE CommitClose(p)
    <2> PICK o, q : o = tx[p].outcome /\ q = [rows[i] EXCEPT !.status = o,
                                                           !.event = "cancelled"]
      OBVIOUS
    <2>1. rows' = [rows EXCEPT ![i] = q] /\ o \in Outcomes
      BY <1>1, <1>6, WriterTyped DEF CommitClose, TypeInv
    <2>2. q \in Row /\ q.version = rows[i].version /\ q.date = rows[i].date
      BY <1>1, <2>1 DEF Row, RowType, Open
    <2> HIDE DEF i
    <2>3. Goal
      BY <2>1, <2>2
    <2> QED
      BY <1>2, <2>3 DEF i
  <1> QED
    BY <1>3, <1>4, <1>5, <1>6 DEF Writes

\* A date that is entered is the first version of it.
LEMMA EnterEffect ==
    ASSUME TypeInv, NEW who \in Lawyers, NEW d \in Dates, EnterLimitationDate(who, d)
    PROVE  LET n == Len(rows) + 1
           IN  /\ rows' \in Seq(Row) /\ DOMAIN rows' = DOMAIN rows \cup {n}
               /\ n \notin DOMAIN rows /\ n \in Nat
               /\ \A i \in DOMAIN rows : rows'[i] = rows[i]
               /\ rows'[n].version = 1 /\ rows'[n].status = "unverified"
               /\ rows'[n].event = "proposed"
               /\ UNCHANGED <<tx, verifications, changes>>
  <1> DEFINE r == [date |-> d, version |-> 1, status |-> "unverified", enteredBy |-> who,
                   changedBy |-> Nobody, event |-> "proposed"]
  <1>1. r \in Row
    BY ConstantsHold DEF LimitationAssumption, Row, RowType, Open
  <1>2. rows' = Append(rows, r) /\ UNCHANGED <<tx, verifications, changes>>
    BY DEF EnterLimitationDate
  <1>3. r.version = 1 /\ r.status = "unverified" /\ r.event = "proposed"
    OBVIOUS
  <1> HIDE DEF r
  <1>4. rows \in Seq(Row)
    BY DEF TypeInv
  <1> QED
    BY <1>1, <1>2, <1>3, <1>4

-----------------------------------------------------------------------------
(* Types, and what a request read.                                         *)

LEMMA TxTypeGrows ==
    ASSUME DOMAIN rows \subseteq DOMAIN rows'
    PROVE  TxType \subseteq TxType'
  BY DEF TxType

LEMMA TypeStep ==
    ASSUME TypeInv, [Next]_vars
    PROVE  TypeInv'
  <1>1. ASSUME NEW p \in Requests, Request(p) PROVE TypeInv'
    <2>1. CASE Starts(p)
      <3> PICK t \in TxType : tx' = [tx EXCEPT ![p] = t]
        BY <2>1 DEF Starts
      <3>1. rows' = rows
        BY <2>1 DEF Starts, Records
      <3>2. tx' \in [Requests -> TxType]
        BY DEF TypeInv
      <3> QED
        BY <3>1, <3>2, TxTypeGrows DEF TypeInv
    <2>2. CASE Ends(p)
      BY <2>2, TxTypeGrows DEF Ends, TypeInv, Records, TxType
    <2>3. CASE Writes(p)
      <3>1. rows' \in Seq(Row) /\ DOMAIN rows' = DOMAIN rows
        BY <2>3, WriteEffect, WriterTyped, RowsStay
      <3>2. tx' \in [Requests -> TxType]
        BY <2>3, WriteEffect DEF TypeInv, TxType
      <3> QED
        BY <3>1, <3>2, TxTypeGrows DEF TypeInv
    <2> QED
      BY <1>1, <2>1, <2>2, <2>3, RequestEffect
  <1>2. ASSUME NEW who \in Lawyers, NEW d \in Dates, EnterLimitationDate(who, d)
        PROVE  TypeInv'
    BY <1>2, EnterEffect, TxTypeGrows DEF TypeInv
  <1>3. CASE UNCHANGED <<Records, tx>>
    BY <1>3, TxTypeGrows DEF TypeInv, Records
  <1> QED
    BY <1>1, <1>2, <1>3, OtherEffect

LEMMA ReadStep ==
    ASSUME ReadInv, [Next]_vars, NEW q \in Requests
    PROVE  ReadHolds(q)'
  <1>0. TypeInv /\ TypeInv' /\ ReadHolds(q)
    BY TypeStep DEF ReadInv
  <1>1. ASSUME tx'[q] = tx[q], UNCHANGED rows PROVE ReadHolds(q)'
    BY <1>0, <1>1 DEF ReadHolds
  <1>2. ASSUME tx'[q] = Idle PROVE ReadHolds(q)'
    BY <1>2 DEF ReadHolds, Idle, Reads
  <1>3. tx[q].op \in Reads => tx[q].row \in DOMAIN rows /\ tx[q].was \in Row
    BY <1>0 DEF TypeInv, TxType, Reads, Idle
  <1>4. ASSUME NEW p \in Requests, Request(p) PROVE ReadHolds(q)'
    <2>1. CASE Starts(p)
      <3> PICK t \in TxType : /\ tx' = [tx EXCEPT ![p] = t]
                              /\ t.op \in Reads => t.was = rows[t.row]
        BY <2>1 DEF Starts
      <3>0. rows' = rows /\ DOMAIN tx = Requests
        BY <1>0, <2>1 DEF Starts, Records, TypeInv
      <3>1. CASE q = p
        <4>1. tx'[q] = t /\ rows' = rows
          BY <3>0, <3>1
        <4>2. t.op \in Reads => t.row \in DOMAIN rows /\ t.was \in Row
          BY DEF TxType, Reads, Idle
        <4>3. t.op \in Reads => rows[t.row].version \in Int
          BY <1>0, <4>2, RowKnown DEF Row
        <4>4. t.op \in Reads => /\ t.was.version <= rows[t.row].version
                                /\ t.was.version = rows[t.row].version
                                      => t.was.date = rows[t.row].date
          BY <4>3
        <4> QED
          BY <4>1, <4>4 DEF ReadHolds
      <3>2. CASE q # p
        <4>1. tx'[q] = tx[q]
          BY <3>0, <3>2
        <4> QED
          BY <1>1, <3>0, <4>1
      <3> QED
        BY <3>1, <3>2
    <2>2. CASE Ends(p)
      BY <1>0, <1>1, <1>2, <2>2 DEF Ends, TypeInv, Records
    <2>3. CASE Writes(p)
      <3>1. CASE q = p
        BY <1>0, <1>2, <2>3, <3>1, WriteEffect DEF TypeInv
      <3>2. CASE q # p
        <4> DEFINE i == tx[p].row
        <4>1. PICK r \in Row : /\ rows' = [rows EXCEPT ![i] = r]
                              /\ \/ r.version = rows[i].version /\ r.date = rows[i].date
                                 \/ r.version = rows[i].version + 1
          BY <1>0, <2>3, WriteEffect
        <4>2. tx'[q] = tx[q]
          BY <1>0, <2>3, <3>2, WriteEffect DEF TypeInv
        <4>3. i \in DOMAIN rows
          BY <1>0, <2>3, WriterTyped
        <4> HIDE DEF i
        <4>4. rows'[i] = r /\ \A j \in DOMAIN rows : j # i => rows'[j] = rows[j]
          BY <1>0, <4>1, <4>3, RowsStay
        <4>5. SUFFICES ASSUME tx[q].op \in Reads
                       PROVE  /\ tx[q].was.version <= rows'[tx[q].row].version
                              /\ tx[q].was.version = rows'[tx[q].row].version
                                    => tx[q].was.date = rows'[tx[q].row].date
          BY <4>2 DEF ReadHolds
        <4>6. /\ tx[q].was.version <= rows[tx[q].row].version
              /\ tx[q].was.version = rows[tx[q].row].version
                     => tx[q].was.date = rows[tx[q].row].date
          BY <1>0, <4>5 DEF ReadHolds
        <4>7. CASE tx[q].row # i
          BY <1>3, <4>4, <4>5, <4>6, <4>7
        <4>8. CASE tx[q].row = i
          <5>1. rows[i].version \in Int /\ tx[q].was.version \in Int
            BY <1>0, <1>3, <4>3, <4>5, RowKnown DEF Row
          <5> QED
            BY <4>1, <4>4, <4>6, <4>8, <5>1
        <4> QED
          BY <4>7, <4>8
      <3> QED
        BY <3>1, <3>2
    <2> QED
      BY <1>0, <1>4, <2>1, <2>2, <2>3, RequestEffect
  <1>5. ASSUME NEW who \in Lawyers, NEW d \in Dates, EnterLimitationDate(who, d)
        PROVE  ReadHolds(q)'
    BY <1>0, <1>3, <1>5, EnterEffect DEF ReadHolds
  <1> QED
    BY <1>1, <1>4, <1>5, OtherEffect DEF Records

LEMMA ReadsAreSound == Spec => []ReadInv
  <1>1. Init => ReadInv
    BY DEF Init, ReadInv, TypeInv, TxType, ReadHolds, Idle, Reads
  <1>2. ReadInv /\ [Next]_vars => ReadInv'
    BY TypeStep, ReadStep DEF ReadInv
  <1> QED
    BY <1>1, <1>2, PTL DEF Spec

-----------------------------------------------------------------------------
(* Verification.                                                           *)

\* VerifiedIndependently of one row.
Vouched(i, r, made) ==
    r.status = "verified" \/ r.event = "confirmed" =>
        \E v \in made : /\ v.row = i /\ v.version = r.version /\ v.date = r.date
                       /\ Independent(v.by, r)

LEMMA VouchedRows ==
    VerifiedIndependently <=> \A i \in DOMAIN rows : Vouched(i, rows[i], verifications)
  BY DEF VerifiedIndependently, Vouched, Agreed

\* What a request writes leaves the date vouched for.
LEMMA WriteVouched ==
    ASSUME ReadInv, VerifiedIndependently, NEW p \in Requests, Writes(p),
           NEW i, i = tx[p].row
    PROVE  verifications \subseteq verifications' /\ Vouched(i, rows'[i], verifications')
  <1>0. TypeInv /\ i \in DOMAIN rows /\ rows[i] \in Row /\ Vouched(i, rows[i], verifications)
    BY WriterTyped, RowKnown, VouchedRows DEF ReadInv
  <1>1. CASE CommitMatch(p)
    <2> DEFINE v == Verified(tx[p])
    <2>1. /\ v.row = i /\ v.version = rows[i].version /\ v.by = tx[p].by
          /\ v.date = tx[p].was.date
      BY <1>1 DEF CommitMatch, Verified, SameVersion
    <2>2. v.date = rows[i].date
      BY <1>1, <2>1, WriterTyped DEF CommitMatch, SameVersion, ReadInv, ReadHolds
    <2>3. v \in verifications' /\ verifications \subseteq verifications'
      BY <1>1 DEF CommitMatch
    <2>4. Independent(v.by, rows[i])
      BY <1>1, <2>1 DEF CommitMatch
    <2> PICK q : q = [rows[i] EXCEPT !.status = "verified",
                                     !.event = IF @ = "proposed" THEN "confirmed" ELSE @]
      OBVIOUS
    <2>5. rows' = [rows EXCEPT ![i] = q]
      BY <1>0, <1>1 DEF CommitMatch, TypeInv
    <2>6. /\ q.version = rows[i].version /\ q.date = rows[i].date
          /\ q.enteredBy = rows[i].enteredBy /\ q.changedBy = rows[i].changedBy
      BY <1>0 DEF Row, RowType
    <2>7. rows'[i] = q
      BY <1>0, <2>5 DEF TypeInv
    <2> HIDE DEF v
    <2> QED
      BY <2>1, <2>2, <2>3, <2>4, <2>6, <2>7 DEF Vouched, Independent
  <1>2. CASE CommitMismatch(p)
    <2>1. verifications \subseteq verifications'
      BY <1>2 DEF CommitMismatch
    <2> PICK q : q = [rows[i] EXCEPT !.status = "disputed"]
      OBVIOUS
    <2>2. rows' = [rows EXCEPT ![i] = q]
      BY <1>0, <1>2 DEF CommitMismatch, TypeInv
    <2>3. /\ q.version = rows[i].version /\ q.date = rows[i].date
          /\ q.enteredBy = rows[i].enteredBy /\ q.changedBy = rows[i].changedBy
          /\ q.status = "disputed" /\ q.event = rows[i].event
      BY <1>0 DEF Row, RowType
    <2>4. rows'[i] = q
      BY <1>0, <2>2 DEF TypeInv
    <2> QED
      BY <1>0, <2>1, <2>3, <2>4 DEF Vouched, Independent
  <1>3. CASE CommitChange(p)
    <2>1. rows'[i] = Changed(rows[i], tx[p].by, tx[p].date) /\ verifications' = verifications
      BY <1>0, <1>3 DEF CommitChange, TypeInv
    <2>2. rows'[i].status = "unverified" /\ rows'[i].event = "proposed"
      BY <1>0, <2>1 DEF Changed, Row, RowType
    <2> QED
      BY <2>1, <2>2 DEF Vouched
  <1>4. CASE CommitClose(p)
    <2>1. /\ rows'[i] = [rows[i] EXCEPT !.status = tx[p].outcome, !.event = "cancelled"]
          /\ verifications' = verifications
      BY <1>0, <1>4 DEF CommitClose, TypeInv
    <2>2. tx[p].outcome # "verified"
      BY <1>0, <1>4, WriterTyped, ConstantsHold DEF CommitClose, LimitationAssumption
    <2>3. rows'[i].status = tx[p].outcome /\ rows'[i].event = "cancelled"
      BY <1>0, <2>1 DEF Row, RowType
    <2> QED
      BY <2>1, <2>2, <2>3 DEF Vouched
  <1> QED
    BY <1>1, <1>2, <1>3, <1>4 DEF Writes

\* c93 of the limitation dates, for any staff and any number of requests at a
\* time: a date stands as verified, and is on the calendar as confirmed, only if
\* somebody who neither entered nor last changed it worked out the date of that
\* version, whatever verifications, changes and closings ran side by side.
THEOREM VerificationIsIndependent == Spec => []VerifiedIndependently
  <1>1. Init => VerifiedIndependently
    BY DEF Init, VerifiedIndependently
  <1>2. ReadInv /\ VerifiedIndependently /\ [Next]_vars => VerifiedIndependently'
    <2> SUFFICES ASSUME ReadInv, VerifiedIndependently, [Next]_vars
                 PROVE  \A i \in DOMAIN rows' : Vouched(i, rows'[i], verifications')
      BY DEF VerifiedIndependently, Vouched, Agreed
    <2>0. TypeInv /\ \A i \in DOMAIN rows : Vouched(i, rows[i], verifications)
      BY VouchedRows DEF ReadInv
    <2>1. ASSUME UNCHANGED Records
          PROVE  \A i \in DOMAIN rows' : Vouched(i, rows'[i], verifications')
      BY <2>0, <2>1 DEF Records
    <2>2. ASSUME NEW p \in Requests, Writes(p)
          PROVE  \A i \in DOMAIN rows' : Vouched(i, rows'[i], verifications')
      <3> DEFINE i == tx[p].row
      <3>1. i \in DOMAIN rows
        BY <2>0, <2>2, WriterTyped
      <3>2. verifications \subseteq verifications' /\ Vouched(i, rows'[i], verifications')
        BY <2>2, WriteVouched
      <3>3. PICK q \in Row : rows' = [rows EXCEPT ![i] = q]
        BY <2>0, <2>2, WriteEffect
      <3> HIDE DEF i
      <3>4. DOMAIN rows' = DOMAIN rows /\ \A j \in DOMAIN rows : j # i => rows'[j] = rows[j]
        BY <2>0, <3>1, <3>3, RowsStay
      <3>5. ASSUME NEW j \in DOMAIN rows, j # i
            PROVE  Vouched(j, rows'[j], verifications')
        BY <2>0, <3>2, <3>4, <3>5 DEF Vouched
      <3> QED
        BY <3>2, <3>4, <3>5
    <2>3. ASSUME NEW who \in Lawyers, NEW d \in Dates, EnterLimitationDate(who, d)
          PROVE  \A i \in DOMAIN rows' : Vouched(i, rows'[i], verifications')
      BY <2>0, <2>3, EnterEffect DEF Vouched
    <2>4. ASSUME NEW p \in Requests, Request(p)
          PROVE  \A i \in DOMAIN rows' : Vouched(i, rows'[i], verifications')
      BY <2>0, <2>1, <2>2, <2>4, RequestEffect DEF Starts, Ends
    <2> QED
      BY <2>1, <2>3, <2>4, OtherEffect
  <1> QED
    BY <1>1, <1>2, ReadsAreSound, PTL DEF Spec

-----------------------------------------------------------------------------
(* The history of changes.                                                 *)

\* The changes of row i lead, one from each version to the next, to version n
\* and date d.
History(log, i, n, d) ==
    /\ \A c \in log : c.row = i => c.from \in 1 .. (n - 1)
    /\ \A v \in 1 .. (n - 1) : \E c \in log : c.row = i /\ c.from = v
    /\ \A c, e \in log : c.row = i /\ e.row = i /\ c.from = e.from => c = e
    /\ \A c \in log :
           c.row = i => IF c.from + 1 = n THEN c.new = d
                        ELSE \E e \in log : e.row = i /\ e.from = c.from + 1 /\ e.old = c.new

HistoryInv ==
    /\ \A c \in changes : c.row \in DOMAIN rows
    /\ \A i \in DOMAIN rows : History(changes, i, rows[i].version, rows[i].date)

\* One more change carries the history on.
LEMMA HistoryGoesOn ==
    ASSUME NEW log, NEW i, NEW n \in Nat \ {0}, NEW d, NEW c, History(log, i, n, d),
           c.row = i, c.from = n, c.old = d
    PROVE  History(log \cup {c}, i, n + 1, c.new)
  <1> DEFINE next == log \cup {c}
  <1>1. \A e \in next : e.row = i => e.from \in 1 .. n
    BY DEF History
  <1>2. \A v \in 1 .. n : \E e \in next : e.row = i /\ e.from = v
    <2> SUFFICES ASSUME NEW v \in 1 .. n PROVE \E e \in next : e.row = i /\ e.from = v
      OBVIOUS
    <2>1. v = n \/ v \in 1 .. (n - 1)
      OBVIOUS
    <2> QED
      BY <2>1 DEF History
  <1>3. \A e, f \in next : e.row = i /\ f.row = i /\ e.from = f.from => e = f
    <2>1. \A e \in log : e.row = i => e.from # n
      BY DEF History
    <2> QED
      BY <2>1 DEF History
  <1>4. ASSUME NEW e \in next, e.row = i
        PROVE  IF e.from + 1 = n + 1 THEN e.new = c.new
               ELSE \E f \in next : f.row = i /\ f.from = e.from + 1 /\ f.old = e.new
    <2>1. CASE e = c
      BY <2>1
    <2>2. CASE e \in log
      <3>1. e.from \in 1 .. (n - 1) /\ e.from + 1 # n + 1
        BY <1>4, <2>2 DEF History
      <3>2. CASE e.from + 1 = n
        BY <1>4, <2>2, <3>1, <3>2 DEF History
      <3>3. CASE e.from + 1 # n
        BY <1>4, <2>2, <3>1, <3>3 DEF History
      <3> QED
        BY <3>2, <3>3
    <2> QED
      BY <2>1, <2>2
  <1>5. (n + 1) - 1 = n
    OBVIOUS
  <1> HIDE DEF next
  <1> QED
    BY <1>1, <1>2, <1>3, <1>4, <1>5 DEF History, next

\* A change of another row is no part of it.
LEMMA HistoryIsOwn ==
    ASSUME NEW log, NEW i, NEW n, NEW d, NEW c, c.row # i, History(log, i, n, d)
    PROVE  History(log \cup {c}, i, n, d)
  BY DEF History

LEMMA HistoryIsKept == Spec => []HistoryInv
  <1>1. Init => HistoryInv
    BY DEF Init, HistoryInv
  <1>2. ReadInv /\ HistoryInv /\ [Next]_vars => HistoryInv'
    <2> SUFFICES ASSUME ReadInv, HistoryInv, [Next]_vars PROVE HistoryInv'
      OBVIOUS
    <2>0. TypeInv
      BY DEF ReadInv
    <2>1. ASSUME UNCHANGED Records PROVE HistoryInv'
      BY <2>1 DEF HistoryInv, Records
    <2>2. ASSUME NEW p \in Requests, Writes(p), ~CommitChange(p) PROVE HistoryInv'
      <3> DEFINE i == tx[p].row
      <3>1. i \in DOMAIN rows /\ changes' = changes
        BY <2>0, <2>2, WriterTyped DEF Writes, CommitMatch, CommitMismatch, CommitClose
      <3>2. PICK q \in Row : /\ rows' = [rows EXCEPT ![i] = q]
                            /\ q.version = rows[i].version /\ q.date = rows[i].date
        <4>1. rows[i] \in Row
          BY <2>0, <3>1, RowKnown
        <4>2. CASE CommitMatch(p)
          <5> PICK q : q = [rows[i] EXCEPT !.status = "verified",
                                !.event = IF @ = "proposed" THEN "confirmed" ELSE @]
            OBVIOUS
          <5>1. rows' = [rows EXCEPT ![i] = q]
            BY <2>0, <3>1, <4>2 DEF CommitMatch, TypeInv
          <5>2. q \in Row /\ q.version = rows[i].version /\ q.date = rows[i].date
            BY <4>1 DEF Row, RowType, Open
          <5> QED
            BY <5>1, <5>2
        <4>3. CASE CommitMismatch(p)
          <5> PICK q : q = [rows[i] EXCEPT !.status = "disputed"]
            OBVIOUS
          <5>1. rows' = [rows EXCEPT ![i] = q]
            BY <2>0, <3>1, <4>3 DEF CommitMismatch, TypeInv
          <5>2. q \in Row /\ q.version = rows[i].version /\ q.date = rows[i].date
            BY <4>1 DEF Row, RowType, Open
          <5> QED
            BY <5>1, <5>2
        <4>4. CASE CommitClose(p)
          <5> PICK o, q : o = tx[p].outcome /\ q = [rows[i] EXCEPT !.status = o,
                                                                 !.event = "cancelled"]
            OBVIOUS
          <5>1. rows' = [rows EXCEPT ![i] = q] /\ o \in Outcomes
            BY <2>0, <2>2, <3>1, <4>4, WriterTyped DEF CommitClose, TypeInv
          <5>2. q \in Row /\ q.version = rows[i].version /\ q.date = rows[i].date
            BY <4>1, <5>1 DEF Row, RowType, Open
          <5> QED
            BY <5>1, <5>2
        <4> QED
          BY <2>2, <4>2, <4>3, <4>4 DEF Writes
      <3> HIDE DEF i
      <3>3. /\ DOMAIN rows' = DOMAIN rows /\ rows'[i] = q
            /\ \A j \in DOMAIN rows : j # i => rows'[j] = rows[j]
        BY <2>0, <3>1, <3>2, RowsStay
      <3>4. \A j \in DOMAIN rows : rows'[j].version = rows[j].version /\ rows'[j].date = rows[j].date
        BY <3>2, <3>3
      <3> QED
        BY <3>1, <3>3, <3>4 DEF HistoryInv
    <2>3. ASSUME NEW p \in Requests, CommitChange(p) PROVE HistoryInv'
      <3> DEFINE i == tx[p].row
                 c == [row |-> i, from |-> tx[p].was.version, by |-> tx[p].by,
                       old |-> tx[p].was.date, new |-> tx[p].date]
      <3>1. /\ i \in DOMAIN rows /\ rows[i] \in Row /\ tx[p].op = "change"
            /\ tx[p].by \in Lawyers /\ tx[p].date \in Dates /\ rows[i].version < MaxVersion
            /\ tx[p].was.version = rows[i].version
        BY <2>0, <2>3, WriterTyped, RowKnown DEF Writes, CommitChange, SameVersion
      <3>2. tx[p].was.date = rows[i].date
        BY <3>1 DEF ReadInv, ReadHolds, Reads
      <3>3. changes' = changes \cup {c}
        BY <2>3 DEF CommitChange
      <3>4. c.row = i /\ c.from = rows[i].version /\ c.old = rows[i].date /\ c.new = tx[p].date
        BY <3>1, <3>2
      <3> PICK q : q = Changed(rows[i], tx[p].by, tx[p].date)
        OBVIOUS
      <3>5. q \in Row /\ q.version = rows[i].version + 1 /\ q.date = tx[p].date
        BY <3>1, ChangeRow
      <3>6. rows' = [rows EXCEPT ![i] = q]
        BY <2>0, <2>3 DEF CommitChange, TypeInv
      <3>7. rows[i].version \in Nat \ {0}
        BY <3>1, ConstantsHold DEF Row, LimitationAssumption
      <3> HIDE DEF i, c
      <3>8. /\ DOMAIN rows' = DOMAIN rows /\ rows'[i] = q
            /\ \A j \in DOMAIN rows : j # i => rows'[j] = rows[j]
        BY <2>0, <3>1, <3>5, <3>6, RowsStay
      <3>9. History(changes', i, rows'[i].version, rows'[i].date)
        <4>1. History(changes, i, rows[i].version, rows[i].date)
          BY <3>1 DEF HistoryInv
        <4>2. History(changes \cup {c}, i, rows[i].version + 1, c.new)
          BY <3>4, <3>7, <4>1, HistoryGoesOn
        <4> QED
          BY <3>3, <3>4, <3>5, <3>8, <4>2
      <3>10. ASSUME NEW j \in DOMAIN rows, j # i
             PROVE  History(changes', j, rows'[j].version, rows'[j].date)
        BY <3>3, <3>4, <3>8, <3>10, HistoryIsOwn DEF HistoryInv
      <3>11. \A e \in changes' : e.row \in DOMAIN rows'
        BY <3>1, <3>3, <3>4, <3>8 DEF HistoryInv
      <3> QED
        BY <3>8, <3>9, <3>10, <3>11 DEF HistoryInv
    <2>4. ASSUME NEW who \in Lawyers, NEW d \in Dates, EnterLimitationDate(who, d)
          PROVE  HistoryInv'
      <3> DEFINE n == Len(rows) + 1
      <3>1. /\ DOMAIN rows' = DOMAIN rows \cup {n} /\ n \notin DOMAIN rows
            /\ \A i \in DOMAIN rows : rows'[i] = rows[i]
            /\ rows'[n].version = 1 /\ changes' = changes
        BY <2>0, <2>4, EnterEffect
      <3> HIDE DEF n
      <3>2. \A d2 : History(changes, n, 1, d2)
        BY <3>1 DEF History, HistoryInv
      <3> QED
        BY <3>1, <3>2 DEF HistoryInv
    <2>5. ASSUME NEW p \in Requests, Request(p) PROVE HistoryInv'
      BY <2>0, <2>1, <2>2, <2>3, <2>5, RequestEffect DEF Starts, Ends
    <2> QED
      BY <2>1, <2>4, <2>5, OtherEffect
  <1> QED
    BY <1>1, <1>2, ReadsAreSound, PTL DEF Spec

\* Of any number of changes at a time, each made to a version its request read
\* earlier, exactly one goes from each version to the next, and each starts
\* from the date the one before it set: the log is the date's whole history.
THEOREM ChangesStayTheHistory == Spec => []ChangesAreTheHistory
  <1>1. HistoryInv => ChangesAreTheHistory
    <2> SUFFICES ASSUME HistoryInv, NEW i \in DOMAIN rows
                 PROVE  LET mine == {c \in changes : c.row = i}
                        IN  /\ \A v \in 1 .. (rows[i].version - 1) :
                                   Cardinality({c \in mine : c.from = v}) = 1
                            /\ \A c \in mine :
                                   IF c.from + 1 = rows[i].version THEN c.new = rows[i].date
                                   ELSE \E d \in mine : d.from = c.from + 1 /\ d.old = c.new
      BY DEF ChangesAreTheHistory
    <2> DEFINE mine == {c \in changes : c.row = i}
    <2>1. History(changes, i, rows[i].version, rows[i].date)
      BY DEF HistoryInv
    <2>2. ASSUME NEW v \in 1 .. (rows[i].version - 1)
          PROVE  Cardinality({c \in mine : c.from = v}) = 1
      <3>1. PICK c \in mine : c.from = v
        BY <2>1 DEF History
      <3>2. {e \in mine : e.from = v} = {c}
        BY <2>1, <3>1 DEF History
      <3> QED
        BY <3>2, FS_Singleton
    <2>3. \A c \in mine : IF c.from + 1 = rows[i].version THEN c.new = rows[i].date
                         ELSE \E d \in mine : d.from = c.from + 1 /\ d.old = c.new
      BY <2>1 DEF History
    <2> QED
      BY <2>2, <2>3
  <1> QED
    BY <1>1, HistoryIsKept, PTL
=============================================================================
