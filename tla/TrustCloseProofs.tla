-------------------------- MODULE TrustCloseProofs --------------------------
(* The theorems about TrustClose: for any number of requests at a time,    *)
(* any set of roles and every bound, however their transactions            *)
(* interleave.                                                             *)
EXTENDS TrustClose, CommonLemmas, TLAPS

-----------------------------------------------------------------------------
(* The last closed month.                                                  *)

\* LastClosed is the latest of the closed months.
LEMMA LastClosedIsLatest ==
    ASSUME TypeOK
    PROVE  /\ LastClosed \in Nat
           /\ \A c \in closes : c.month <= LastClosed
           /\ closes # {} => \E c \in closes : c.month = LastClosed /\ LastClosed > 0
  <1> DEFINE M == {c.month : c \in closes}
  <1>1. M \subseteq Months /\ \A c \in closes : c.month \in M
    BY DEF TypeOK, CloseType
  <1>2. CASE closes = {}
    BY <1>2 DEF LastClosed
  <1>3. CASE closes # {}
    <2>1. M \subseteq 0 .. LastMonth
      BY <1>1, BoundsAssumption DEF Months
    <2>2. M # {}
      BY <1>3
    <2>3. \E n \in M : \A c \in M : c <= n
      <3> HIDE DEF M
      <3> QED
        BY <2>1, <2>2, GreatestNatural, BoundsAssumption
    <2>4. \E n \in M : \A c \in closes : c.month <= n
      BY <2>3, <1>1
    <2>6. LastClosed = CHOOSE n \in M : \A c \in closes : c.month <= n
      BY <1>3 DEF LastClosed, M
    <2>7. LastClosed \in M /\ \A c \in closes : c.month <= LastClosed
      BY <2>4, <2>6
    <2> HIDE DEF M
    <2>8. LastClosed \in Nat /\ LastClosed > 0
      <3>1. LastClosed \in Months
        BY <2>7, <1>1
      <3> QED
        BY <3>1, BoundsAssumption DEF Months
    <2>9. \E c \in closes : c.month = LastClosed
      BY <2>7 DEF M
    <2> QED
      BY <2>7, <2>8, <2>9
  <1> QED
    BY <1>2, <1>3
-----------------------------------------------------------------------------
(* Types.                                                                  *)

\* A transaction that signs or closes names a reconciliation that is there
\* and balanced.
SignsWhatIsThere(p) ==
    tx[p].op \in {"sign", "close"} =>
        tx[p].recon \in DOMAIN recons /\ recons[tx[p].recon].balanced

\* A step that begins transaction t, or ends one, keeps the others typed.
LEMMA TxTyped ==
    ASSUME NEW p \in Staff, tx \in [Staff -> TxType], NEW t \in TxType,
           tx' = [tx EXCEPT ![p] = t]
    PROVE  tx' \in [Staff -> TxType]
  OBVIOUS

\* What is known of a transaction by its operation.
LEMMA TxByOperation ==
    ASSUME NEW t \in TxType
    PROVE  /\ t.op = "import" => t.month \in Months /\ t.replaces \in Nat
           /\ t.op = "prepare" => /\ t.month \in Months /\ t.replaces \in Nat
                                  /\ t.statement \in Nat /\ t.through \in Nat
                                  /\ t.balanced \in BOOLEAN
           /\ t.op = "sign" => t \in [op : {"sign"}, pc : {"checking", "writing", "locking"},
                                      recon : Nat, role : RequiredRoles, closing : BOOLEAN]
           /\ t.op = "close" => t.recon \in Nat /\ t.role \in RequiredRoles
           /\ t.op = "post" => t \in [op : {"post"}, pc : {"planned", "entered"}, month : Months]
           /\ t.op = "overdue" => t.month \in Months
  BY DEF TxType, Idle

\* Transactions of each kind are typed.
LEMMA TxMade ==
    /\ Idle \in TxType
    /\ \A m \in Months, r \in Nat : [op |-> "import", month |-> m, replaces |-> r] \in TxType
    /\ \A m \in Months, s, n, r \in Nat, b \in BOOLEAN :
           [op |-> "prepare", month |-> m, statement |-> s, through |-> n, balanced |-> b,
            replaces |-> r] \in TxType
    /\ \A c \in {"checking", "writing", "locking"}, r \in Nat, role \in RequiredRoles, b \in BOOLEAN :
           [op |-> "sign", pc |-> c, recon |-> r, role |-> role, closing |-> b] \in TxType
    /\ \A r \in Nat, role \in RequiredRoles, f \in SUBSET (AlertKinds \X Months) :
           [op |-> "close", recon |-> r, role |-> role, found |-> f] \in TxType
    /\ \A c \in {"planned", "entered"}, m \in Months :
           [op |-> "post", pc |-> c, month |-> m] \in TxType
    /\ \A m \in Months : [op |-> "overdue", month |-> m] \in TxType
  BY DEF TxType

\* Every request's step keeps the types.
LEMMA StepTypeOK ==
    ASSUME TypeOK, NEW p \in Staff, SignsWhatIsThere(p), Step(p)
    PROVE  TypeOK'
  <1> USE DEF TypeOK
  <1>t. tx[p] \in TxType
    OBVIOUS
  <1>1. ASSUME NEW m \in Months, NEW s \in {0} \cup DOMAIN statements, ImportRead(p, m, s)
        PROVE  TypeOK'
    BY <1>1, TxMade, TxTyped DEF ImportRead, Begin
  <1>2. CASE ImportCommit(p)
    <2>1. [month |-> tx[p].month, replaces |-> tx[p].replaces] \in StatementType
      BY <1>2, <1>t, TxByOperation DEF ImportCommit, StatementType
    <2> QED
      BY <1>2, <2>1, TxMade, TxTyped DEF ImportCommit, Finish
  <1>3. ASSUME NEW m \in Months, NEW b \in BOOLEAN, PrepareRead(p, m, b)
        PROVE  TypeOK'
    <2> PICK s \in Current(statements, m),
             r \in (IF Current(recons, m) = {} THEN {0} ELSE Current(recons, m)) :
             Begin(p, [op |-> "prepare", month |-> m, statement |-> s, through |-> Len(entries),
                       balanced |-> b, replaces |-> r])
      BY <1>3 DEF PrepareRead
    <2>1. s \in Nat /\ r \in Nat /\ Len(entries) \in Nat
      BY DEF Current
    <2> QED
      BY <1>3, <2>1, TxMade, TxTyped DEF PrepareRead, Begin
  <1>4. CASE PrepareCommit(p)
    <2>1. [month |-> tx[p].month, statement |-> tx[p].statement, through |-> tx[p].through,
           balanced |-> tx[p].balanced, replaces |-> tx[p].replaces] \in ReconType
      BY <1>4, <1>t, TxByOperation DEF PrepareCommit, ReconType
    <2>2. recons' \in Seq(ReconType)
      BY <1>4, <2>1 DEF PrepareCommit
    <2>3. alerts' \in SUBSET (AlertKinds \X Months)
      BY <1>4, <1>t, TxByOperation DEF PrepareCommit, AlertKinds
    <2> QED
      BY <1>4, <2>2, <2>3, TxMade, TxTyped DEF PrepareCommit, Finish
  <1>5. ASSUME NEW r \in DOMAIN recons, NEW role \in RequiredRoles, SignRead(p, r, role)
        PROVE  TypeOK'
    <2>1. Completes(r, role) \in BOOLEAN /\ r \in Nat
      BY DEF Completes
    <2> QED
      BY <1>5, <2>1, TxMade, TxTyped DEF SignRead, Begin
  <1>6. CASE SignCheckBooks(p)
    <2>1. [tx[p] EXCEPT !.pc = "writing"] \in TxType
      BY <1>6, <1>t, TxByOperation DEF SignCheckBooks, TxType
    <2> QED
      BY <1>6, <2>1, TxTyped DEF SignCheckBooks
  <1>7. CASE SignCommit(p)
    <2>1. [recon |-> tx[p].recon, role |-> tx[p].role] \in SignoffType
      BY <1>7, <1>t, TxByOperation DEF SignCommit, SignoffType
    <2> QED
      BY <1>7, <2>1, TxMade, TxTyped DEF SignCommit, Finish
  <1>8. CASE SignInsert(p)
    <2>1. [tx[p] EXCEPT !.pc = "locking"] \in TxType
      BY <1>8, <1>t, TxByOperation DEF SignInsert, TxType
    <2> QED
      BY <1>8, <2>1, TxTyped DEF SignInsert
  <1>9. CASE CloseLocked(p)
    <2>1. /\ tx[p].recon \in Nat /\ tx[p].role \in RequiredRoles
          /\ {a \in alerts : a[2] = recons[tx[p].recon].month} \in SUBSET (AlertKinds \X Months)
      BY <1>9, <1>t, TxByOperation DEF CloseLocked
    <2> QED
      BY <1>9, <2>1, TxMade, TxTyped DEF CloseLocked
  <1>10. CASE SignAndClose(p)
    <2>1. tx[p].recon \in Nat /\ tx[p].role \in RequiredRoles /\ tx[p].recon \in DOMAIN recons
      BY <1>10, <1>t, TxByOperation DEF SignAndClose, SignsWhatIsThere
    <2>2. recons[tx[p].recon].month \in Months
      <3>1. recons[tx[p].recon] \in ReconType
        BY <2>1
      <3> QED
        BY <3>1 DEF ReconType
    <2>3. /\ [recon |-> tx[p].recon, role |-> tx[p].role] \in SignoffType
          /\ [month |-> recons[tx[p].recon].month, recon |-> tx[p].recon] \in CloseType
      BY <2>1, <2>2 DEF SignoffType, CloseType
    <2> QED
      BY <1>10, <2>3, TxMade, TxTyped DEF SignAndClose, Finish
  <1>11. ASSUME NEW m \in Months, PostPlan(p, m)
         PROVE  TypeOK'
    BY <1>11, TxMade, TxTyped DEF PostPlan, Begin
  <1>12. CASE PostEnter(p)
    <2>1. [tx[p] EXCEPT !.pc = "entered"] \in TxType
      BY <1>12, <1>t, TxByOperation DEF PostEnter, TxType
    <2> QED
      BY <1>12, <2>1, TxTyped DEF PostEnter
  <1>13. CASE PostCommit(p)
    BY <1>13, <1>t, TxByOperation, TxMade, TxTyped DEF PostCommit, Finish
  <1>14. ASSUME NEW m \in Months, OverdueRead(p, m)
         PROVE  TypeOK'
    BY <1>14, TxMade, TxTyped DEF OverdueRead, Begin
  <1>15. CASE OverdueCommit(p)
    <2>1. <<"overdue", tx[p].month>> \in AlertKinds \X Months
      BY <1>15, <1>t, TxByOperation DEF OverdueCommit, AlertKinds
    <2> QED
      BY <1>15, <2>1, TxMade, TxTyped DEF OverdueCommit, Finish
  <1>16. CASE Rollback(p)
    BY <1>16, TxMade, TxTyped DEF Rollback, Finish
  <1> QED
    BY <1>1, <1>2, <1>3, <1>4, <1>5, <1>6, <1>7, <1>8, <1>9, <1>10, <1>11, <1>12, <1>13,
       <1>14, <1>15, <1>16 DEF Step

-----------------------------------------------------------------------------
(* What one step can do to the tables and the transactions.                *)

\* Only the transaction of the step changes.
LEMMA OthersKeepTheirTransactions ==
    ASSUME TypeOK, NEW p \in Staff, Step(p)
    PROVE  /\ \A q \in Staff \ {p} : tx'[q] = tx[q]
           /\ DOMAIN tx' = Staff
  BY DEF TypeOK, Step, ImportRead, ImportCommit, PrepareRead, PrepareCommit, SignRead,
         SignCheckBooks, SignCommit, SignInsert, CloseLocked, SignAndClose, PostPlan, PostEnter,
         PostCommit, OverdueRead, OverdueCommit, Rollback, Begin, Finish

\* Reconciliations are appended, sign-offs added.
LEMMA RowsStay ==
    ASSUME TypeOK, NEW p \in Staff, Step(p)
    PROVE  /\ \A r \in DOMAIN recons : r \in DOMAIN recons' /\ recons'[r] = recons[r]
           /\ signoffs \subseteq signoffs'
  <1>1. CASE PrepareCommit(p)
    BY <1>1 DEF TypeOK, PrepareCommit
  <1>2. CASE ~PrepareCommit(p)
    <2>1. recons' = recons /\ signoffs \subseteq signoffs'
      BY <1>2 DEF Step, ImportRead, ImportCommit, PrepareRead, SignRead,
         SignCheckBooks, SignCommit, SignInsert, CloseLocked, SignAndClose, PostPlan, PostEnter,
         PostCommit, OverdueRead, OverdueCommit, Rollback
    <2> QED
      BY <2>1
  <1> QED
    BY <1>1, <1>2

\* Roles that signed a reconciliation have signed it for good.
LEMMA SignedForGood ==
    ASSUME TypeOK, NEW p \in Staff, Step(p), NEW r
    PROVE  RolesSigned(r) \subseteq RolesSigned(r)'
  BY RowsStay DEF RolesSigned

\* A month is closed by SignAndClose alone, an entry posted by PostCommit alone.
LEMMA WhoClosesAndPosts ==
    ASSUME NEW p \in Staff, Step(p)
    PROVE  /\ SignAndClose(p) \/ closes' = closes
           /\ PostCommit(p) \/ entries' = entries
  BY DEF Step, ImportRead, ImportCommit, PrepareRead, PrepareCommit, SignRead,
         SignCheckBooks, SignCommit, SignInsert, CloseLocked, SignAndClose, PostPlan, PostEnter,
         PostCommit, OverdueRead, OverdueCommit, Rollback

\* How a transaction comes to be one that signs, closes or has entered.
LEMMA WhoSignsAndEnters ==
    ASSUME TypeOK, NEW p \in Staff, Step(p)
    PROVE  /\ tx'[p].op = "sign" =>
                  \/ \E r \in DOMAIN recons, role \in RequiredRoles : SignRead(p, r, role)
                  \/ SignCheckBooks(p)
                  \/ SignInsert(p)
           /\ tx'[p].op = "close" => CloseLocked(p)
           /\ tx'[p].op = "post" /\ tx'[p].pc = "entered" => PostEnter(p)
  <1>1. ASSUME Finish(p) PROVE tx'[p].op = "idle"
    BY <1>1 DEF Finish, Idle, TypeOK
  <1>2. ASSUME ImportCommit(p) \/ PrepareCommit(p) \/ SignCommit(p) \/ SignAndClose(p)
                   \/ PostCommit(p) \/ OverdueCommit(p) \/ Rollback(p)
        PROVE  tx'[p].op = "idle"
    BY <1>1, <1>2 DEF ImportCommit, PrepareCommit, SignCommit, SignAndClose, PostCommit,
                      OverdueCommit, Rollback
  <1>3. ASSUME NEW m \in Months, NEW s \in {0} \cup DOMAIN statements, ImportRead(p, m, s)
        PROVE  tx'[p].op = "import"
    BY <1>3 DEF ImportRead, Begin, TypeOK
  <1>4. ASSUME NEW m \in Months, NEW b \in BOOLEAN, PrepareRead(p, m, b)
        PROVE  tx'[p].op = "prepare"
    BY <1>4 DEF PrepareRead, Begin, TypeOK
  <1>5. ASSUME NEW m \in Months, PostPlan(p, m)
        PROVE  tx'[p].op = "post" /\ tx'[p].pc = "planned"
    BY <1>5 DEF PostPlan, Begin, TypeOK
  <1>6. ASSUME NEW m \in Months, OverdueRead(p, m)
        PROVE  tx'[p].op = "overdue"
    BY <1>6 DEF OverdueRead, Begin, TypeOK
  <1>7. ASSUME NEW r \in DOMAIN recons, NEW role \in RequiredRoles, SignRead(p, r, role)
        PROVE  tx'[p].op = "sign"
    BY <1>7 DEF SignRead, Begin, TypeOK
  <1>8. ASSUME SignCheckBooks(p) \/ SignInsert(p)
        PROVE  tx'[p].op = "sign"
    <2>1. tx[p] \in TxType /\ tx[p].op = "sign"
      BY <1>8 DEF TypeOK, SignCheckBooks, SignInsert
    <2> QED
      BY <1>8, <2>1, TxByOperation DEF SignCheckBooks, SignInsert, TypeOK
  <1>9. ASSUME CloseLocked(p)
        PROVE  tx'[p].op = "close"
    BY <1>9 DEF CloseLocked, TypeOK
  <1>10. ASSUME PostEnter(p)
         PROVE  tx'[p].op = "post"
    <2>1. tx[p] \in TxType /\ tx[p].op = "post"
      BY <1>10 DEF TypeOK, PostEnter
    <2> QED
      BY <1>10, <2>1, TxByOperation DEF PostEnter, TypeOK
  <1> QED
    BY <1>2, <1>3, <1>4, <1>5, <1>6, <1>7, <1>8, <1>9, <1>10 DEF Step

-----------------------------------------------------------------------------
(* Closing on a fully signed reconciliation.                               *)

\* A transaction that is about to close a month completes the required set.
CompletesTheSet(p) ==
    \/ tx[p].op = "sign" /\ (tx[p].closing \/ tx[p].pc \in {"checking", "locking"})
    \/ tx[p].op = "close"
    => Completes(tx[p].recon, tx[p].role)

ClosesNameRecons == \A c \in closes : c.recon \in DOMAIN recons

\* The inductive invariant: roles that signed stay, so a set found complete by
\* a read is complete at the commit, whatever committed in between.
SignedInv ==
    /\ TypeOK
    /\ \A p \in Staff : SignsWhatIsThere(p) /\ CompletesTheSet(p)
    /\ ClosesNameRecons
    /\ ClosesFullySigned

\* What a signing transaction names is there, and completes the set if it is to close.
LEMMA StepSigns ==
    ASSUME SignedInv, NEW p \in Staff, Step(p), NEW q \in Staff
    PROVE  (SignsWhatIsThere(q) /\ CompletesTheSet(q))'
  <1> USE DEF SignedInv
  <1> DEFINE Unmoved == /\ recons' = recons /\ signoffs' = signoffs
                        /\ tx'[p].recon = tx[p].recon /\ tx'[p].role = tx[p].role
  <1>1. CASE q # p
    <2>1. tx'[q] = tx[q]
      BY <1>1, OthersKeepTheirTransactions
    <2> QED
      BY <2>1, RowsStay DEF SignsWhatIsThere, CompletesTheSet, Completes, RolesSigned
  <1>2. ASSUME NEW r \in DOMAIN recons, NEW role \in RequiredRoles, SignRead(p, r, role)
        PROVE  (SignsWhatIsThere(p) /\ CompletesTheSet(p))'
    <2>1. tx'[p] = [op |-> "sign", pc |-> IF Completes(r, role) THEN "checking" ELSE "writing",
                    recon |-> r, role |-> role, closing |-> Completes(r, role)]
      BY <1>2 DEF SignRead, Begin, TypeOK
    <2>2. /\ recons' = recons /\ signoffs' = signoffs /\ recons[r].balanced
          /\ tx'[p].op = "sign" /\ tx'[p].recon = r /\ tx'[p].role = role
      BY <1>2, <2>1 DEF SignRead
    <2>3. tx'[p].closing \/ tx'[p].pc \in {"checking", "locking"} => Completes(r, role)
      BY <2>1
    <2> QED
      BY <2>2, <2>3 DEF SignsWhatIsThere, CompletesTheSet, Completes, RolesSigned
  <1>3. ASSUME SignCheckBooks(p) \/ SignInsert(p)
        PROVE  (SignsWhatIsThere(p) /\ CompletesTheSet(p))'
    <2>1. /\ tx[p] \in TxType /\ tx[p].op = "sign"
          /\ tx[p].pc = "checking" \/ tx[p].closing
      BY <1>3 DEF TypeOK, SignCheckBooks, SignInsert
    <2>2. tx'[p].op = "sign" /\ Unmoved
      BY <1>3, <2>1, TxByOperation DEF SignCheckBooks, SignInsert, TypeOK
    <2> QED
      BY <2>1, <2>2 DEF SignsWhatIsThere, CompletesTheSet, Completes, RolesSigned
  <1>4. ASSUME CloseLocked(p)
        PROVE  (SignsWhatIsThere(p) /\ CompletesTheSet(p))'
    <2>1. tx'[p].op = "close" /\ Unmoved /\ tx[p].op = "sign" /\ tx[p].pc = "locking"
      BY <1>4 DEF CloseLocked, TypeOK
    <2> QED
      BY <2>1 DEF SignsWhatIsThere, CompletesTheSet, Completes, RolesSigned
  <1>5. CASE tx'[p].op \notin {"sign", "close"}
    BY <1>1, <1>5 DEF SignsWhatIsThere, CompletesTheSet
  <1> QED
    BY <1>1, <1>2, <1>3, <1>4, <1>5, WhoSignsAndEnters

\* What a month was closed on stays as it is, and a new close is as required.
LEMMA StepCloses ==
    ASSUME SignedInv, NEW p \in Staff, Step(p)
    PROVE  ClosesNameRecons' /\ ClosesFullySigned'
  <1> USE DEF SignedInv
  <1>1. ASSUME NEW c \in closes
        PROVE  /\ c.recon \in DOMAIN recons'
               /\ recons'[c.recon].balanced /\ recons'[c.recon].month = c.month
               /\ RequiredRoles \subseteq RolesSigned(c.recon)'
    <2>1. c.recon \in DOMAIN recons' /\ recons'[c.recon] = recons[c.recon]
      BY RowsStay DEF ClosesNameRecons
    <2>2. RolesSigned(c.recon) \subseteq RolesSigned(c.recon)'
      BY SignedForGood
    <2> QED
      BY <2>1, <2>2 DEF ClosesFullySigned
  <1>2. CASE SignAndClose(p)
    <2> PICK r, role : r = tx[p].recon /\ role = tx[p].role
      OBVIOUS
    <2> DEFINE n == [month |-> recons[r].month, recon |-> r]
    <2>1. /\ closes' = closes \cup {n} /\ recons' = recons
          /\ signoffs' = signoffs \cup {[recon |-> r, role |-> role]}
          /\ tx[p].op = "close"
      BY <1>2 DEF SignAndClose
    <2>2. r \in DOMAIN recons /\ recons[r].balanced /\ Completes(r, role)
      BY <2>1 DEF SignsWhatIsThere, CompletesTheSet
    <2>3. RolesSigned(r) \cup {role} \subseteq RolesSigned(r)'
      <3> DEFINE s == [recon |-> r, role |-> role]
      <3>1. s \in signoffs' /\ s.recon = r /\ s.role = role
        BY <2>1
      <3>2. role \in RolesSigned(r)'
        BY <3>1 DEF RolesSigned
      <3> QED
        BY <3>2, SignedForGood
    <2>4. RequiredRoles \subseteq RolesSigned(r)'
      BY <2>2, <2>3 DEF Completes
    <2> QED
      BY <1>1, <2>1, <2>2, <2>4 DEF ClosesNameRecons, ClosesFullySigned
  <1>3. CASE closes' = closes
    BY <1>1, <1>3 DEF ClosesNameRecons, ClosesFullySigned
  <1> QED
    BY <1>2, <1>3, WhoClosesAndPosts

\* The invariant holds of every behaviour.
THEOREM SigningIsSound == Spec => []SignedInv
  <1>1. Init => SignedInv
    BY TxMade DEF Init, SignedInv, TypeOK, SignsWhatIsThere, CompletesTheSet, ClosesNameRecons,
           ClosesFullySigned, Idle
  <1>2. SignedInv /\ [Next]_vars => SignedInv'
    <2> SUFFICES ASSUME SignedInv, [Next]_vars
                 PROVE  SignedInv'
      OBVIOUS
    <2>1. ASSUME NEW p \in Staff, Step(p)
          PROVE  SignedInv'
      BY <2>1, StepTypeOK, StepSigns, StepCloses DEF SignedInv
    <2>2. CASE UNCHANGED vars
      BY <2>2 DEF vars, SignedInv, TypeOK, SignsWhatIsThere, CompletesTheSet, ClosesNameRecons,
                  ClosesFullySigned, Completes, RolesSigned
    <2> QED
      BY <2>1, <2>2 DEF Next
  <1> QED
    BY <1>1, <1>2, PTL DEF Spec

\* Every variable stays in its type.
THEOREM TypeCorrect == Spec => []TypeOK
  BY SigningIsSound, PTL DEF SignedInv

\* However sign-offs, closes and new reconciliations overlap, a month is closed
\* on a balanced reconciliation of its own that every required role signed.
THEOREM MonthsCloseFullySigned == Spec => []ClosesFullySigned
  BY SigningIsSound, PTL DEF SignedInv

-----------------------------------------------------------------------------
(* The months of the book: TrustClose implements MonthBook.                *)

\* Who holds the row lock of the account's book.
HasBook(p) == \/ tx[p].op = "close"
              \/ tx[p].op = "post" /\ tx[p].pc = "entered"

OneHasTheBook == \A p, q \in Staff : HasBook(p) /\ HasBook(q) => p = q

\* What was read of the closes under the lock still holds.
BookChecked(p) ==
    /\ tx[p].op = "close" => InOrder(recons[tx[p].recon].month)
    /\ tx[p].op = "post" /\ tx[p].pc = "entered" => tx[p].month > LastClosed

\* The inductive invariant: one transaction at a time has the book, from its
\* look at the closes to its commit, so what it saw of them is still true.
BookInv ==
    /\ SignedInv
    /\ OneHasTheBook
    /\ \A p \in Staff : BookChecked(p)

\* A transaction that gets the book finds nobody else with it.
LEMMA StepTakesTheBook ==
    ASSUME BookInv, NEW p \in Staff, Step(p)
    PROVE  OneHasTheBook'
  <1> USE DEF BookInv, SignedInv
  <1>1. \A q \in Staff \ {p} : HasBook(q)' <=> HasBook(q)
    BY OthersKeepTheirTransactions DEF HasBook
  <1>2. HasBook(p)' => CloseLocked(p) \/ PostEnter(p)
    BY WhoSignsAndEnters DEF HasBook
  <1>3. CloseLocked(p) \/ PostEnter(p) => \A q \in Staff : ~HasBook(q)
    BY DEF CloseLocked, PostEnter, EntryAccepted, BookLocked, HasBook
  <1> QED
    BY <1>1, <1>2, <1>3 DEF OneHasTheBook

\* What the holder of the book saw stays true until it commits.
LEMMA StepKeepsTheBook ==
    ASSUME BookInv, NEW p \in Staff, Step(p), NEW q \in Staff
    PROVE  BookChecked(q)'
  <1> USE DEF BookInv, SignedInv
  <1>1. CASE q # p /\ HasBook(q)
    <2>1. ~SignAndClose(p)
      BY <1>1 DEF SignAndClose, HasBook, OneHasTheBook
    <2>2. closes' = closes /\ tx'[q] = tx[q]
      BY <1>1, <2>1, WhoClosesAndPosts, OthersKeepTheirTransactions
    <2>3. tx[q].op = "close" => recons'[tx[q].recon] = recons[tx[q].recon]
      BY RowsStay DEF SignsWhatIsThere
    <2> QED
      BY <2>2, <2>3 DEF BookChecked, InOrder, LastClosed
  <1>2. CASE q # p /\ ~HasBook(q)
    <2>1. tx'[q] = tx[q]
      BY <1>2, OthersKeepTheirTransactions
    <2> QED
      BY <1>2, <2>1 DEF BookChecked, HasBook
  <1>3. CASE CloseLocked(p)
    <2>1. /\ tx'[p].op = "close" /\ tx'[p].recon = tx[p].recon
          /\ recons' = recons /\ closes' = closes /\ InOrder(recons[tx[p].recon].month)
      BY <1>3 DEF CloseLocked, TypeOK
    <2>2. BookChecked(p)'
      BY <2>1 DEF BookChecked, InOrder, LastClosed
    <2> QED
      BY <1>1, <1>2, <2>2
  <1>4. CASE PostEnter(p)
    <2>1. /\ tx[p] \in TxType /\ tx[p].op = "post"
          /\ closes' = closes /\ tx[p].month > LastClosed
      BY <1>4 DEF PostEnter, EntryAccepted, TypeOK
    <2>2. tx'[p].op = "post" /\ tx'[p].month = tx[p].month
      BY <1>4, <2>1, TxByOperation DEF PostEnter, TypeOK
    <2>3. BookChecked(p)'
      BY <2>1, <2>2 DEF BookChecked, LastClosed
    <2> QED
      BY <1>1, <1>2, <2>3
  <1>5. CASE q = p /\ ~CloseLocked(p) /\ ~PostEnter(p)
    BY <1>5, WhoSignsAndEnters DEF BookChecked
  <1> QED
    BY <1>1, <1>2, <1>3, <1>4, <1>5

\* The invariant of the book holds of every behaviour.
THEOREM BookIsSound == Spec => []BookInv
  <1>1. Init /\ SignedInv => BookInv
    BY DEF Init, BookInv, OneHasTheBook, BookChecked, HasBook, Idle
  <1>2. BookInv /\ SignedInv' /\ [Next]_vars => BookInv'
    <2> SUFFICES ASSUME BookInv, SignedInv', [Next]_vars
                 PROVE  BookInv'
      OBVIOUS
    <2>1. ASSUME NEW p \in Staff, Step(p)
          PROVE  BookInv'
      BY <2>1, StepTakesTheBook, StepKeepsTheBook DEF BookInv
    <2>2. CASE UNCHANGED vars
      BY <2>2 DEF vars, BookInv, OneHasTheBook, BookChecked, HasBook, InOrder, LastClosed
    <2> QED
      BY <2>1, <2>2 DEF Next
  <1> QED
    BY <1>1, <1>2, SigningIsSound, PTL DEF Spec

\* A close is a step of the abstract book.
LEMMA CloseIsClose ==
    ASSUME BookInv, NEW p \in Staff, SignAndClose(p)
    PROVE  BOOK!Close
  <1> USE DEF BookInv, SignedInv
  <1> DEFINE m == recons[tx[p].recon].month
             c == [month |-> m, recon |-> tx[p].recon]
  <1>1. closes' = closes \cup {c} /\ entries' = entries /\ InOrder(m) /\ c.month = m
    BY DEF SignAndClose, BookChecked
  <1>2. m > LastClosed /\ (LastClosed > 0 => m = LastClosed + 1)
    BY <1>1 DEF InOrder
  <1>3. m \in Nat
    <2>1. recons[tx[p].recon] \in ReconType
      BY DEF SignAndClose, SignsWhatIsThere, TypeOK
    <2> QED
      BY <2>1 DEF ReconType, Months
  <1>4. ASSUME NEW b \in closes PROVE b.month \in Nat /\ b.month < m
    BY <1>2, <1>3, LastClosedIsLatest DEF TypeOK, CloseType, Months
  <1>5. c \notin closes /\ BOOK!Open(m)
    BY <1>3, <1>4, <1>1 DEF BOOK!Open
  <1>6. closes # {} => \E b \in closes : m = b.month + 1
    BY <1>2, LastClosedIsLatest
  <1> HIDE DEF c, m
  <1> QED
    BY <1>1, <1>5, <1>6 DEF BOOK!Close

\* An entry's commit is a posting of the abstract book.
LEMMA PostIsPost ==
    ASSUME BookInv, NEW p \in Staff, PostCommit(p)
    PROVE  tx[p].month \in Months /\ BOOK!Post(tx[p].month)
  <1> USE DEF BookInv, SignedInv
  <1>1. /\ tx[p].op = "post" /\ tx[p].pc = "entered" /\ tx[p] \in TxType
        /\ entries' = Append(entries, tx[p].month) /\ closes' = closes
    BY DEF PostCommit, TypeOK
  <1>2. tx[p].month \in Months /\ tx[p].month > LastClosed
    BY <1>1, TxByOperation DEF BookChecked
  <1>3. ASSUME NEW c \in closes PROVE c.month < tx[p].month
    <2>1. c.month \in Nat /\ tx[p].month \in Nat /\ LastClosed \in Nat /\ c.month <= LastClosed
      BY <1>2, LastClosedIsLatest DEF TypeOK, CloseType, Months
    <2> QED
      BY <1>2, <2>1
  <1> QED
    BY <1>1, <1>2, <1>3 DEF BOOK!Post, BOOK!Open

\* Whatever the requests on an account do side by side, what becomes of its
\* closes and entries is a behaviour of MonthBook: months close in order, each
\* once, and nothing is posted into a closed one.
THEOREM CloseImplementsMonthBook == Spec => ImplementsMonthBook
  <1>1. Init => BOOK!Init
    BY DEF Init, BOOK!Init
  <1>2. BookInv /\ [Next]_vars => [BOOK!Next]_(BOOK!vars)
    <2> SUFFICES ASSUME BookInv, [Next]_vars, ~UNCHANGED <<closes, entries>>
                 PROVE  BOOK!Next
      BY DEF BOOK!vars
    <2>1. PICK p \in Staff : Step(p)
      BY DEF Next, vars
    <2>2. CASE SignAndClose(p)
      BY <2>2, CloseIsClose DEF BOOK!Next
    <2>3. CASE PostCommit(p)
      BY <2>3, PostIsPost DEF BOOK!Next
    <2> QED
      BY <2>1, <2>2, <2>3, WhoClosesAndPosts
  <1> QED
    BY <1>1, <1>2, BookIsSound, PTL DEF Spec, ImplementsMonthBook, BOOK!Spec
=============================================================================
