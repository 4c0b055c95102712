---------------------------- MODULE OfficeProofs ----------------------------
(***************************************************************************)
(* The theorems about the records of the firm that people change over one  *)
(* another: the trust ledger, the stages and the closing of a matter, the  *)
(* versions of a setup, the letter to a declined prospect, the calendar,   *)
(* a court's email, the documents a matter needs, the rights, the party    *)
(* index and the months reconciled with the bank; and with them what       *)
(* MCOffice lists, for any people, records and bounds.                     *)
(***************************************************************************)
EXTENDS MCOffice, CommonLemmas

-----------------------------------------------------------------------------
(* The trust ledger.                                                       *)

\* The row that Enter writes.
RowOf(kind, date, lines, net, reverses) ==
    [kind |-> kind, date |-> date, lines |-> lines, net |-> net,
     reverses |-> reverses]

\* Entering a well-formed row keeps every variable in its type.
LEMMA EnterTypeOK ==
    ASSUME TypeOK,
           NEW kind \in Kinds, NEW date \in Days, NEW lines \in [Ledgers -> Int],
           NEW net \in Int, NEW reverses \in Nat,
           Enter(kind, date, lines, net, reverses)
    PROVE  TypeOK'
  <1>1. RowOf(kind, date, lines, net, reverses) \in EntryType
    BY DEF RowOf, EntryType
  <1>2. journal' \in Seq(EntryType)
    BY <1>1 DEF Enter, TypeOK, RowOf
  <1>3. balance' \in [Ledgers -> Int] /\ book' \in Int
    BY DEF Enter, TypeOK
  <1> QED
    BY <1>2, <1>3 DEF Enter, TypeOK

\* Amounts and their negations are integers.
LEMMA AmountsAreIntegers ==
    \A a \in Amounts : a \in Int /\ -a \in Int /\ a > 0
  BY AmountsAssumption

\* The lines the entries of a client or of the cushion are made of.
LEMMA LinesType ==
    ASSUME NEW a \in Amounts
    PROVE  /\ \A l : OneLine(l, a) \in [Ledgers -> Int]
           /\ \A l : OneLine(l, -a) \in [Ledgers -> Int]
           /\ \A l, m : TransferLines(l, m, a) \in [Ledgers -> Int]
           /\ a \in Int /\ -a \in Int
  BY AmountsAreIntegers DEF OneLine, TransferLines

\* A row of the journal, and its negation, are typed.
LEMMA RowTyped ==
    ASSUME TypeOK, NEW i \in DOMAIN journal
    PROVE  /\ journal[i] \in EntryType /\ i \in Nat
           /\ journal[i].lines \in [Ledgers -> Int]
           /\ [l \in Ledgers |-> -journal[i].lines[l]] \in [Ledgers -> Int]
           /\ -journal[i].net \in Int
  <1>1. journal[i] \in EntryType /\ i \in Nat
    BY DEF TypeOK
  <1>2. journal[i].lines \in [Ledgers -> Int] /\ journal[i].net \in Int
    BY <1>1 DEF EntryType
  <1> QED
    BY <1>1, <1>2

\* An Enter step with a well-formed row.
SomeEnter ==
    \E kind \in Kinds, date \in Days, lines \in [Ledgers -> Int], net \in Int,
       reverses \in Nat : Enter(kind, date, lines, net, reverses)

\* Every entry a request can make is the Enter step of a well-formed row.
LEMMA EntryIsEnter ==
    ASSUME TypeOK, ClientEntry \/ CushionEntry \/ Correction
    PROVE  SomeEnter
  <1>1. CASE ClientEntry
    <2> PICK d \in Days, a \in Amounts, l \in ClientLedgers :
             \/ Deposit(l, a, d)
             \/ \E k \in ClientOutKinds : PayOut(k, l, a, d)
             \/ \E to \in ClientLedgers : Transfer(l, to, a, d)
      BY <1>1 DEF ClientEntry
    <2>1. CASE Deposit(l, a, d)
      BY <2>1, LinesType DEF Deposit, Kinds, SomeEnter
    <2>2. ASSUME NEW k \in ClientOutKinds, PayOut(k, l, a, d) PROVE SomeEnter
      BY <2>2, LinesType DEF PayOut, Kinds, SomeEnter
    <2>3. ASSUME NEW to \in ClientLedgers, Transfer(l, to, a, d) PROVE SomeEnter
      BY <2>3, LinesType DEF Transfer, Kinds, SomeEnter
    <2> QED
      BY <2>1, <2>2, <2>3
  <1>2. CASE CushionEntry
    <2> PICK d \in Days, a \in Amounts :
             CushionDeposit(a, d) \/ \E k \in CushionOutKinds : CushionOut(k, a, d)
      BY <1>2 DEF CushionEntry
    <2>1. CASE CushionDeposit(a, d)
      BY <2>1, LinesType DEF CushionDeposit, Kinds, SomeEnter
    <2>2. ASSUME NEW k \in CushionOutKinds, CushionOut(k, a, d) PROVE SomeEnter
      BY <2>2, LinesType DEF CushionOut, Kinds, SomeEnter
    <2> QED
      BY <2>1, <2>2
  <1>3. CASE Correction
    BY <1>3, RowTyped DEF Correction, Reverse, Kinds, SomeEnter
  <1> QED
    BY <1>1, <1>2, <1>3

\* Entries keep every variable in its type.
LEMMA EntryTypeOK ==
    ASSUME TypeOK, ClientEntry \/ CushionEntry \/ Correction
    PROVE  TypeOK'
  BY EntryIsEnter, EnterTypeOK DEF SomeEnter

\* Holds keep every variable in its type.
LEMMA DisputeTypeOK ==
    ASSUME TypeOK, Dispute
    PROVE  TypeOK'
  <1>1. ASSUME NEW l \in ClientLedgers, NEW a \in Amounts, PlaceHold(l, a)
        PROVE  TypeOK'
    <2>1. [ledger |-> l, amount |-> a] \in HoldType
      BY DEF HoldType
    <2>2. holds' \in Seq(HoldType) /\ DOMAIN holds \subseteq DOMAIN holds'
      BY <1>1, <2>1 DEF PlaceHold, TypeOK
    <2>3. held' \in [Ledgers -> Int]
      BY <1>1, AmountsAssumption DEF PlaceHold, MoveHeld, TypeOK
    <2> QED
      BY <1>1, <2>2, <2>3 DEF PlaceHold, TypeOK
  <1>2. ASSUME NEW h \in DOMAIN holds, ReleaseHold(h)
        PROVE  TypeOK'
    <2>1. holds[h] \in HoldType
      BY DEF TypeOK
    <2>2. holds[h].amount \in Amounts /\ holds[h].ledger \in Ledgers
      BY <2>1 DEF HoldType, Ledgers
    <2>3. -holds[h].amount \in Int
      BY <2>2, AmountsAreIntegers
    <2>4. held' \in [Ledgers -> Int]
      BY <1>2, <2>2, <2>3 DEF ReleaseHold, MoveHeld, TypeOK
    <2> QED
      BY <1>2, <2>4 DEF ReleaseHold, TypeOK
  <1> QED
    BY <1>1, <1>2 DEF Dispute

\* So do the surroundings.
LEMMA SurroundingsTypeOK ==
    ASSUME TypeOK, Surroundings
    PROVE  TypeOK'
  <1>1. ASSUME NEW l \in Ledgers, OpenLedger(l) PROVE TypeOK'
    BY <1>1 DEF OpenLedger, TypeOK
  <1>2. ASSUME NEW c \in Caps, ChangeCap(c) PROVE TypeOK'
    BY <1>2, AmountsAssumption DEF ChangeCap, TypeOK
  <1>3. CASE ReviewCushionRule
    BY <1>3 DEF ReviewCushionRule, TypeOK
  <1>4. ASSUME NEW d \in Days, CloseMonth(d) PROVE TypeOK'
    BY <1>4, BoundsAssumption DEF CloseMonth, TypeOK, Days
  <1>5. CASE NextDay
    BY <1>5 DEF NextDay, TypeOK
  <1> QED
    BY <1>1, <1>2, <1>3, <1>4, <1>5 DEF Surroundings

\* The state of the account stays well typed: balances and held amounts are
\* integers, every journal row and hold is a row of its table, and a release
\* names a hold that exists.
THEOREM TypeCorrect == Spec => []TypeOK
  <1>1. Init => TypeOK
    BY AmountsAssumption DEF Init, TypeOK
  <1>2. TypeOK /\ [Next]_vars => TypeOK'
    <2> SUFFICES ASSUME TypeOK, [Next]_vars PROVE TypeOK'
      OBVIOUS
    <2>1. CASE UNCHANGED vars
      BY <2>1 DEF vars, TypeOK
    <2> QED
      BY <2>1, EntryTypeOK, DisputeTypeOK, SurroundingsTypeOK DEF Next
  <1> QED
    BY <1>1, <1>2, PTL DEF Spec

----------------------------------------------------------------------------
(* I1 and I2: no balance below zero, no disputed money moved.              *)

\* What the lines of an entry must respect for the held money to stay backed.
SparesHeld(lines) == \A l \in Ledgers : lines[l] < 0 => held[l] <= balance[l] + lines[l]

\* An entry whose lines respect the held money leaves it backed.
LEMMA EnterKeepsHeldBacked ==
    ASSUME TypeOK, HeldMoneyBacked,
           NEW kind, NEW date, NEW lines \in [Ledgers -> Int], NEW net, NEW reverses,
           SparesHeld(lines), Enter(kind, date, lines, net, reverses)
    PROVE  HeldMoneyBacked'
  BY DEF TypeOK, HeldMoneyBacked, SparesHeld, Enter

\* checkOutflow makes the lines of every kind respect it.
LEMMA LinesSpareHeld ==
    ASSUME TypeOK, HeldMoneyBacked, NEW a \in Amounts, NEW l \in Ledgers
    PROVE  /\ SparesHeld(OneLine(l, a))
           /\ CanPay(l, a) => SparesHeld(OneLine(l, -a))
           /\ \A m : CanPay(l, a) => SparesHeld(TransferLines(l, m, a))
  BY AmountsAreIntegers
     DEF TypeOK, HeldMoneyBacked, SparesHeld, OneLine, TransferLines, CanPay, Available

\* A reversal checks each line that takes money out.
LEMMA ReversalSparesHeld ==
    ASSUME TypeOK, HeldMoneyBacked, NEW i \in DOMAIN journal, NEW d, Reverse(i, d)
    PROVE  SparesHeld([l \in Ledgers |-> -journal[i].lines[l]])
  <1>1. journal[i].lines \in [Ledgers -> Int]
    BY RowTyped
  <1>2. ASSUME NEW l \in Ledgers, -journal[i].lines[l] < 0
        PROVE  held[l] <= balance[l] + -journal[i].lines[l]
    <2>1. journal[i].lines[l] \in Int /\ balance[l] \in Int /\ held[l] \in Int
      BY <1>1 DEF TypeOK
    <2>2. CanPay(l, journal[i].lines[l])
      BY <1>2, <2>1 DEF Reverse
    <2> QED
      BY <2>1, <2>2 DEF CanPay, Available
  <1> QED
    BY <1>2 DEF SparesHeld

\* Entries of every kind.
LEMMA EntryKeepsHeldBacked ==
    ASSUME TypeOK, HeldMoneyBacked, ClientEntry \/ CushionEntry \/ Correction
    PROVE  HeldMoneyBacked'
  <1>1. CASE ClientEntry
    <2> PICK d \in Days, a \in Amounts, l \in ClientLedgers :
             \/ Deposit(l, a, d)
             \/ \E k \in ClientOutKinds : PayOut(k, l, a, d)
             \/ \E to \in ClientLedgers : Transfer(l, to, a, d)
      BY <1>1 DEF ClientEntry
    <2> l \in Ledgers
      BY DEF Ledgers
    <2>1. CASE Deposit(l, a, d)
      BY <2>1, LinesType, LinesSpareHeld, EnterKeepsHeldBacked DEF Deposit
    <2>2. ASSUME NEW k \in ClientOutKinds, PayOut(k, l, a, d) PROVE HeldMoneyBacked'
      BY <2>2, LinesType, LinesSpareHeld, EnterKeepsHeldBacked DEF PayOut
    <2>3. ASSUME NEW to \in ClientLedgers, Transfer(l, to, a, d) PROVE HeldMoneyBacked'
      BY <2>3, LinesType, LinesSpareHeld, EnterKeepsHeldBacked DEF Transfer
    <2> QED
      BY <2>1, <2>2, <2>3
  <1>2. CASE CushionEntry
    <2> PICK d \in Days, a \in Amounts :
             CushionDeposit(a, d) \/ \E k \in CushionOutKinds : CushionOut(k, a, d)
      BY <1>2 DEF CushionEntry
    <2> Cushion \in Ledgers
      BY DEF Ledgers
    <2>1. CASE CushionDeposit(a, d)
      BY <2>1, LinesType, LinesSpareHeld, EnterKeepsHeldBacked DEF CushionDeposit
    <2>2. ASSUME NEW k \in CushionOutKinds, CushionOut(k, a, d) PROVE HeldMoneyBacked'
      BY <2>2, LinesType, LinesSpareHeld, EnterKeepsHeldBacked DEF CushionOut
    <2> QED
      BY <2>1, <2>2
  <1>3. CASE Correction
    <2> PICK d \in Days, i \in DOMAIN journal : Reverse(i, d)
      BY <1>3 DEF Correction
    <2> QED
      BY RowTyped, ReversalSparesHeld, EnterKeepsHeldBacked DEF Reverse
  <1> QED
    BY <1>1, <1>2, <1>3

\* Placing and releasing a hold keep what is held within the balance.
LEMMA DisputeKeepsHeldBacked ==
    ASSUME TypeOK, HeldMoneyBacked, Dispute
    PROVE  HeldMoneyBacked'
  <1>1. ASSUME NEW l, NEW delta, MoveHeld(l, delta), balance' = balance
        PROVE  HeldMoneyBacked'
    BY <1>1 DEF MoveHeld, HeldMoneyBacked, TypeOK
  <1> QED
    BY <1>1 DEF Dispute, PlaceHold, ReleaseHold

\* I1 and I2 of ledger.ts, for every set of ledgers and amounts: whatever
\* entries, corrections and holds come in whatever order, no sub-ledger falls
\* below zero or below its disputed money.
THEOREM HeldMoneyStaysBacked == Spec => []HeldMoneyBacked
  <1>1. Init => HeldMoneyBacked
    BY DEF Init, HeldMoneyBacked
  <1>2. TypeOK /\ HeldMoneyBacked /\ [Next]_vars => HeldMoneyBacked'
    <2> SUFFICES ASSUME TypeOK, HeldMoneyBacked, [Next]_vars PROVE HeldMoneyBacked'
      OBVIOUS
    <2>1. CASE UNCHANGED vars
      BY <2>1 DEF vars, HeldMoneyBacked
    <2>2. CASE Surroundings
      BY <2>2 DEF Surroundings, OpenLedger, ChangeCap, ReviewCushionRule, CloseMonth,
                  NextDay, HeldMoneyBacked
    <2> QED
      BY <2>1, <2>2, EntryKeepsHeldBacked, DisputeKeepsHeldBacked DEF Next
  <1> QED
    BY <1>1, <1>2, TypeCorrect, PTL DEF Spec

----------------------------------------------------------------------------
(* I6: corrections.                                                        *)

\* Only a reversal names a row it undoes.
OnlyReversalsReverse ==
    \A j \in DOMAIN journal : journal[j].kind # "reversal" => journal[j].reverses = 0

ReversalInv == TypeOK /\ OnlyReversalsReverse /\ ReversalsExactAndOnce

\* An entry adds one row at the end and leaves the others as they are.
LEMMA EnterGrowsJournal ==
    ASSUME TypeOK,
           NEW kind \in Kinds, NEW date \in Days, NEW lines \in [Ledgers -> Int],
           NEW net \in Int, NEW reverses \in Nat,
           Enter(kind, date, lines, net, reverses)
    PROVE  /\ Len(journal) \in Nat
           /\ DOMAIN journal = 1 .. Len(journal)
           /\ DOMAIN journal' = 1 .. (Len(journal) + 1)
           /\ \A j \in 1 .. Len(journal) : journal'[j] = journal[j]
           /\ journal'[Len(journal) + 1] = RowOf(kind, date, lines, net, reverses)
  <1>1. RowOf(kind, date, lines, net, reverses) \in EntryType
    BY DEF RowOf, EntryType
  <1> QED
    BY <1>1 DEF Enter, TypeOK, RowOf

\* An entry that is no reversal names no row, so no row is reversed by it.
LEMMA PlainEntryKeepsReversals ==
    ASSUME ReversalInv,
           NEW kind \in Kinds, NEW date \in Days, NEW lines \in [Ledgers -> Int],
           NEW net \in Int, kind # "reversal", Enter(kind, date, lines, net, 0)
    PROVE  OnlyReversalsReverse' /\ ReversalsExactAndOnce'
  <1> DEFINE n == Len(journal)
  <1>1. /\ n \in Nat
        /\ DOMAIN journal = 1 .. n
        /\ DOMAIN journal' = 1 .. (n + 1)
        /\ \A j \in 1 .. n : journal'[j] = journal[j]
        /\ journal'[n + 1] = RowOf(kind, date, lines, net, 0)
    BY EnterGrowsJournal DEF ReversalInv
  <1>2. journal'[n + 1].kind = kind /\ journal'[n + 1].reverses = 0
    BY <1>1 DEF RowOf
  <1>3. OnlyReversalsReverse'
    BY <1>1, <1>2 DEF OnlyReversalsReverse, ReversalInv
  <1>4. ReversalsExactAndOnce'
    BY <1>1, <1>2 DEF ReversalsExactAndOnce, ReversalInv
  <1> QED
    BY <1>3, <1>4

\* A reversal names a row no other row names.
LEMMA ReverseKeepsReversals ==
    ASSUME ReversalInv, NEW d \in Days, NEW i \in DOMAIN journal, Reverse(i, d)
    PROVE  OnlyReversalsReverse' /\ ReversalsExactAndOnce'
  <1> DEFINE n == Len(journal)
             undo == [l \in Ledgers |-> -journal[i].lines[l]]
  <1>1. Enter("reversal", d, undo, -journal[i].net, i)
    BY DEF Reverse
  <1>2. undo \in [Ledgers -> Int] /\ -journal[i].net \in Int /\ i \in Nat
    BY RowTyped DEF ReversalInv
  <1>3. /\ n \in Nat
        /\ DOMAIN journal = 1 .. n
        /\ DOMAIN journal' = 1 .. (n + 1)
        /\ \A j \in 1 .. n : journal'[j] = journal[j]
        /\ journal'[n + 1] = RowOf("reversal", d, undo, -journal[i].net, i)
    <2> HIDE DEF undo
    <2> QED
      BY <1>1, <1>2, EnterGrowsJournal DEF Kinds, ReversalInv
  <1>4. /\ journal'[n + 1].kind = "reversal" /\ journal'[n + 1].reverses = i
        /\ journal'[n + 1].lines = undo /\ journal'[n + 1].net = -journal[i].net
    BY <1>3 DEF RowOf
  <1>5. /\ i \in 1 .. n /\ journal[i].kind # "reversal"
        /\ \A j \in 1 .. n : journal[j].reverses # i
    BY <1>3 DEF Reverse
  <1>6. OnlyReversalsReverse'
    BY <1>3, <1>4 DEF OnlyReversalsReverse, ReversalInv
  <1>7. ReversalsExactAndOnce'
    <2> SUFFICES ASSUME NEW j \in 1 .. (n + 1), journal'[j].kind = "reversal"
                 PROVE  LET k == journal'[j].reverses
                        IN  /\ k \in 1 .. (j - 1)
                            /\ journal'[k].kind # "reversal"
                            /\ \A l \in Ledgers : journal'[j].lines[l] = -journal'[k].lines[l]
                            /\ journal'[j].net = -journal'[k].net
                            /\ \A m \in 1 .. (n + 1) : journal'[m].reverses = k => m = j
      BY <1>3 DEF ReversalsExactAndOnce
    <2>1. CASE j = n + 1
      <3>1. journal'[i] = journal[i] /\ i \in 1 .. (j - 1)
        BY <2>1, <1>3, <1>5
      <3>2. \A l \in Ledgers : journal'[j].lines[l] = -journal'[i].lines[l]
        BY <2>1, <3>1, <1>4
      <3>3. \A m \in 1 .. (n + 1) : journal'[m].reverses = i => m = j
        BY <2>1, <1>3, <1>5
      <3>4. journal'[j].reverses = i /\ journal'[j].net = -journal'[i].net
        BY <2>1, <3>1, <1>4
      <3>5. journal'[i].kind # "reversal"
        BY <3>1, <1>5
      <3> HIDE DEF undo, n
      <3> QED
        BY <3>1, <3>2, <3>3, <3>4, <3>5
    <2>2. CASE j \in 1 .. n
      <3> DEFINE k == journal[j].reverses
      <3>1. journal'[j] = journal[j] /\ j \in DOMAIN journal
        BY <2>2, <1>3
      <3>2. /\ k \in 1 .. (j - 1)
            /\ journal[k].kind # "reversal"
            /\ \A l \in Ledgers : journal[j].lines[l] = -journal[k].lines[l]
            /\ journal[j].net = -journal[k].net
            /\ \A m \in DOMAIN journal : journal[m].reverses = k => m = j
        BY <3>1 DEF ReversalsExactAndOnce, ReversalInv
      <3>3. journal'[k] = journal[k] /\ k # i
        BY <2>2, <3>1, <3>2, <1>3, <1>5
      <3>4. \A m \in 1 .. (n + 1) : journal'[m].reverses = k => m = j
        BY <3>2, <3>3, <1>3, <1>4
      <3>5. journal'[j].reverses = k
        BY <3>1
      <3> HIDE DEF k
      <3> QED
        BY <3>1, <3>2, <3>3, <3>4, <3>5
    <2> QED
      BY <1>3, <2>1, <2>2
  <1> QED
    BY <1>6, <1>7

\* I6 of ledger.ts, for every journal: a correction is the exact negation of
\* an earlier entry, no entry is corrected twice, no correction is corrected.
THEOREM ReversalsStayExact == Spec => []ReversalsExactAndOnce
  <1>1. Init => OnlyReversalsReverse /\ ReversalsExactAndOnce
    BY DEF Init, OnlyReversalsReverse, ReversalsExactAndOnce
  <1>2. ReversalInv /\ [Next]_vars => OnlyReversalsReverse' /\ ReversalsExactAndOnce'
    <2> SUFFICES ASSUME ReversalInv, [Next]_vars
                 PROVE  OnlyReversalsReverse' /\ ReversalsExactAndOnce'
      OBVIOUS
    <2>1. ASSUME journal' = journal PROVE OnlyReversalsReverse' /\ ReversalsExactAndOnce'
      BY <2>1 DEF ReversalInv, OnlyReversalsReverse, ReversalsExactAndOnce
    <2>2. CASE ClientEntry
      <3> PICK d \in Days, a \in Amounts, l \in ClientLedgers :
               \/ Deposit(l, a, d)
               \/ \E k \in ClientOutKinds : PayOut(k, l, a, d)
               \/ \E to \in ClientLedgers : Transfer(l, to, a, d)
        BY <2>2 DEF ClientEntry
      <3>1. CASE Deposit(l, a, d)
        BY <3>1, LinesType, PlainEntryKeepsReversals DEF Deposit, Kinds
      <3>2. ASSUME NEW k \in ClientOutKinds, PayOut(k, l, a, d)
            PROVE  OnlyReversalsReverse' /\ ReversalsExactAndOnce'
        BY <3>2, LinesType, KindsAssumption, PlainEntryKeepsReversals DEF PayOut, Kinds
      <3>3. ASSUME NEW to \in ClientLedgers, Transfer(l, to, a, d)
            PROVE  OnlyReversalsReverse' /\ ReversalsExactAndOnce'
        BY <3>3, LinesType, PlainEntryKeepsReversals DEF Transfer, Kinds
      <3> QED
        BY <3>1, <3>2, <3>3
    <2>3. CASE CushionEntry
      <3> PICK d \in Days, a \in Amounts :
               CushionDeposit(a, d) \/ \E k \in CushionOutKinds : CushionOut(k, a, d)
        BY <2>3 DEF CushionEntry
      <3>1. CASE CushionDeposit(a, d)
        BY <3>1, LinesType, PlainEntryKeepsReversals DEF CushionDeposit, Kinds
      <3>2. ASSUME NEW k \in CushionOutKinds, CushionOut(k, a, d)
            PROVE  OnlyReversalsReverse' /\ ReversalsExactAndOnce'
        BY <3>2, LinesType, KindsAssumption, PlainEntryKeepsReversals DEF CushionOut, Kinds
      <3> QED
        BY <3>1, <3>2
    <2>4. CASE Correction
      BY <2>4, ReverseKeepsReversals DEF Correction
    <2>5. CASE Dispute \/ Surroundings \/ UNCHANGED vars
      BY <2>5, <2>1 DEF Dispute, PlaceHold, ReleaseHold, Surroundings, OpenLedger,
                        ChangeCap, ReviewCushionRule, CloseMonth, NextDay, vars
    <2> QED
      BY <2>2, <2>3, <2>4, <2>5 DEF Next
  <1> QED
    BY <1>1, <1>2, TypeCorrect, PTL DEF Spec, ReversalInv

----------------------------------------------------------------------------
(* I7: closed months.                                                      *)

\* An entry leaves the rows dated through the closed month as they are.
LEMMA EnterKeepsClosedRows ==
    ASSUME TypeOK, SomeEnter
    PROVE  RowsThrough(journal', closedThrough) = RowsThrough(journal, closedThrough)
  <1> PICK kind \in Kinds, date \in Days, lines \in [Ledgers -> Int], net \in Int,
           reverses \in Nat : Enter(kind, date, lines, net, reverses)
    BY DEF SomeEnter
  <1> DEFINE n == Len(journal)
             old(rows) == {k \in DOMAIN rows : rows[k].date <= closedThrough}
  <1>1. /\ n \in Nat
        /\ DOMAIN journal = 1 .. n
        /\ DOMAIN journal' = 1 .. (n + 1)
        /\ \A j \in 1 .. n : journal'[j] = journal[j]
        /\ journal'[n + 1] = RowOf(kind, date, lines, net, reverses)
    BY EnterGrowsJournal
  <1>2. ~(journal'[n + 1].date <= closedThrough)
    <2>1. journal'[n + 1].date = date
      BY <1>1 DEF RowOf
    <2>2. date > closedThrough /\ date \in Int /\ closedThrough \in Int
      BY DEF Enter, OpenPeriod, Days, TypeOK
    <2> QED
      BY <2>1, <2>2
  <1>3. old(journal') = old(journal)
    BY <1>1, <1>2
  <1>4. \A k \in old(journal) : journal'[k] = journal[k]
    BY <1>1
  <1> QED
    BY <1>3, <1>4 DEF RowsThrough

\* I7 of ledger.ts, for every journal and every calendar: no entry, correction
\* or hold changes the books through the end of a closed month.
THEOREM ClosedBooksStayFrozen == Spec => ClosedBooksFrozen
  <1>1. TypeOK /\ [Next]_vars =>
            [RowsThrough(journal', closedThrough) = RowsThrough(journal, closedThrough)]_vars
    <2> SUFFICES ASSUME TypeOK, Next
                 PROVE  RowsThrough(journal', closedThrough)
                            = RowsThrough(journal, closedThrough)
      OBVIOUS
    <2>1. CASE ClientEntry \/ CushionEntry \/ Correction
      BY <2>1, EntryIsEnter, EnterKeepsClosedRows
    <2>2. CASE Dispute \/ Surroundings
      <3>1. journal' = journal
        BY <2>2 DEF Dispute, PlaceHold, ReleaseHold, Surroundings, OpenLedger, ChangeCap,
                    ReviewCushionRule, CloseMonth, NextDay
      <3> QED
        BY <3>1
    <2> QED
      BY <2>1, <2>2 DEF Next
  <1> QED
    BY <1>1, TypeCorrect, PTL DEF Spec, ClosedBooksFrozen

----------------------------------------------------------------------------
(* I3 and I4: the account's balance, and whose money an entry moves.       *)

Sum(f, S) == SumFunctionOnSet(f, S)

Mine(c) == {l \in ClientLedgers : ClientOf[l] = c}
Names(lines, c) == \E l \in Mine(c) : lines[l] # 0

\* A row moves the book by what its lines come to, and a client it names by as
\* much: a row of two lines is a transfer between ledgers of one client.
RowAddsUp(lines, net) ==
    /\ Sum(lines, Ledgers) = net
    /\ \A c \in Clients : Sum(lines, Mine(c)) = IF Names(lines, c) THEN net ELSE 0

RowsAddUp == \A i \in DOMAIN journal : RowAddsUp(journal[i].lines, journal[i].net)

SumInv == TypeOK /\ RowsAddUp /\ BookIsSumOfLedgers /\ ClientMoneyIsItsOwn

LEMMA LedgersAreFinite ==
    IsFiniteSet(Ledgers) /\ \A c : Mine(c) \subseteq Ledgers /\ IsFiniteSet(Mine(c))
  <1>1. IsFiniteSet(Ledgers)
    BY ClientsAssumption, FS_AddElement DEF Ledgers
  <1>2. \A c : Mine(c) \subseteq Ledgers
    BY DEF Mine, Ledgers
  <1> QED
    BY <1>1, <1>2, FS_Subset

\* One line adds its amount to a set of ledgers that has its ledger.
LEMMA OneLineSum ==
    ASSUME NEW l \in Ledgers, NEW a \in Int, NEW S, S \subseteq Ledgers
    PROVE  Sum(OneLine(l, a), S) = IF l \in S THEN a ELSE 0
  <1> DEFINE f == OneLine(l, a)
  <1>1. IsFiniteSet(S)
    BY LedgersAreFinite, FS_Subset
  <1>2. \A x \in S : f[x] = IF x = l THEN a ELSE 0
    BY DEF OneLine
  <1> HIDE DEF f
  <1>3. \A x \in S : f[x] \in Int
    BY <1>2
  <1>4. Sum(f, {}) = 0
    BY SumStep, FS_EmptySet DEF Sum
  <1>5. CASE l \notin S
    <2>1. \A x \in S \ {} : f[x] = 0
      BY <1>2, <1>5
    <2>2. Sum(f, S) = Sum(f, {})
      BY <1>1, <1>3, <2>1, SumRestrict DEF Sum
    <2> QED
      BY <1>4, <1>5, <2>2 DEF f
  <1>6. CASE l \in S
    <2>1. Sum(f, S \ {l}) = Sum(f, {})
      <3>1. IsFiniteSet(S \ {l})
        BY <1>1, FS_Subset
      <3>2. \A x \in (S \ {l}) \ {} : f[x] = 0
        BY <1>2
      <3> QED
        BY <1>3, <3>1, <3>2, SumRestrict DEF Sum
    <2>2. Sum(f, S) = f[l] + Sum(f, S \ {l})
      BY <1>1, <1>3, <1>6, SumRemove DEF Sum
    <2> QED
      BY <1>2, <1>4, <1>6, <2>1, <2>2 DEF f
  <1> QED
    BY <1>5, <1>6

\* An entry of one line adds up.
LEMMA OneLineAddsUp ==
    ASSUME NEW l \in Ledgers, NEW a \in Int, a # 0
    PROVE  RowAddsUp(OneLine(l, a), a)
  <1>1. Sum(OneLine(l, a), Ledgers) = a
    BY OneLineSum
  <1>2. ASSUME NEW c \in Clients
        PROVE  Sum(OneLine(l, a), Mine(c)) = IF Names(OneLine(l, a), c) THEN a ELSE 0
    <2>1. Mine(c) \subseteq Ledgers
      BY LedgersAreFinite
    <2>2. Names(OneLine(l, a), c) <=> l \in Mine(c)
      BY <2>1 DEF Names, OneLine
    <2> QED
      BY <2>1, <2>2, OneLineSum
  <1> QED
    BY <1>1, <1>2 DEF RowAddsUp

\* So does a transfer between two ledgers of one client.
LEMMA TransferAddsUp ==
    ASSUME NEW from \in ClientLedgers, NEW to \in ClientLedgers, NEW a \in Int,
           from # to, ClientOf[from] = ClientOf[to]
    PROVE  RowAddsUp(TransferLines(from, to, a), 0)
  <1> DEFINE out == OneLine(from, -a)
             in == OneLine(to, a)
             both == TransferLines(from, to, a)
  <1>1. from \in Ledgers /\ to \in Ledgers /\ -a \in Int
    BY DEF Ledgers
  <1>2. \A x \in Ledgers : out[x] \in Int /\ in[x] \in Int /\ both[x] = out[x] + in[x]
    BY <1>1 DEF OneLine, TransferLines
  <1>3. ASSUME NEW S, S \subseteq Ledgers, from \in S <=> to \in S
        PROVE  Sum(both, S) = 0
    <2>1. Sum(out, S) = (IF from \in S THEN -a ELSE 0)
      BY <1>1, <1>3, OneLineSum
    <2>2. Sum(in, S) = (IF to \in S THEN a ELSE 0)
      BY <1>1, <1>3, OneLineSum
    <2> HIDE DEF out, in, both
    <2>3. IsFiniteSet(S)
      BY <1>3, LedgersAreFinite, FS_Subset
    <2>4. Sum(both, S) = Sum(out, S) + Sum(in, S)
      BY <1>2, <1>3, <2>3, SumAdd DEF Sum
    <2> QED
      BY <1>3, <2>1, <2>2, <2>4
  <1> HIDE DEF both
  <1>4. Sum(both, Ledgers) = 0
    BY <1>1, <1>3
  <1>5. \A c : Sum(both, Mine(c)) = 0
    <2>1. \A c : from \in Mine(c) <=> to \in Mine(c)
      BY DEF Mine
    <2> QED
      BY <1>3, <2>1, LedgersAreFinite
  <1>6. \A c : Sum(both, Mine(c)) = IF Names(both, c) THEN 0 ELSE 0
    BY <1>5
  <1> QED
    BY <1>4, <1>6 DEF RowAddsUp, both

\* And so does the negation of a row that does.
LEMMA NegationAddsUp ==
    ASSUME NEW lines \in [Ledgers -> Int], NEW net \in Int, RowAddsUp(lines, net)
    PROVE  RowAddsUp([l \in Ledgers |-> -lines[l]], -net)
  <1> DEFINE undo == [l \in Ledgers |-> -lines[l]]
             nothing == OneLine(Cushion, 0)
  <1>1. \A x \in Ledgers : /\ lines[x] \in Int /\ undo[x] \in Int /\ undo[x] = -lines[x]
                           /\ nothing[x] = lines[x] + undo[x]
    BY DEF OneLine
  <1>2. ASSUME NEW S, S \subseteq Ledgers
        PROVE  Sum(lines, S) \in Int /\ Sum(undo, S) = -Sum(lines, S)
    <2>1. Sum(nothing, S) = 0
      BY <1>2, OneLineSum DEF Ledgers
    <2> HIDE DEF undo, nothing
    <2>2. IsFiniteSet(S)
      BY <1>2, LedgersAreFinite, FS_Subset
    <2>3. Sum(lines, S) \in Int /\ Sum(undo, S) \in Int
      BY <1>1, <1>2, <2>2, SumIsInteger DEF Sum
    <2>4. Sum(nothing, S) = Sum(lines, S) + Sum(undo, S)
      BY <1>1, <1>2, <2>2, SumAdd DEF Sum
    <2> QED
      BY <2>1, <2>3, <2>4
  <1>3. ASSUME NEW c PROVE Names(undo, c) <=> Names(lines, c)
    <2>1. Mine(c) \subseteq Ledgers
      BY LedgersAreFinite
    <2> HIDE DEF undo
    <2> QED
      BY <1>1, <2>1 DEF Names
  <1> HIDE DEF undo
  <1>4. Sum(undo, Ledgers) = -net
    BY <1>2 DEF RowAddsUp
  <1>5. ASSUME NEW c \in Clients
        PROVE  Sum(undo, Mine(c)) = IF Names(undo, c) THEN -net ELSE 0
    <2>1. Sum(undo, Mine(c)) = -Sum(lines, Mine(c))
      BY <1>2, LedgersAreFinite
    <2> QED
      BY <1>3, <2>1 DEF RowAddsUp
  <1> QED
    BY <1>4, <1>5 DEF RowAddsUp, undo

\* The book and a client's money after an entry that adds up.
LEMMA EnterKeepsSums ==
    ASSUME SumInv,
           NEW kind \in Kinds, NEW date \in Days, NEW lines \in [Ledgers -> Int],
           NEW net \in Int, NEW reverses \in Nat,
           RowAddsUp(lines, net), Enter(kind, date, lines, net, reverses)
    PROVE  RowsAddUp' /\ BookIsSumOfLedgers' /\ ClientMoneyIsItsOwn'
  <1> DEFINE n == Len(journal)
  <1>1. /\ n \in Nat /\ DOMAIN journal = 1 .. n /\ DOMAIN journal' = 1 .. (n + 1)
        /\ \A j \in 1 .. n : journal'[j] = journal[j]
        /\ journal'[n + 1].lines = lines /\ journal'[n + 1].net = net
    <2>1. /\ n \in Nat /\ DOMAIN journal = 1 .. n /\ DOMAIN journal' = 1 .. (n + 1)
          /\ \A j \in 1 .. n : journal'[j] = journal[j]
          /\ journal'[n + 1] = RowOf(kind, date, lines, net, reverses)
      BY EnterGrowsJournal DEF SumInv
    <2> QED
      BY <2>1 DEF RowOf
  <1> HIDE DEF n
  <1>2. ASSUME NEW S, S \subseteq Ledgers
        PROVE  /\ Sum(balance, S) \in Int /\ Sum(lines, S) \in Int
               /\ Sum(balance', S) = Sum(balance, S) + Sum(lines, S)
    <2>1. \A x \in S : /\ balance[x] \in Int /\ lines[x] \in Int
                       /\ balance'[x] = balance[x] + lines[x]
      BY <1>2 DEF SumInv, TypeOK, Enter
    <2>2. IsFiniteSet(S)
      BY <1>2, LedgersAreFinite, FS_Subset
    <2>3. Sum(balance, S) \in Int /\ Sum(lines, S) \in Int
      BY <2>1, <2>2, SumIsInteger DEF Sum
    <2>4. Sum(balance', S) = Sum(balance, S) + Sum(lines, S)
      BY <2>1, <2>2, SumAdd DEF Sum
    <2> QED
      BY <2>3, <2>4
  <1>3. RowsAddUp'
    BY <1>1 DEF RowsAddUp, SumInv
  <1>4. BookIsSumOfLedgers'
    BY <1>2 DEF BookIsSumOfLedgers, SumInv, Enter, RowAddsUp, Sum
  <1>5. ASSUME NEW c \in Clients
        PROVE  Sum(balance', Mine(c)) =
                   Sum([i \in DOMAIN journal' |-> journal'[i].net],
                       {i \in DOMAIN journal' : Names(journal'[i].lines, c)})
    <2> DEFINE f == [i \in DOMAIN journal |-> journal[i].net]
               g == [i \in DOMAIN journal' |-> journal'[i].net]
               old == {i \in DOMAIN journal : Names(journal[i].lines, c)}
               new == {i \in DOMAIN journal' : Names(journal'[i].lines, c)}
    <2>1. \A i \in 1 .. n : f[i] \in Int /\ g[i] = f[i]
      <3>1. ASSUME NEW i \in 1 .. n
            PROVE  journal[i].net \in Int /\ f[i] = journal[i].net /\ g[i] = journal[i].net
        <4>1. i \in DOMAIN journal /\ i \in DOMAIN journal'
          BY <1>1
        <4>2. journal[i] \in EntryType
          BY <4>1, RowTyped DEF SumInv
        <4> QED
          BY <1>1, <4>1, <4>2 DEF EntryType
      <3> QED
        BY <3>1
    <2>2. g[n + 1] = net
      BY <1>1
    <2>3. new = IF Names(lines, c) THEN old \cup {n + 1} ELSE old
      <3>1. \A i \in 1 .. n : i \in new <=> i \in old
        BY <1>1
      <3>2. n + 1 \in new <=> Names(lines, c)
        BY <1>1
      <3>3. new \subseteq (1 .. n) \cup {n + 1} /\ old \subseteq 1 .. n
        BY <1>1
      <3> HIDE DEF new, old
      <3>4. CASE Names(lines, c)
        <4>1. new = old \cup {n + 1}
          BY <1>1, <3>1, <3>2, <3>3, <3>4
        <4> QED
          BY <3>4, <4>1
      <3>5. CASE ~Names(lines, c)
        <4>1. new = old
          BY <1>1, <3>1, <3>2, <3>3, <3>5
        <4> QED
          BY <3>5, <4>1
      <3> QED
        BY <3>4, <3>5
    <2>4. old \subseteq 1 .. n /\ IsFiniteSet(old)
      <3>1. old \subseteq 1 .. n
        BY <1>1
      <3>2. IsFiniteSet(1 .. n)
        <4>1. n \in Int /\ 1 \in Int
          BY <1>1
        <4> QED
          BY <4>1, FS_Interval
      <3> HIDE DEF old
      <3> QED
        BY <3>1, <3>2, FS_Subset
    <2>5. Sum(balance, Mine(c)) = Sum(f, old)
      BY DEF SumInv, ClientMoneyIsItsOwn, Mine, Names, Sum
    <2>6. Sum(lines, Mine(c)) = IF Names(lines, c) THEN net ELSE 0
      BY DEF RowAddsUp
    <2> HIDE DEF f, g, new, old
    <2>7. Sum(g, old) = Sum(f, old) /\ Sum(f, old) \in Int
      <3>1. \A i \in old : f[i] \in Int /\ g[i] = f[i]
        BY <2>1, <2>4
      <3> QED
        BY <2>4, <3>1, SumSame, SumIsInteger DEF Sum
    <2>8. CASE Names(lines, c)
      <3>1. /\ IsFiniteSet(new) /\ \A i \in new : g[i] \in Int
            /\ n + 1 \in new /\ new \ {n + 1} = old
        <4>1. new = old \cup {n + 1}
          BY <2>3, <2>8
        <4>2. n + 1 \notin old
          BY <1>1, <2>4
        <4> QED
          BY <2>1, <2>2, <2>4, <4>1, <4>2, FS_AddElement
      <3>2. Sum(g, new) = net + Sum(g, old)
        BY <2>2, <3>1, SumRemove DEF Sum
      <3>3. Sum(balance', Mine(c)) = Sum(g, new)
        BY <1>2, <2>5, <2>6, <2>7, <2>8, <3>2, LedgersAreFinite
      <3> QED
        BY <3>3 DEF g, new
    <2>9. CASE ~Names(lines, c)
      <3>1. new = old
        BY <2>3, <2>9
      <3>2. Sum(balance', Mine(c)) = Sum(g, new)
        BY <1>2, <2>5, <2>6, <2>7, <2>9, <3>1, LedgersAreFinite
      <3> QED
        BY <3>2 DEF g, new
    <2> QED
      BY <2>8, <2>9
  <1>6. ClientMoneyIsItsOwn'
    BY <1>5 DEF ClientMoneyIsItsOwn, Mine, Names, Sum
  <1> QED
    BY <1>3, <1>4, <1>6

\* Every entry a request can make adds up.
LEMMA EntryKeepsSums ==
    ASSUME SumInv, ClientEntry \/ CushionEntry \/ Correction
    PROVE  RowsAddUp' /\ BookIsSumOfLedgers' /\ ClientMoneyIsItsOwn'
  <1> DEFINE Goal == RowsAddUp' /\ BookIsSumOfLedgers' /\ ClientMoneyIsItsOwn'
  <1> SUFFICES Goal
    OBVIOUS
  <1> HIDE DEF Goal
  <1>0. ASSUME NEW kind \in Kinds, NEW d \in Days, NEW lines \in [Ledgers -> Int],
               NEW net \in Int, NEW i \in Nat,
               RowAddsUp(lines, net), Enter(kind, d, lines, net, i)
        PROVE  Goal
    BY <1>0, EnterKeepsSums DEF Goal
  <1>1. CASE ClientEntry
    <2> PICK d \in Days, a \in Amounts, l \in ClientLedgers :
             \/ Deposit(l, a, d)
             \/ \E k \in ClientOutKinds : PayOut(k, l, a, d)
             \/ \E to \in ClientLedgers : Transfer(l, to, a, d)
      BY <1>1 DEF ClientEntry
    <2>1. l \in Ledgers /\ a \in Int /\ -a \in Int /\ a # 0 /\ -a # 0
      BY AmountsAreIntegers DEF Ledgers
    <2>2. CASE Deposit(l, a, d)
      BY <1>0, <2>1, <2>2, LinesType, OneLineAddsUp DEF Deposit, Kinds
    <2>3. ASSUME NEW k \in ClientOutKinds, PayOut(k, l, a, d) PROVE Goal
      BY <1>0, <2>1, <2>3, LinesType, OneLineAddsUp DEF PayOut, Kinds
    <2>4. ASSUME NEW to \in ClientLedgers, Transfer(l, to, a, d) PROVE Goal
      BY <1>0, <2>1, <2>4, LinesType, TransferAddsUp DEF Transfer, Kinds
    <2> QED
      BY <2>2, <2>3, <2>4
  <1>2. CASE CushionEntry
    <2> PICK d \in Days, a \in Amounts :
             CushionDeposit(a, d) \/ \E k \in CushionOutKinds : CushionOut(k, a, d)
      BY <1>2 DEF CushionEntry
    <2>1. Cushion \in Ledgers /\ a \in Int /\ -a \in Int /\ a # 0 /\ -a # 0
      BY AmountsAreIntegers DEF Ledgers
    <2>2. CASE CushionDeposit(a, d)
      BY <1>0, <2>1, <2>2, LinesType, OneLineAddsUp DEF CushionDeposit, Kinds
    <2>3. ASSUME NEW k \in CushionOutKinds, CushionOut(k, a, d) PROVE Goal
      BY <1>0, <2>1, <2>3, LinesType, OneLineAddsUp DEF CushionOut, Kinds
    <2> QED
      BY <2>2, <2>3
  <1>3. CASE Correction
    <2> PICK d \in Days, i \in DOMAIN journal : Reverse(i, d)
      BY <1>3 DEF Correction
    <2> DEFINE undo == [l \in Ledgers |-> -journal[i].lines[l]]
    <2>1. undo \in [Ledgers -> Int] /\ -journal[i].net \in Int /\ i \in Nat
      BY RowTyped DEF SumInv
    <2>2. journal[i].lines \in [Ledgers -> Int] /\ journal[i].net \in Int
      BY RowTyped DEF SumInv, EntryType
    <2>3. RowAddsUp(undo, -journal[i].net)
      BY <2>2, NegationAddsUp DEF SumInv, RowsAddUp
    <2>4. Enter("reversal", d, undo, -journal[i].net, i)
      BY DEF Reverse
    <2> HIDE DEF undo
    <2> QED
      BY <1>0, <2>1, <2>3, <2>4 DEF Kinds
  <1> QED
    BY <1>1, <1>2, <1>3

\* The inductive invariant of the two theorems below.
THEOREM SumsAreKept == Spec => []SumInv
  <1>1. Init => RowsAddUp /\ BookIsSumOfLedgers /\ ClientMoneyIsItsOwn
    <2> SUFFICES ASSUME Init PROVE RowsAddUp /\ BookIsSumOfLedgers /\ ClientMoneyIsItsOwn
      OBVIOUS
    <2>1. balance = OneLine(Cushion, 0)
      BY DEF Init, OneLine
    <2>2. \A S : S \subseteq Ledgers => Sum(balance, S) = 0
      BY <2>1, OneLineSum DEF Ledgers
    <2>3. RowsAddUp /\ BookIsSumOfLedgers
      BY <2>2 DEF Init, RowsAddUp, BookIsSumOfLedgers, Sum
    <2>4. \A f : Sum(f, {}) = 0
      BY SumStep, FS_EmptySet DEF Sum
    <2>5. ASSUME NEW c \in Clients
          PROVE  Sum(balance, Mine(c)) =
                     Sum([i \in DOMAIN journal |-> journal[i].net],
                         {i \in DOMAIN journal : Names(journal[i].lines, c)})
      <3>1. {i \in DOMAIN journal : Names(journal[i].lines, c)} = {}
        BY DEF Init
      <3> QED
        BY <2>2, <2>4, <3>1, LedgersAreFinite
    <2> QED
      BY <2>3, <2>5 DEF ClientMoneyIsItsOwn, Mine, Names, Sum
  <1>2. SumInv /\ [Next]_vars => RowsAddUp' /\ BookIsSumOfLedgers' /\ ClientMoneyIsItsOwn'
    <2> SUFFICES ASSUME SumInv, [Next]_vars
                 PROVE  RowsAddUp' /\ BookIsSumOfLedgers' /\ ClientMoneyIsItsOwn'
      OBVIOUS
    <2>1. ASSUME journal' = journal, balance' = balance, book' = book
          PROVE  RowsAddUp' /\ BookIsSumOfLedgers' /\ ClientMoneyIsItsOwn'
      BY <2>1 DEF SumInv, RowsAddUp, BookIsSumOfLedgers, ClientMoneyIsItsOwn
    <2>2. CASE Dispute \/ Surroundings \/ UNCHANGED vars
      BY <2>1, <2>2 DEF Dispute, PlaceHold, ReleaseHold, MoveHeld, Surroundings, OpenLedger,
                        ChangeCap, ReviewCushionRule, CloseMonth, NextDay, vars
    <2> QED
      BY <2>2, EntryKeepsSums DEF Next
  <1> QED
    BY <1>1, <1>2, TypeCorrect, PTL DEF Spec, SumInv

\* I3 of ledger.ts, for every set of ledgers: the account's own balance, moved
\* once per entry, is at all times the sum of what its sub-ledgers hold.
THEOREM BookStaysSumOfLedgers == Spec => []BookIsSumOfLedgers
  BY SumsAreKept, PTL DEF SumInv

\* I4 of ledger.ts, for every set of clients and ledgers: what a client has in
\* trust is what the entries that name the client moved, so no deposit, payment,
\* transfer or correction for one client adds to or takes from another's money.
THEOREM ClientMoneyStaysItsOwn == Spec => []ClientMoneyIsItsOwn
  BY SumsAreKept, PTL DEF SumInv

-----------------------------------------------------------------------------
(* Stages and the closing of a matter.                                     *)

ClosingType == [status : {"in_progress", "closed", "abandoned"}, trustZero : BOOLEAN, closedAt : BOOLEAN]

\* A closing somebody read stays in the table, and one found complete stays so:
\* nothing takes a confirmation or a finished checklist back.
ChangeSound(c) ==
    /\ c.op \in {"confirm", "complete", "abandon"} => c.closing \in DOMAIN closings
    /\ c.op = "complete" => closings[c.closing].trustZero /\ checklists[c.closing]

LifeInv ==
    /\ \E S : lifecycle \in [stage : S, status : {"open", "closing", "closed"}]
    /\ closings \in Seq(ClosingType) /\ checklists \in Seq(BOOLEAN)
    /\ Len(checklists) = Len(closings)
    /\ \E S : change \in [Members -> S]
    /\ \A u \in Members : ChangeSound(change[u])
    /\ LIFE!LifecycleIsSound

\* Nobody's call goes stale while closings only gain confirmations.
LEMMA ChangesStaySound ==
    ASSUME LifeInv, NEW u \in Members, NEW c, change' = [change EXCEPT ![u] = c],
           DOMAIN closings \subseteq DOMAIN closings', ChangeSound(c)',
           \A k \in DOMAIN closings : /\ closings[k].trustZero => closings'[k].trustZero
                                      /\ checklists[k] => checklists'[k]
    PROVE  /\ \E S : change' \in [Members -> S]
           /\ \A v \in Members : ChangeSound(change[v])'
  <1>1. \A v \in Members : change'[v] = IF v = u THEN c ELSE change[v]
    BY DEF LifeInv
  <1>2. change' \in [Members -> {change[v] : v \in Members} \cup {c}]
    BY <1>1 DEF LifeInv
  <1>3. ASSUME NEW v \in Members PROVE ChangeSound(change[v])'
    <2>1. CASE v = u
      BY <1>1, <2>1 DEF ChangeSound
    <2>2. CASE v # u
      BY <1>1, <2>2 DEF ChangeSound, LifeInv
    <2> QED
      BY <2>1, <2>2
  <1> QED
    BY <1>2, <1>3

\* A call that reads and writes nothing yet.
LEMMA ChangeIsRead ==
    ASSUME LifeInv, NEW u \in Members, NEW c, LIFE!Read(u, c), ChangeSound(c)
    PROVE  LifeInv'
  <1>1. change' = [change EXCEPT ![u] = c] /\ UNCHANGED <<lifecycle, transition, closings, checklists, workOpen, closed>>
    BY DEF LIFE!Read
  <1>2. ChangeSound(c)'
    BY <1>1 DEF ChangeSound
  <1>3. (\E S : change' \in [Members -> S]) /\ \A v \in Members : ChangeSound(change[v])'
    BY <1>1, <1>2, ChangesStaySound
  <1>4. LIFE!LifecycleIsSound'
    BY <1>1 DEF LifeInv, LIFE!LifecycleIsSound, LIFE!ClosedWasEarned, LIFE!ClosingIsInProgress,
                LIFE!LogEndsAtStage, LIFE!InProgress
  <1> QED
    BY <1>1, <1>3, <1>4 DEF LifeInv

LEMMA IdleChangeIsSound == ChangeSound(LIFE!Idle)
  <1>1. LIFE!Idle.op = "none"
    BY DEF LIFE!Idle
  <1> QED
    BY <1>1 DEF ChangeSound

LEMMA LifeStays ==
    ASSUME LifeInv, [LIFE!Next]_(LIFE!vars)
    PROVE  LifeInv'
  <1> USE DEF LIFE!LifecycleIsSound
  <1>i. ChangeSound(LIFE!Idle)'
    <2>1. LIFE!Idle.op = "none"
      BY DEF LIFE!Idle
    <2> QED
      BY <2>1 DEF ChangeSound, LIFE!Idle
  <1>s. PICK S : lifecycle \in [stage : S, status : {"open", "closing", "closed"}]
    BY DEF LifeInv
  <1>1. CASE LIFE!StartLifecycle
    <2>1. /\ lifecycle' = [stage |-> 1, status |-> "open"] /\ transition' = 1
          /\ UNCHANGED <<closings, checklists, workOpen, closed, change>>
      BY <1>1 DEF LIFE!StartLifecycle, LIFE!Enter
    <2>2. lifecycle' \in [stage : {1}, status : {"open", "closing", "closed"}]
      BY <2>1
    <2>3. \A u \in Members : ChangeSound(change[u])'
      BY <2>1 DEF LifeInv, ChangeSound
    <2>4. LIFE!LifecycleIsSound'
      BY <2>1 DEF LifeInv, LIFE!ClosedWasEarned, LIFE!ClosingIsInProgress, LIFE!LogEndsAtStage
    <2> QED
      BY <2>1, <2>2, <2>3, <2>4 DEF LifeInv
  <1>2. ASSUME NEW u \in Members, NEW to \in 1..Stages, LIFE!ReadForMove(u, to) PROVE LifeInv'
    <2> DEFINE c == [op |-> "move", to |-> to]
    <2>1. LIFE!Read(u, c) /\ ChangeSound(c)
      BY <1>2 DEF LIFE!ReadForMove, ChangeSound
    <2> HIDE DEF c
    <2> QED
      BY <2>1, ChangeIsRead
  <1>3. ASSUME NEW u \in Members, LIFE!CommitMove(u) PROVE LifeInv'
    <2> DEFINE to == change[u].to
    <2>1. /\ lifecycle' = [stage |-> to, status |-> lifecycle.status] /\ transition' = to
          /\ change' = [change EXCEPT ![u] = LIFE!Idle]
          /\ UNCHANGED <<closings, checklists, workOpen, closed>>
      BY <1>3 DEF LIFE!CommitMove, LIFE!Enter, LIFE!Done
    <2> HIDE DEF to
    <2>2. lifecycle' \in [stage : {to}, status : {"open", "closing", "closed"}]
      BY <1>s, <2>1
    <2>3. (\E T : change' \in [Members -> T]) /\ \A v \in Members : ChangeSound(change[v])'
      BY <1>i, <2>1, ChangesStaySound
    <2>4. LIFE!LifecycleIsSound'
      BY <2>1 DEF LifeInv, LIFE!ClosedWasEarned, LIFE!ClosingIsInProgress, LIFE!LogEndsAtStage, LIFE!InProgress
    <2> QED
      BY <2>1, <2>2, <2>3, <2>4 DEF LifeInv
  <1>4. ASSUME NEW u \in Members, LIFE!ReadForStartClosing(u) PROVE LifeInv'
    <2> DEFINE c == [op |-> "start"]
    <2>1. LIFE!Read(u, c) /\ ChangeSound(c)
      BY <1>4 DEF LIFE!ReadForStartClosing, ChangeSound
    <2> HIDE DEF c
    <2> QED
      BY <2>1, ChangeIsRead
  <1>5. ASSUME NEW u \in Members, LIFE!CommitStartClosing(u) PROVE LifeInv'
    <2>1. change' = [change EXCEPT ![u] = LIFE!Idle] /\ UNCHANGED <<transition, workOpen, closed>>
      BY <1>5 DEF LIFE!CommitStartClosing, LIFE!Done
    <2>2. CASE UNCHANGED <<lifecycle, closings, checklists>>
      <3>1. (\E T : change' \in [Members -> T]) /\ \A v \in Members : ChangeSound(change[v])'
        BY <1>i, <2>1, <2>2, ChangesStaySound
      <3>2. LIFE!LifecycleIsSound'
        BY <2>1, <2>2 DEF LifeInv, LIFE!ClosedWasEarned, LIFE!ClosingIsInProgress, LIFE!LogEndsAtStage, LIFE!InProgress
      <3> QED
        BY <2>1, <2>2, <3>1, <3>2 DEF LifeInv
    <2>3. CASE /\ closings' = Append(closings, LIFE!Begun) /\ checklists' = Append(checklists, FALSE)
               /\ lifecycle' = [lifecycle EXCEPT !.status = "closing"]
      <3>1. LIFE!Begun \in ClosingType /\ LIFE!Begun.status = "in_progress"
        BY DEF ClosingType, LIFE!Begun
      <3>2. /\ closings' \in Seq(ClosingType) /\ checklists' \in Seq(BOOLEAN)
            /\ Len(checklists') = Len(closings') /\ Len(closings') = Len(closings) + 1
        BY <2>3, <3>1 DEF LifeInv
      <3>3. \A k \in DOMAIN closings : closings'[k] = closings[k] /\ checklists'[k] = checklists[k]
        BY <2>3, <3>1 DEF LifeInv
      <3>4. DOMAIN closings \subseteq DOMAIN closings' /\ Len(closings) + 1 \in DOMAIN closings'
            /\ closings'[Len(closings) + 1] = LIFE!Begun
        BY <2>3, <3>1, <3>2 DEF LifeInv
      <3>5. (\E T : change' \in [Members -> T]) /\ \A v \in Members : ChangeSound(change[v])'
        BY <1>i, <2>1, <3>3, <3>4, ChangesStaySound
      <3>6. LIFE!ClosedWasEarned'
        BY <2>1, <3>3, <3>4 DEF LifeInv, LIFE!ClosedWasEarned
      <3>7. LIFE!ClosingIsInProgress'
        BY <3>1, <3>4 DEF LIFE!ClosingIsInProgress, LIFE!InProgress
      <3>8. lifecycle' \in [stage : S, status : {"open", "closing", "closed"}] /\ lifecycle'.stage = lifecycle.stage
        BY <1>s, <2>3
      <3>9. LIFE!LogEndsAtStage'
        BY <2>1, <3>8 DEF LifeInv, LIFE!LogEndsAtStage
      <3> QED
        BY <3>2, <3>5, <3>6, <3>7, <3>8, <3>9 DEF LifeInv
    <2> QED
      BY <1>5, <2>2, <2>3 DEF LIFE!CommitStartClosing
  <1>6. ASSUME NEW j \in DOMAIN closings, LIFE!CompleteChecklist(j) PROVE LifeInv'
    <2>1. /\ checklists' = [checklists EXCEPT ![j] = TRUE]
          /\ UNCHANGED <<lifecycle, transition, closings, workOpen, closed, change>>
      BY <1>6 DEF LIFE!CompleteChecklist
    <2>2. DOMAIN checklists = DOMAIN closings
      BY DEF LifeInv
    <2>3. /\ checklists' \in Seq(BOOLEAN) /\ Len(checklists') = Len(closings')
          /\ \A k \in DOMAIN closings : checklists[k] => checklists'[k]
      BY <2>1, <2>2 DEF LifeInv
    <2>4. \A v \in Members : ChangeSound(change[v])'
      BY <2>1, <2>3 DEF LifeInv, ChangeSound
    <2>5. LIFE!LifecycleIsSound'
      BY <2>1, <2>3 DEF LifeInv, LIFE!ClosedWasEarned, LIFE!ClosingIsInProgress, LIFE!LogEndsAtStage, LIFE!InProgress
    <2> QED
      BY <2>1, <2>3, <2>4, <2>5 DEF LifeInv
  <1>7. ASSUME NEW u \in Members, NEW k \in DOMAIN closings,
               \/ LIFE!ConfirmTrustZero(u, k) \/ LIFE!ReadForAbandonClosing(u, k)
               \/ LIFE!ReadForCompleteClosing(u, k)
        PROVE  LifeInv'
    <2>1. CASE LIFE!ConfirmTrustZero(u, k)
      <3> DEFINE c == [op |-> "confirm", closing |-> k]
      <3>1. LIFE!Read(u, c) /\ ChangeSound(c)
        BY <2>1 DEF LIFE!ConfirmTrustZero, ChangeSound
      <3> HIDE DEF c
      <3> QED
        BY <3>1, ChangeIsRead
    <2>2. CASE LIFE!ReadForAbandonClosing(u, k)
      <3> DEFINE c == [op |-> "abandon", closing |-> k]
      <3>1. LIFE!Read(u, c) /\ ChangeSound(c)
        BY <2>2 DEF LIFE!ReadForAbandonClosing, ChangeSound
      <3> HIDE DEF c
      <3> QED
        BY <3>1, ChangeIsRead
    <2>3. CASE LIFE!ReadForCompleteClosing(u, k)
      <3> DEFINE c == [op |-> "complete", closing |-> k]
      <3>1. LIFE!Read(u, c) /\ ChangeSound(c)
        BY <2>3 DEF LIFE!ReadForCompleteClosing, LIFE!Blocked, ChangeSound
      <3> HIDE DEF c
      <3> QED
        BY <3>1, ChangeIsRead
    <2> QED
      BY <1>7, <2>1, <2>2, <2>3
  <1>8. ASSUME NEW u \in Members, LIFE!CommitTrustZero(u) PROVE LifeInv'
    <2> DEFINE k == change[u].closing
    <2>1. /\ change[u].op = "confirm" /\ change' = [change EXCEPT ![u] = LIFE!Idle]
          /\ closings' = [closings EXCEPT ![k].trustZero = TRUE]
          /\ UNCHANGED <<lifecycle, transition, checklists, workOpen, closed>>
      BY <1>8 DEF LIFE!CommitTrustZero, LIFE!Done
    <2>2. k \in DOMAIN closings
      BY <2>1 DEF LifeInv, ChangeSound
    <2> HIDE DEF k
    <2>3. /\ closings' \in Seq(ClosingType) /\ Len(closings') = Len(closings) /\ DOMAIN closings' = DOMAIN closings
          /\ \A j \in DOMAIN closings : /\ closings'[j].status = closings[j].status
                                        /\ closings'[j].closedAt = closings[j].closedAt
                                        /\ closings[j].trustZero => closings'[j].trustZero
      <3>1. PICK new : new = [closings[k] EXCEPT !.trustZero = TRUE]
        OBVIOUS
      <3>2. closings[k] \in ClosingType
        BY <2>2 DEF LifeInv
      <3>3. new \in ClosingType /\ new.trustZero /\ new.status = closings[k].status /\ new.closedAt = closings[k].closedAt
        BY <3>1, <3>2 DEF ClosingType
      <3>4. closings' = [closings EXCEPT ![k] = new]
        BY <2>1, <3>1
      <3> QED
        BY <2>2, <3>3, <3>4, OneRewritten DEF LifeInv
    <2>4. (\E T : change' \in [Members -> T]) /\ \A v \in Members : ChangeSound(change[v])'
      BY <1>i, <2>1, <2>3, ChangesStaySound
    <2>5. LIFE!LifecycleIsSound'
      BY <2>1, <2>3 DEF LifeInv, LIFE!ClosedWasEarned, LIFE!ClosingIsInProgress, LIFE!LogEndsAtStage, LIFE!InProgress
    <2> QED
      BY <2>1, <2>3, <2>4, <2>5 DEF LifeInv
  <1>9. ASSUME NEW u \in Members, LIFE!CommitCompleteClosing(u) PROVE LifeInv'
    <2> DEFINE k == change[u].closing
    <2>1. /\ change[u].op = "complete" /\ change' = [change EXCEPT ![u] = LIFE!Idle]
          /\ closings' = [closings EXCEPT ![k].status = "closed", ![k].closedAt = TRUE]
          /\ lifecycle' = [stage |-> LIFE!ClosingStage, status |-> "closed"] /\ transition' = LIFE!ClosingStage
          /\ UNCHANGED <<checklists, workOpen>>
      BY <1>9 DEF LIFE!CommitCompleteClosing, LIFE!Done, LIFE!Enter
    <2>2. k \in DOMAIN closings /\ closings[k].trustZero /\ checklists[k]
      BY <2>1 DEF LifeInv, ChangeSound
    <2> HIDE DEF k
    <2>3. /\ closings' \in Seq(ClosingType) /\ Len(closings') = Len(closings) /\ DOMAIN closings' = DOMAIN closings
          /\ closings'[k].closedAt
          /\ \A j \in DOMAIN closings : closings[j].trustZero => closings'[j].trustZero
      <3>1. PICK mid : mid = [closings EXCEPT ![k].status = "closed"]
        OBVIOUS
      <3>2. PICK half : half = [closings[k] EXCEPT !.status = "closed"]
        OBVIOUS
      <3>3. PICK new : new = [half EXCEPT !.closedAt = TRUE]
        OBVIOUS
      <3>4. closings[k] \in ClosingType
        BY <2>2 DEF LifeInv
      <3>5. half \in ClosingType /\ half.trustZero = closings[k].trustZero
        BY <3>2, <3>4 DEF ClosingType
      <3>6. new \in ClosingType /\ new.trustZero = closings[k].trustZero /\ new.closedAt
        BY <3>3, <3>5 DEF ClosingType
      <3>7. mid = [closings EXCEPT ![k] = half]
        BY <3>1, <3>2
      <3>8. /\ mid \in Seq(ClosingType) /\ Len(mid) = Len(closings) /\ DOMAIN mid = DOMAIN closings
            /\ mid[k] = half /\ \A j \in DOMAIN closings : j # k => mid[j] = closings[j]
        BY <2>2, <3>5, <3>7, OneRewritten DEF LifeInv
      <3>9. closings' = [mid EXCEPT ![k].closedAt = TRUE]
        BY <2>1, <3>1
      <3>10. closings' = [mid EXCEPT ![k] = new]
        BY <2>2, <3>3, <3>8, <3>9
      <3>11. /\ closings' \in Seq(ClosingType) /\ Len(closings') = Len(mid) /\ DOMAIN closings' = DOMAIN mid
             /\ closings'[k] = new /\ \A j \in DOMAIN mid : j # k => closings'[j] = mid[j]
        BY <2>2, <3>6, <3>8, <3>10, OneRewritten
      <3> QED
        BY <3>6, <3>8, <3>11
    <2>4. (\E T : change' \in [Members -> T]) /\ \A v \in Members : ChangeSound(change[v])'
      BY <1>i, <2>1, <2>3, ChangesStaySound
    <2>5. LIFE!LifecycleIsSound'
      BY <2>1, <2>2, <2>3 DEF LIFE!ClosedWasEarned, LIFE!ClosingIsInProgress, LIFE!LogEndsAtStage
    <2>6. lifecycle' \in [stage : {LIFE!ClosingStage}, status : {"open", "closing", "closed"}]
      BY <2>1
    <2> QED
      BY <2>1, <2>3, <2>4, <2>5, <2>6 DEF LifeInv
  <1>10. ASSUME NEW u \in Members, LIFE!CommitAbandonClosing(u) PROVE LifeInv'
    <2> DEFINE k == change[u].closing
    <2>1. /\ change[u].op = "abandon" /\ change' = [change EXCEPT ![u] = LIFE!Idle]
          /\ closings' = [closings EXCEPT ![k].status = "abandoned"]
          /\ lifecycle' = [lifecycle EXCEPT !.status = "open"]
          /\ UNCHANGED <<transition, checklists, workOpen, closed>>
      BY <1>10 DEF LIFE!CommitAbandonClosing, LIFE!Done
    <2>2. k \in DOMAIN closings
      BY <2>1 DEF LifeInv, ChangeSound
    <2> HIDE DEF k
    <2>3. /\ closings' \in Seq(ClosingType) /\ Len(closings') = Len(closings) /\ DOMAIN closings' = DOMAIN closings
          /\ \A j \in DOMAIN closings : /\ closings'[j].closedAt = closings[j].closedAt
                                        /\ closings[j].trustZero => closings'[j].trustZero
      <3>1. PICK new : new = [closings[k] EXCEPT !.status = "abandoned"]
        OBVIOUS
      <3>2. closings[k] \in ClosingType
        BY <2>2 DEF LifeInv
      <3>3. new \in ClosingType /\ new.closedAt = closings[k].closedAt /\ new.trustZero = closings[k].trustZero
        BY <3>1, <3>2 DEF ClosingType
      <3>4. closings' = [closings EXCEPT ![k] = new]
        BY <2>1, <3>1
      <3> QED
        BY <2>2, <3>3, <3>4, OneRewritten DEF LifeInv
    <2>4. (\E T : change' \in [Members -> T]) /\ \A v \in Members : ChangeSound(change[v])'
      BY <1>i, <2>1, <2>3, ChangesStaySound
    <2>5. /\ lifecycle' \in [stage : S, status : {"open", "closing", "closed"}]
          /\ lifecycle'.stage = lifecycle.stage /\ lifecycle'.status = "open"
      BY <1>s, <2>1
    <2>6. LIFE!LifecycleIsSound'
      BY <2>1, <2>3, <2>5 DEF LifeInv, LIFE!ClosedWasEarned, LIFE!ClosingIsInProgress, LIFE!LogEndsAtStage
    <2> QED
      BY <2>1, <2>3, <2>4, <2>5, <2>6 DEF LifeInv
  <1>11. CASE LIFE!WorkChanges \/ UNCHANGED LIFE!vars
    <2>1. UNCHANGED <<lifecycle, transition, closings, checklists, closed, change>>
      BY <1>11 DEF LIFE!WorkChanges, LIFE!vars
    <2>2. \A u \in Members : ChangeSound(change[u])'
      BY <2>1 DEF LifeInv, ChangeSound
    <2>3. LIFE!LifecycleIsSound'
      BY <2>1 DEF LifeInv, LIFE!ClosedWasEarned, LIFE!ClosingIsInProgress, LIFE!LogEndsAtStage, LIFE!InProgress
    <2> QED
      BY <2>1, <2>2, <2>3 DEF LifeInv
  <1> QED
    BY <1>1, <1>2, <1>3, <1>4, <1>5, <1>6, <1>7, <1>8, <1>9, <1>10, <1>11 DEF LIFE!Next

\* However moves and closings overlap: a closed matter has a closing of its
\* own for which trust was confirmed at zero and the checklist finished, a
\* matter being closed has a closing to finish or abandon, and the log of
\* stages ends where the matter is (completeClosing, startClosing).
LEMMA ClosedOfMatters == LIFE!Spec => []LIFE!LifecycleIsSound
  <1>1. LIFE!Init => LifeInv
    <2> SUFFICES ASSUME LIFE!Init PROVE LifeInv
      OBVIOUS
    <2>1. /\ lifecycle = [stage |-> 0, status |-> "open"] /\ transition = 0
          /\ closings = <<>> /\ checklists = <<>> /\ closed = FALSE
          /\ change = [u \in Members |-> LIFE!Idle]
      BY DEF LIFE!Init
    <2>2. lifecycle \in [stage : {0}, status : {"open", "closing", "closed"}]
      BY <2>1
    <2>3. change \in [Members -> {LIFE!Idle}]
      BY <2>1
    <2>4. \A u \in Members : ChangeSound(change[u])
      BY <2>1, IdleChangeIsSound
    <2>5. LIFE!LifecycleIsSound
      BY <2>1 DEF LIFE!LifecycleIsSound, LIFE!ClosedWasEarned, LIFE!ClosingIsInProgress, LIFE!LogEndsAtStage
    <2>6. closings \in Seq(ClosingType) /\ checklists \in Seq(BOOLEAN) /\ Len(checklists) = Len(closings)
      BY <2>1
    <2> QED
      BY <2>2, <2>3, <2>4, <2>5, <2>6 DEF LifeInv
  <1>2. LifeInv /\ [LIFE!Next]_(LIFE!vars) => LifeInv'
    BY LifeStays
  <1>3. LifeInv => LIFE!LifecycleIsSound
    BY DEF LifeInv
  <1> QED
    BY <1>1, <1>2, <1>3, PTL DEF LIFE!Spec

-----------------------------------------------------------------------------
(* The versions of a setup.                                                *)

VersionType(N) == [number : N, status : {"draft", "active", "retired"}, activatedAt : BOOLEAN, retiredAt : BOOLEAN]

\* A version that was in force was activated; where the draft is locked, a
\* retired one is out of force for good.
VersionSound(v) ==
    /\ v.status = "active" => v.activatedAt
    /\ locks => (v.retiredAt => v.status = "retired")

\* A locked draft is a draft until its activation commits.
EditSound(u) ==
    edit[u].op = "activate" =>
        /\ edit[u].version \in DOMAIN versions
        /\ locks => versions[edit[u].version].status = "draft"

OneActive == \A i, j \in SETUP!InForce : i = j

SetupInv ==
    /\ locks \in BOOLEAN
    /\ \E N : versions \in Seq(VersionType(N))
    /\ \E S : edit \in [Managers -> S]
    /\ \A i \in DOMAIN versions : VersionSound(versions[i])
    /\ \A u \in Managers : EditSound(u)
    /\ locks => \A u, v \in Managers :
          edit[u].op = "activate" /\ edit[v].op = "activate" /\ edit[u].version = edit[v].version => u = v
    /\ OneActive
    /\ \A i \in used : i \in DOMAIN versions /\ versions[i].activatedAt
    /\ ~locks => SETUP!NumbersAreDistinct /\ IsFiniteSet(SETUP!Numbers)

LEMMA IdleIsNoEdit == SETUP!Idle.op = "none"
  BY DEF SETUP!Idle

\* An edit that ends leaves the others' as they are.
LEMMA EditEnds ==
    ASSUME SetupInv, NEW u \in Managers, edit' = [edit EXCEPT ![u] = SETUP!Idle]
    PROVE  /\ \E S : edit' \in [Managers -> S]
           /\ \A v \in Managers : edit'[v] = IF v = u THEN SETUP!Idle ELSE edit[v]
           /\ \A v \in Managers : edit'[v].op = "activate" => v # u /\ edit'[v] = edit[v]
  <1>1. \A v \in Managers : edit'[v] = IF v = u THEN SETUP!Idle ELSE edit[v]
    BY DEF SetupInv
  <1>2. edit' \in [Managers -> {edit[v] : v \in Managers} \cup {SETUP!Idle}]
    BY <1>1 DEF SetupInv
  <1>3. \A v \in Managers : edit'[v].op = "activate" => v # u /\ edit'[v] = edit[v]
    BY <1>1, IdleIsNoEdit
  <1> QED
    BY <1>1, <1>2, <1>3

\* Versions whose numbers stay as they were keep them distinct.
LEMMA NumbersStay ==
    ASSUME SetupInv, locks' = locks, Len(versions') = Len(versions), DOMAIN versions' = DOMAIN versions,
           \A i \in DOMAIN versions : versions'[i].number = versions[i].number
    PROVE  ~locks' => SETUP!NumbersAreDistinct' /\ IsFiniteSet(SETUP!Numbers')
  <1>1. SETUP!Numbers' = SETUP!Numbers
    BY DEF SETUP!Numbers
  <1> QED
    BY <1>1 DEF SetupInv, SETUP!NumbersAreDistinct

LEMMA SetupStays ==
    ASSUME SetupInv, [SETUP!Next]_(SETUP!vars)
    PROVE  SetupInv'
  <1>n. PICK N : versions \in Seq(VersionType(N))
    BY DEF SetupInv
  <1>1. ASSUME NEW u \in Managers, SETUP!ReadForSave(u) PROVE SetupInv'
    <2> PICK number : edit' = [edit EXCEPT ![u] = [op |-> "save", number |-> number]]
      BY <1>1 DEF SETUP!ReadForSave
    <2>1. UNCHANGED <<locks, versions, used>>
      BY <1>1 DEF SETUP!ReadForSave
    <2>2. \A v \in Managers : edit'[v] = IF v = u THEN [op |-> "save", number |-> number] ELSE edit[v]
      BY DEF SetupInv
    <2>3. edit' \in [Managers -> {edit[v] : v \in Managers} \cup {[op |-> "save", number |-> number]}]
      BY <2>2 DEF SetupInv
    <2>4. \A v \in Managers : edit'[v].op = "activate" => v # u /\ edit'[v] = edit[v]
      BY <2>2
    <2>5. \A v \in Managers : EditSound(v)'
      BY <2>1, <2>4 DEF SetupInv, EditSound
    <2>6. \A i \in DOMAIN versions' : VersionSound(versions[i])'
      BY <2>1 DEF SetupInv, VersionSound
    <2>7. OneActive'
      BY <2>1 DEF SetupInv, OneActive, SETUP!InForce, SETUP!WithStatus
    <2>8. ~locks' => SETUP!NumbersAreDistinct' /\ IsFiniteSet(SETUP!Numbers')
      BY <2>1, NumbersStay
    <2>9. locks' => \A v, w \in Managers :
             edit'[v].op = "activate" /\ edit'[w].op = "activate" /\ edit'[v].version = edit'[w].version => v = w
      BY <2>1, <2>4 DEF SetupInv
    <2> QED
      BY <2>1, <2>3, <2>5, <2>6, <2>7, <2>8, <2>9 DEF SetupInv
  <1>2. ASSUME NEW u \in Managers, SETUP!CommitSave(u) PROVE SetupInv'
    <2> PICK number : number = edit[u].number
      OBVIOUS
    <2> PICK new : new = SETUP!Draft(number)
      OBVIOUS
    <2>1. /\ edit' = [edit EXCEPT ![u] = SETUP!Idle] /\ UNCHANGED <<locks, used>>
          /\ \/ versions' = versions
             \/ versions' = Append(versions, new) /\ (locks \/ number \notin SETUP!Numbers)
      BY <1>2 DEF SETUP!CommitSave
    <2>2. /\ \E S : edit' \in [Managers -> S]
          /\ \A v \in Managers : edit'[v].op = "activate" => v # u /\ edit'[v] = edit[v]
      BY <2>1, EditEnds
    <2>3. locks' => \A v, w \in Managers :
             edit'[v].op = "activate" /\ edit'[w].op = "activate" /\ edit'[v].version = edit'[w].version => v = w
      BY <2>1, <2>2 DEF SetupInv
    <2>4. CASE versions' = versions
      <3>1. \A v \in Managers : EditSound(v)'
        BY <2>1, <2>2, <2>4 DEF SetupInv, EditSound
      <3>2. \A i \in DOMAIN versions' : VersionSound(versions[i])'
        BY <2>1, <2>4 DEF SetupInv, VersionSound
      <3>3. OneActive'
        BY <2>4 DEF SetupInv, OneActive, SETUP!InForce, SETUP!WithStatus
      <3>4. ~locks' => SETUP!NumbersAreDistinct' /\ IsFiniteSet(SETUP!Numbers')
        BY <2>1, <2>4, NumbersStay
      <3> QED
        BY <2>1, <2>2, <2>3, <2>4, <3>1, <3>2, <3>3, <3>4 DEF SetupInv
    <2>5. CASE versions' = Append(versions, new) /\ (locks \/ number \notin SETUP!Numbers)
      <3>1. /\ new.number = number /\ new.status = "draft" /\ new.activatedAt = FALSE /\ new.retiredAt = FALSE
            /\ new \in VersionType(N \cup {number})
        BY DEF SETUP!Draft, VersionType
      <3>2. versions \in Seq(VersionType(N \cup {number}))
        <4>1. VersionType(N) \subseteq VersionType(N \cup {number})
          BY DEF VersionType
        <4>2. versions \in [1..Len(versions) -> VersionType(N)] /\ Len(versions) \in Nat
          BY <1>n
        <4>3. versions \in [1..Len(versions) -> VersionType(N \cup {number})]
          BY <4>1, <4>2
        <4> QED
          BY <4>2, <4>3, FunctionsAreSequences
      <3>3. /\ versions' \in Seq(VersionType(N \cup {number})) /\ Len(versions') = Len(versions) + 1
            /\ DOMAIN versions' = DOMAIN versions \cup {Len(versions) + 1}
            /\ versions'[Len(versions) + 1] = new /\ Len(versions) \in Nat
            /\ Len(versions) + 1 \notin DOMAIN versions
        BY <2>5, <3>1, <3>2
      <3>4. \A i \in DOMAIN versions : versions'[i] = versions[i]
        BY <2>5, <3>1, <3>2
      <3>5. \A v \in Managers : EditSound(v)'
        BY <2>1, <2>2, <3>3, <3>4 DEF SetupInv, EditSound
      <3>6. \A i \in DOMAIN versions' : VersionSound(versions[i])'
        BY <2>1, <3>1, <3>3, <3>4 DEF SetupInv, VersionSound
      <3>7. SETUP!InForce' = SETUP!InForce
        BY <3>1, <3>3, <3>4 DEF SETUP!InForce, SETUP!WithStatus
      <3>8. OneActive'
        BY <3>7 DEF SetupInv, OneActive
      <3>9. \A i \in used' : i \in DOMAIN versions' /\ versions'[i].activatedAt
        BY <2>1, <3>3, <3>4 DEF SetupInv
      <3>10. ASSUME ~locks' PROVE SETUP!NumbersAreDistinct' /\ IsFiniteSet(SETUP!Numbers')
        <4>1. SETUP!Numbers' = SETUP!Numbers \cup {number}
          BY <3>1, <3>3, <3>4 DEF SETUP!Numbers
        <4>2. ~locks /\ number \notin SETUP!Numbers /\ IsFiniteSet(SETUP!Numbers) /\ SETUP!NumbersAreDistinct
          BY <2>1, <2>5, <3>10 DEF SetupInv
        <4>3. \A X : SETUP!Cardinality(X) = Cardinality(X)
          BY DEF SETUP!Cardinality, Cardinality
        <4>4. Cardinality(SETUP!Numbers) = Len(versions)
          BY <4>2, <4>3 DEF SETUP!NumbersAreDistinct
        <4>5. IsFiniteSet(SETUP!Numbers') /\ Cardinality(SETUP!Numbers') = Len(versions')
          BY ZenonT(30), <3>3, <4>1, <4>2, <4>4, FS_AddElement
        <4> QED
          BY <4>3, <4>5 DEF SETUP!NumbersAreDistinct
      <3> QED
        BY <2>1, <2>2, <2>3, <3>3, <3>5, <3>6, <3>8, <3>9, <3>10 DEF SetupInv
    <2> QED
      BY <2>1, <2>4, <2>5
  <1>3. ASSUME NEW u \in Managers, NEW i \in DOMAIN versions, SETUP!ReadForActivate(u, i) PROVE SetupInv'
    <2> DEFINE c == [op |-> "activate", version |-> i, retiring |-> SETUP!InForce]
    <2>1. /\ versions[i].status = "draft" /\ ~SETUP!LockedDraft(i)
          /\ edit' = [edit EXCEPT ![u] = c] /\ UNCHANGED <<locks, versions, used>>
      BY <1>3 DEF SETUP!ReadForActivate
    <2>2. c.op = "activate" /\ c.version = i
      OBVIOUS
    <2> HIDE DEF c
    <2>3. \A v \in Managers : edit'[v] = IF v = u THEN c ELSE edit[v]
      BY <2>1 DEF SetupInv
    <2>4. edit' \in [Managers -> {edit[v] : v \in Managers} \cup {c}]
      BY <2>1, <2>3 DEF SetupInv
    <2>5. \A v \in Managers : EditSound(v)'
      BY <2>1, <2>2, <2>3 DEF SetupInv, EditSound
    <2>6. \A j \in DOMAIN versions' : VersionSound(versions[j])'
      BY <2>1 DEF SetupInv, VersionSound
    <2>7. OneActive'
      BY <2>1 DEF SetupInv, OneActive, SETUP!InForce, SETUP!WithStatus
    <2>8. ~locks' => SETUP!NumbersAreDistinct' /\ IsFiniteSet(SETUP!Numbers')
      BY <2>1, NumbersStay
    <2>9. locks' => \A v, w \in Managers :
             edit'[v].op = "activate" /\ edit'[w].op = "activate" /\ edit'[v].version = edit'[w].version => v = w
      BY <2>1, <2>2, <2>3 DEF SetupInv, SETUP!LockedDraft
    <2> QED
      BY <2>1, <2>4, <2>5, <2>6, <2>7, <2>8, <2>9 DEF SetupInv
  <1>4. ASSUME NEW u \in Managers, SETUP!CommitActivate(u) PROVE SetupInv'
    <2> PICK it, retiring : it = edit[u].version /\ retiring = edit[u].retiring
      OBVIOUS
    <2>1. /\ edit[u].op = "activate" /\ edit' = [edit EXCEPT ![u] = SETUP!Idle] /\ UNCHANGED <<locks, used>>
          /\ versions' = IF SETUP!SecondInForce(it, retiring) THEN versions
                         ELSE [i \in DOMAIN versions |->
                            IF i = it THEN [versions[i] EXCEPT !.status = "active", !.activatedAt = TRUE]
                            ELSE IF i \in retiring \cap SETUP!InForce
                            THEN [versions[i] EXCEPT !.status = "retired", !.retiredAt = TRUE]
                            ELSE versions[i]]
      BY <1>4 DEF SETUP!CommitActivate
    <2>2. /\ \E S : edit' \in [Managers -> S]
          /\ \A v \in Managers : edit'[v].op = "activate" => v # u /\ edit'[v] = edit[v]
      BY <2>1, EditEnds
    <2>3. locks' => \A v, w \in Managers :
             edit'[v].op = "activate" /\ edit'[w].op = "activate" /\ edit'[v].version = edit'[w].version => v = w
      BY <2>1, <2>2 DEF SetupInv
    <2>4. it \in DOMAIN versions /\ (locks => versions[it].status = "draft")
      BY <2>1 DEF SetupInv, EditSound
    <2>5. CASE SETUP!SecondInForce(it, retiring)
      <3>0. versions' = versions
        BY <2>1, <2>5
      <3>1. \A v \in Managers : EditSound(v)'
        BY <2>1, <2>2, <3>0 DEF SetupInv, EditSound
      <3>2. \A i \in DOMAIN versions' : VersionSound(versions[i])'
        BY <2>1, <3>0 DEF SetupInv, VersionSound
      <3>3. OneActive'
        BY <3>0 DEF SetupInv, OneActive, SETUP!InForce, SETUP!WithStatus
      <3>4. ~locks' => SETUP!NumbersAreDistinct' /\ IsFiniteSet(SETUP!Numbers')
        BY <2>1, <3>0, NumbersStay
      <3> QED
        BY <2>1, <2>2, <2>3, <3>0, <3>1, <3>2, <3>3, <3>4 DEF SetupInv
    <2>6. CASE ~SETUP!SecondInForce(it, retiring)
      <3>1. SETUP!InForce \subseteq retiring \cup {it}
        BY <2>6 DEF SETUP!SecondInForce
      <3>2. versions' = [i \in DOMAIN versions |->
                            IF i = it THEN [versions[i] EXCEPT !.status = "active", !.activatedAt = TRUE]
                            ELSE IF i \in retiring \cap SETUP!InForce
                            THEN [versions[i] EXCEPT !.status = "retired", !.retiredAt = TRUE]
                            ELSE versions[i]]
        BY <2>1, <2>6
      <3>3. DOMAIN versions' = DOMAIN versions /\ DOMAIN versions = 1..Len(versions) /\ Len(versions) \in Nat
        <4>1. DOMAIN versions' = DOMAIN versions
          BY <3>2
        <4> QED
          BY <1>n, <4>1
      <3>4. ASSUME NEW i \in DOMAIN versions
            PROVE  /\ versions[i] \in VersionType(N) /\ versions'[i] \in VersionType(N)
                   /\ versions'[i].number = versions[i].number
                   /\ i = it => /\ versions'[i].status = "active" /\ versions'[i].activatedAt
                                /\ versions'[i].retiredAt = versions[i].retiredAt
                   /\ i # it => /\ versions'[i].status # "active"
                                /\ versions'[i].activatedAt = versions[i].activatedAt
                                /\ \/ versions'[i] = versions[i]
                                   \/ versions[i].status = "active" /\ versions'[i].status = "retired"
        <4>1. versions[i] \in VersionType(N)
          BY <1>n
        <4>2. i \in SETUP!InForce <=> versions[i].status = "active"
          BY DEF SETUP!InForce, SETUP!WithStatus
        <4>3. CASE i = it
          <5>1. versions'[i] = [versions[i] EXCEPT !.status = "active", !.activatedAt = TRUE]
            BY <3>2, <4>3
          <5> QED
            BY <4>1, <4>3, <5>1 DEF VersionType
        <4>4. CASE i # it /\ i \in SETUP!InForce
          <5>1. versions'[i] = [versions[i] EXCEPT !.status = "retired", !.retiredAt = TRUE]
            BY <3>1, <3>2, <4>4
          <5> QED
            BY <4>1, <4>2, <4>4, <5>1 DEF VersionType
        <4>5. CASE i # it /\ i \notin SETUP!InForce
          <5>1. versions'[i] = versions[i]
            BY <3>2, <4>5
          <5> QED
            BY <4>1, <4>2, <4>5, <5>1 DEF VersionType
        <4> QED
          BY <4>3, <4>4, <4>5
      <3>5. versions' \in Seq(VersionType(N)) /\ Len(versions') = Len(versions)
        <4>1. versions' \in [1..Len(versions) -> VersionType(N)]
          BY <3>2, <3>3, <3>4
        <4> QED
          BY <3>3, <4>1, FunctionsAreSequences
      <3>6. \A i \in DOMAIN versions' : VersionSound(versions[i])'
        <4> SUFFICES ASSUME NEW i \in DOMAIN versions PROVE VersionSound(versions[i])'
          BY <3>3
        <4>1. VersionSound(versions[i])
          BY DEF SetupInv
        <4>2. CASE i = it
          BY <2>1, <2>4, <3>4, <4>1, <4>2 DEF VersionSound
        <4>3. CASE i # it
          BY <2>1, <3>4, <4>1, <4>3 DEF VersionSound
        <4> QED
          BY <4>2, <4>3
      <3>7. \A v \in Managers : EditSound(v)'
        <4> SUFFICES ASSUME NEW v \in Managers, edit'[v].op = "activate" PROVE EditSound(v)'
          BY DEF EditSound
        <4> PICK w : w = edit[v].version
          OBVIOUS
        <4>1. v # u /\ edit'[v] = edit[v]
          BY <2>2
        <4>2. w \in DOMAIN versions /\ (locks => versions[w].status = "draft" /\ w # it)
          BY <2>1, <4>1 DEF SetupInv, EditSound
        <4>3. locks' => versions'[w].status = "draft"
          BY <2>1, <3>4, <4>2
        <4> QED
          BY <3>3, <4>1, <4>2, <4>3 DEF EditSound
      <3>8. OneActive'
        BY <3>3, <3>4 DEF OneActive, SETUP!InForce, SETUP!WithStatus
      <3>9. \A i \in used' : i \in DOMAIN versions' /\ versions'[i].activatedAt
        BY <2>1, <3>3, <3>4 DEF SetupInv
      <3>10. ~locks' => SETUP!NumbersAreDistinct' /\ IsFiniteSet(SETUP!Numbers')
        BY <2>1, <3>3, <3>4, <3>5, NumbersStay
      <3> QED
        BY <2>1, <2>2, <2>3, <3>5, <3>6, <3>7, <3>8, <3>9, <3>10 DEF SetupInv
    <2> QED
      BY <2>5, <2>6
  <1>5. ASSUME NEW i \in DOMAIN versions, SETUP!Retire(i) PROVE SetupInv'
    <2>1. /\ ~SETUP!LockedDraft(i) /\ UNCHANGED <<locks, used, edit>>
          /\ versions' = [versions EXCEPT ![i].status = "retired", ![i].retiredAt = TRUE]
      BY <1>5 DEF SETUP!Retire
    <2>2. PICK half : half = [versions[i] EXCEPT !.status = "retired"]
      OBVIOUS
    <2>3. PICK new : new = [half EXCEPT !.retiredAt = TRUE]
      OBVIOUS
    <2>4. versions[i] \in VersionType(N)
      BY <1>n
    <2>5. half \in VersionType(N) /\ half.number = versions[i].number /\ half.activatedAt = versions[i].activatedAt
          /\ half.status = "retired"
      BY <2>2, <2>4 DEF VersionType
    <2>6. new \in VersionType(N) /\ new.number = versions[i].number /\ new.activatedAt = versions[i].activatedAt
          /\ new.status = "retired"
      BY <2>3, <2>5 DEF VersionType
    <2>7. PICK mid : mid = [versions EXCEPT ![i] = half]
      OBVIOUS
    <2>8. /\ mid \in Seq(VersionType(N)) /\ Len(mid) = Len(versions) /\ DOMAIN mid = DOMAIN versions
          /\ mid[i] = half /\ \A j \in DOMAIN versions : j # i => mid[j] = versions[j]
      BY <1>n, <2>5, <2>7, OneRewritten
    <2>9. mid = [versions EXCEPT ![i].status = "retired"]
      BY <2>2, <2>7
    <2>10. versions' = [mid EXCEPT ![i].retiredAt = TRUE]
      BY <2>1, <2>9
    <2>11. versions' = [mid EXCEPT ![i] = new]
      BY <2>3, <2>8, <2>10
    <2>12. /\ versions' \in Seq(VersionType(N)) /\ Len(versions') = Len(mid) /\ DOMAIN versions' = DOMAIN mid
           /\ versions'[i] = new /\ \A j \in DOMAIN mid : j # i => versions'[j] = mid[j]
      BY <2>6, <2>8, <2>11, OneRewritten
    <2>13. /\ DOMAIN versions' = DOMAIN versions /\ Len(versions') = Len(versions) /\ versions'[i] = new
           /\ \A j \in DOMAIN versions : j # i => versions'[j] = versions[j]
      BY <2>8, <2>12
    <2>14. \A j \in DOMAIN versions' : VersionSound(versions[j])'
      BY <2>1, <2>6, <2>13 DEF SetupInv, VersionSound
    <2>15. \A v \in Managers : EditSound(v)'
      BY <2>1, <2>13 DEF SetupInv, EditSound, SETUP!LockedDraft
    <2>16. OneActive'
      BY <2>6, <2>13 DEF SetupInv, OneActive, SETUP!InForce, SETUP!WithStatus
    <2>17. \A j \in used' : j \in DOMAIN versions' /\ versions'[j].activatedAt
      BY <2>1, <2>6, <2>13 DEF SetupInv
    <2>18. ~locks' => SETUP!NumbersAreDistinct' /\ IsFiniteSet(SETUP!Numbers')
      BY <2>1, <2>6, <2>13, NumbersStay
    <2> QED
      BY <2>1, <2>12, <2>14, <2>15, <2>16, <2>17, <2>18 DEF SetupInv
  <1>6. CASE SETUP!SetUpMatter \/ UNCHANGED SETUP!vars
    <2>1. UNCHANGED <<locks, versions, edit>> /\ \A i \in used' : i \in used \/ i \in SETUP!InForce
      BY <1>6 DEF SETUP!SetUpMatter, SETUP!vars
    <2>2. \A i \in SETUP!InForce : i \in DOMAIN versions /\ versions[i].activatedAt
      BY DEF SetupInv, VersionSound, SETUP!InForce, SETUP!WithStatus
    <2>3. \A i \in used' : i \in DOMAIN versions' /\ versions'[i].activatedAt
      BY <2>1, <2>2 DEF SetupInv
    <2>4. \A v \in Managers : EditSound(v)'
      BY <2>1 DEF SetupInv, EditSound
    <2>5. \A i \in DOMAIN versions' : VersionSound(versions[i])'
      BY <2>1 DEF SetupInv, VersionSound
    <2>6. OneActive'
      BY <2>1 DEF SetupInv, OneActive, SETUP!InForce, SETUP!WithStatus
    <2>7. ~locks' => SETUP!NumbersAreDistinct' /\ IsFiniteSet(SETUP!Numbers')
      BY <2>1, NumbersStay
    <2> QED
      BY <2>1, <2>3, <2>4, <2>5, <2>6, <2>7 DEF SetupInv
  <1> QED
    BY <1>1, <1>2, <1>3, <1>4, <1>5, <1>6 DEF SETUP!Next

\* Whoever saves, activates and retires at once: one version of a setup is in
\* force at most, matters were only set up from versions somebody put in force,
\* a locked draft's retirement is not undone, and where an index covers them
\* no two versions have one number (activate, retire and save of the templates).
LEMMA ReviewedOfSetups == SETUP!Spec => []SETUP!SetupsAreReviewed
  <1>c. \A X : SETUP!Cardinality(X) = Cardinality(X)
    BY DEF SETUP!Cardinality, Cardinality
  <1>1. SETUP!Init => SetupInv
    <2> SUFFICES ASSUME SETUP!Init PROVE SetupInv
      OBVIOUS
    <2>1. locks \in BOOLEAN /\ versions = <<>> /\ used = {} /\ edit = [u \in Managers |-> SETUP!Idle]
      BY DEF SETUP!Init
    <2>2. versions \in Seq(VersionType({})) /\ DOMAIN versions = {} /\ Len(versions) = 0
      BY <2>1
    <2>3. edit \in [Managers -> {SETUP!Idle}]
      BY <2>1
    <2>4. \A u \in Managers : edit[u].op # "activate"
      BY <2>1, IdleIsNoEdit
    <2>5. OneActive
      BY <2>2 DEF OneActive, SETUP!InForce, SETUP!WithStatus
    <2>6. SETUP!Numbers = {}
      BY <2>2 DEF SETUP!Numbers
    <2>7. SETUP!NumbersAreDistinct /\ IsFiniteSet(SETUP!Numbers)
      BY <1>c, <2>2, <2>6, FS_EmptySet DEF SETUP!NumbersAreDistinct
    <2> QED
      BY <2>1, <2>2, <2>3, <2>4, <2>5, <2>7 DEF SetupInv, EditSound
  <1>2. SetupInv /\ [SETUP!Next]_(SETUP!vars) => SetupInv'
    BY SetupStays
  <1>3. SetupInv => SETUP!SetupsAreReviewed
    <2> SUFFICES ASSUME SetupInv PROVE SETUP!SetupsAreReviewed
      OBVIOUS
    <2>1. SETUP!OneInForce
      <3>1. CASE SETUP!InForce = {}
        BY <1>c, <3>1, FS_EmptySet DEF SETUP!OneInForce
      <3>2. CASE SETUP!InForce # {}
        <4>1. PICK i : i \in SETUP!InForce
          BY <3>2
        <4>2. SETUP!InForce = {i}
          BY <4>1 DEF SetupInv, OneActive
        <4>3. Cardinality(SETUP!InForce) = 1
          BY <4>2, FS_Singleton
        <4> QED
          BY <1>c, <4>3 DEF SETUP!OneInForce
      <3> QED
        BY <3>1, <3>2
    <2>2. SETUP!OnlyReviewedIsUsed
      BY DEF SetupInv, SETUP!OnlyReviewedIsUsed
    <2>3. SETUP!RetiredStaysRetired
      BY DEF SetupInv, VersionSound, SETUP!RetiredStaysRetired
    <2>4. SETUP!NumbersAreDistinct
      BY DEF SetupInv, SETUP!NumbersAreDistinct
    <2> QED
      BY <2>1, <2>2, <2>3, <2>4 DEF SETUP!SetupsAreReviewed
  <1> QED
    BY <1>1, <1>2, <1>3, PTL DEF SETUP!Spec

-----------------------------------------------------------------------------
(* The letter to a declined prospect.                                      *)

LetterType ==
    [status : {"none", "awaiting_approval", "approved", "sent", "delivered", "bounced", "no_channel"},
     type : LETTER!DeclineTypes \cup {"none"}, by : {"nobody", "lawyer", "template"},
     channel : {"none", "email", "postal"}]

\* A letter about a conflict is past its approval once a lawyer gave it.
ReadByALawyer == letter.type = "conflict" => letter.by = "lawyer"

\* Whoever sends or posts found it approved, and no approval is taken back.
LetterAskSound(a) ==
    /\ a # LETTER!Idle => letter.status # "none"
    /\ a.op \in {"send", "post"} => ReadByALawyer

LetterInv ==
    /\ letter \in LetterType /\ problems \in Nat /\ mail \in {"none", "out", "bounced"}
    /\ \E S : letterAsks \in [Lawyers -> S]
    /\ \A u \in Lawyers : LetterAskSound(letterAsks[u])
    /\ letter.status = "none" => letter = LETTER!NoLetter /\ mail = "none" /\ ~posted
    /\ letter.status \notin {"none", "awaiting_approval"} => ReadByALawyer
    /\ mail = "bounced" => problems > 0 \/ dropped
    /\ LETTER!LettersAreSound

LEMMA LetterAskOf ==
    ASSUME LetterInv, NEW u \in Lawyers, NEW a, letterAsks' = [letterAsks EXCEPT ![u] = a],
           LetterAskSound(a)', letter.status # "none" => letter'.status # "none",
           ReadByALawyer => ReadByALawyer'
    PROVE  (\E S : letterAsks' \in [Lawyers -> S]) /\ \A v \in Lawyers : LetterAskSound(letterAsks[v])'
  <1>1. \A v \in Lawyers : letterAsks'[v] = IF v = u THEN a ELSE letterAsks[v]
    BY DEF LetterInv
  <1>2. letterAsks' \in [Lawyers -> {letterAsks[v] : v \in Lawyers} \cup {a}]
    BY <1>1 DEF LetterInv
  <1>3. ASSUME NEW v \in Lawyers PROVE LetterAskSound(letterAsks[v])'
    <2>1. CASE v = u
      BY <1>1, <2>1 DEF LetterAskSound, ReadByALawyer
    <2>2. CASE v # u
      <3>1. LetterAskSound(letterAsks[v]) /\ letterAsks'[v] = letterAsks[v]
        BY <1>1, <2>2 DEF LetterInv
      <3> QED
        BY <3>1 DEF LetterAskSound, LETTER!Idle
    <2> QED
      BY <2>1, <2>2
  <1> QED
    BY <1>2, <1>3

LEMMA NoAskIsSound == LETTER!Idle.op = "none" /\ LetterAskSound(LETTER!Idle) /\ LetterAskSound(LETTER!Idle)'
  <1>1. LETTER!Idle.op = "none"
    BY DEF LETTER!Idle
  <1> QED
    BY <1>1 DEF LetterAskSound, LETTER!Idle

\* What sending leaves, whoever sends.
LEMMA SentIsFollowedUp ==
    ASSUME LetterInv, NEW ready \in LetterType, NEW sending, LETTER!Sent(ready, sending),
           posted' = posted, dropped' = dropped, ready.type = "conflict" => ready.by = "lawyer"
    PROVE  /\ letter' \in LetterType /\ letter'.status \in {"sent", "no_channel"} /\ problems' \in Nat
           /\ mail' \in {"none", "out", "bounced"}
           /\ ReadByALawyer'
           /\ mail' = "bounced" => problems' > 0 \/ dropped'
           /\ LETTER!LettersAreSound'
  <1>1. CASE safe
    <2>1. /\ mail' = IF mail = "none" THEN "out" ELSE mail
          /\ letter' = [ready EXCEPT !.status = "sent", !.channel = "email"]
          /\ problems' = problems
      BY <1>1 DEF LETTER!Sent
    <2>2. letter' \in LetterType /\ letter'.status = "sent" /\ letter'.type = ready.type /\ letter'.by = ready.by
      BY <2>1 DEF LetterType
    <2>3. mail' = "out" \/ mail' = "bounced"
      BY <2>1 DEF LetterInv
    <2> QED
      BY <2>1, <2>2, <2>3 DEF LetterInv, ReadByALawyer, LETTER!LettersAreSound, LETTER!LetterIsFollowedUp,
                              LETTER!ConflictLettersAreRead
  <1>2. CASE ~safe
    <2>1. /\ letter' = [ready EXCEPT !.status = "no_channel"]
          /\ problems' = problems + 1 /\ mail' = mail
      BY <1>2 DEF LETTER!Sent, LETTER!DeliveryProblem
    <2>2. letter' \in LetterType /\ letter'.status = "no_channel" /\ letter'.type = ready.type /\ letter'.by = ready.by
      BY <2>1 DEF LetterType
    <2>3. problems' \in Nat /\ problems' > 0
      BY <2>1 DEF LetterInv
    <2> QED
      BY <2>1, <2>2, <2>3 DEF LetterInv, ReadByALawyer, LETTER!LettersAreSound, LETTER!LetterIsFollowedUp,
                              LETTER!ConflictLettersAreRead
  <1> QED
    BY <1>1, <1>2

LEMMA LetterStays ==
    ASSUME LetterInv, [LETTER!Next]_(LETTER!vars)
    PROVE  LetterInv'
  <1> USE DEF LETTER!LettersAreSound, LETTER!LetterIsFollowedUp, LETTER!ConflictLettersAreRead
  <1>1. CASE LETTER!WordingChanges \/ LETTER!AddressChanges \/ UNCHANGED LETTER!vars
    <2>1. UNCHANGED <<letter, approval, problems, mail, posted, dropped, letterAsks>>
      BY <1>1 DEF LETTER!WordingChanges, LETTER!AddressChanges, LETTER!vars
    <2> QED
      BY <2>1 DEF LetterInv, LetterAskSound, ReadByALawyer
  <1>2. ASSUME NEW type \in LETTER!DeclineTypes, LETTER!StartLetter(type) PROVE LetterInv'
    <2> DEFINE started == [status |-> "awaiting_approval", type |-> type, by |-> "nobody", channel |-> "none"]
               templated == [started EXCEPT !.by = "template"]
    <2>1. /\ letter = LETTER!NoLetter /\ UNCHANGED <<posted, dropped, letterAsks>>
          /\ \/ wording /\ ~LETTER!NeedsIndividualApproval(type) /\ LETTER!Sent(templated, "open")
             \/ letter' = started /\ approval' = "open" /\ UNCHANGED <<problems, made, mail>>
      BY <1>2 DEF LETTER!StartLetter
    <2>2. letter.status = "none" /\ mail = "none" /\ ~posted
      BY <2>1 DEF LetterInv, LETTER!NoLetter
    <2>3. \A u \in Lawyers : letterAsks'[u] = LETTER!Idle
      BY <2>1, <2>2 DEF LetterInv, LetterAskSound
    <2>4. \A u \in Lawyers : LetterAskSound(letterAsks[u])'
      BY <2>3, NoAskIsSound DEF LetterAskSound
    <2>5. CASE wording /\ ~LETTER!NeedsIndividualApproval(type) /\ LETTER!Sent(templated, "open")
      <3>1. templated \in LetterType /\ templated.type # "conflict"
        BY <2>5 DEF LetterType, LETTER!NeedsIndividualApproval
      <3> HIDE DEF templated
      <3>2. /\ letter' \in LetterType /\ letter'.status \in {"sent", "no_channel"} /\ problems' \in Nat
            /\ ReadByALawyer' /\ (mail' = "bounced" => problems' > 0 \/ dropped')
            /\ mail' \in {"none", "out", "bounced"}
            /\ LETTER!LettersAreSound'
        BY <2>1, <2>5, <3>1, SentIsFollowedUp
      <3> QED
        BY <2>1, <2>4, <3>2 DEF LetterInv
    <2>6. CASE letter' = started /\ approval' = "open" /\ UNCHANGED <<problems, made, mail>>
      <3>1. letter' \in LetterType /\ letter'.status = "awaiting_approval"
        BY <2>6 DEF LetterType
      <3> QED
        BY <2>1, <2>2, <2>4, <2>6, <3>1 DEF LetterInv
    <2> QED
      BY <2>1, <2>5, <2>6
  <1>3. ASSUME NEW u \in Lawyers, LETTER!ReadToApprove(u) \/ LETTER!ReadToSend(u) \/ LETTER!ReadToPost(u)
        PROVE  LetterInv'
    <2>1. PICK op, statuses : /\ LETTER!Read(u, op, statuses)
                              /\ op \in {"send", "post"} => letter.status \notin {"none", "awaiting_approval"}
                              /\ "none" \notin statuses
      <3>1. CASE LETTER!ReadToApprove(u)
        BY <3>1 DEF LETTER!ReadToApprove
      <3>2. CASE LETTER!ReadToSend(u)
        <4>1. LETTER!Read(u, "send", {"approved"}) /\ letter.status = "approved"
          BY <3>2 DEF LETTER!ReadToSend, LETTER!Read
        <4> QED
          BY <4>1
      <3>3. CASE LETTER!ReadToPost(u)
        <4>1. /\ LETTER!Read(u, "post", {"approved", "no_channel", "bounced"})
              /\ letter.status \in {"approved", "no_channel", "bounced"}
          BY <3>3 DEF LETTER!ReadToPost, LETTER!Read
        <4> QED
          BY <4>1
      <3> QED
        BY <1>3, <3>1, <3>2, <3>3
    <2> PICK a : a = [op |-> op, letter |-> letter]
      OBVIOUS
    <2>2. /\ letter.status # "none" /\ letterAsks' = [letterAsks EXCEPT ![u] = a]
          /\ UNCHANGED <<letter, approval, problems, mail, posted, dropped>>
      BY <2>1 DEF LETTER!Read
    <2>3. a.op = op
      OBVIOUS
    <2>4. ReadByALawyer' <=> ReadByALawyer
      BY <2>2 DEF ReadByALawyer
    <2>5. op \in {"send", "post"} => ReadByALawyer
      BY <2>1 DEF LetterInv
    <2>6. LetterAskSound(a)'
      BY <2>2, <2>3, <2>4, <2>5 DEF LetterAskSound
    <2>7. (\E S : letterAsks' \in [Lawyers -> S]) /\ \A v \in Lawyers : LetterAskSound(letterAsks[v])'
      BY <2>2, <2>6, <2>4, LetterAskOf
    <2> QED
      BY <2>2, <2>7 DEF LetterInv, ReadByALawyer
  <1>4. ASSUME NEW u \in Lawyers, LETTER!ApproveLetter(u) PROVE LetterInv'
    <2>1. /\ letterAsks[u].op = "approve" /\ letter' = [letter EXCEPT !.status = "approved", !.by = "lawyer"]
          /\ letterAsks' = [letterAsks EXCEPT ![u] = LETTER!Idle]
          /\ UNCHANGED <<approval, problems, mail, posted, dropped>>
      BY <1>4 DEF LETTER!ApproveLetter, LETTER!Finish
    <2>2. letter' \in LetterType /\ letter'.status = "approved" /\ letter'.by = "lawyer"
      BY <2>1 DEF LetterInv, LetterType
    <2>3. letter.status # "none"
      BY <2>1, NoAskIsSound DEF LetterInv, LetterAskSound
    <2>4. (\E S : letterAsks' \in [Lawyers -> S]) /\ \A v \in Lawyers : LetterAskSound(letterAsks[v])'
      BY <2>1, <2>2, NoAskIsSound, LetterAskOf DEF ReadByALawyer
    <2>5. letter # LETTER!NoLetter
      BY <2>3 DEF LETTER!NoLetter
    <2> QED
      BY <2>1, <2>2, <2>4, <2>5 DEF LetterInv, ReadByALawyer
  <1>5. ASSUME NEW u \in Lawyers, LETTER!SendLetter(u) PROVE LetterInv'
    <2>1. /\ letterAsks[u].op = "send" /\ LETTER!Sent(letter, approval)
          /\ letterAsks' = [letterAsks EXCEPT ![u] = LETTER!Idle] /\ UNCHANGED <<posted, dropped>>
      BY <1>5 DEF LETTER!SendLetter, LETTER!Finish
    <2>2. ReadByALawyer /\ letter \in LetterType
      BY <2>1 DEF LetterInv, LetterAskSound
    <2>3. /\ letter' \in LetterType /\ letter'.status \in {"sent", "no_channel"} /\ problems' \in Nat
          /\ ReadByALawyer' /\ (mail' = "bounced" => problems' > 0 \/ dropped')
          /\ mail' \in {"none", "out", "bounced"}
          /\ LETTER!LettersAreSound'
      BY <2>1, <2>2, SentIsFollowedUp DEF ReadByALawyer
    <2>4. (\E S : letterAsks' \in [Lawyers -> S]) /\ \A v \in Lawyers : LetterAskSound(letterAsks[v])'
      BY <2>1, <2>3, NoAskIsSound, LetterAskOf
    <2> QED
      BY <2>3, <2>4 DEF LetterInv
  <1>6. ASSUME NEW u \in Lawyers, LETTER!RecordPostalLetter(u) PROVE LetterInv'
    <2>1. /\ letterAsks[u].op = "post" /\ letter' = [letter EXCEPT !.status = "sent", !.channel = "postal"]
          /\ posted' = TRUE /\ letterAsks' = [letterAsks EXCEPT ![u] = LETTER!Idle]
          /\ UNCHANGED <<problems, mail, dropped>>
      BY <1>6 DEF LETTER!RecordPostalLetter, LETTER!Finish
    <2>2. /\ letter' \in LetterType /\ letter'.status = "sent"
          /\ letter'.by = letter.by /\ letter'.type = letter.type
      BY <2>1 DEF LetterInv, LetterType
    <2>3. ReadByALawyer /\ ReadByALawyer'
      BY <2>1, <2>2 DEF LetterInv, LetterAskSound, ReadByALawyer
    <2>4. (\E S : letterAsks' \in [Lawyers -> S]) /\ \A v \in Lawyers : LetterAskSound(letterAsks[v])'
      BY <2>1, <2>2, <2>3, NoAskIsSound, LetterAskOf
    <2> QED
      BY <2>1, <2>2, <2>3, <2>4 DEF LetterInv, ReadByALawyer
  <1>7. CASE LETTER!RecordDelivered \/ LETTER!RecordBounced
    <2>1. PICK status \in {"delivered", "bounced"} : letter' = [letter EXCEPT !.status = status]
      BY <1>7 DEF LETTER!RecordDelivered, LETTER!RecordBounced
    <2>2. /\ mail = "out" \/ posted
          /\ UNCHANGED <<posted, dropped, letterAsks>>
          /\ \/ UNCHANGED <<mail, problems>>
             \/ mail = "out" /\ mail' = "bounced" /\ problems' = problems + 1
      BY <1>7 DEF LETTER!RecordDelivered, LETTER!RecordBounced, LETTER!DeliveryProblem
    <2>3. UNCHANGED <<posted, dropped, letterAsks>> /\ (mail = "out" \/ posted)
      BY <1>7 DEF LETTER!RecordDelivered, LETTER!RecordBounced
    <2>4. /\ letter' \in LetterType /\ letter'.status = status
          /\ letter'.by = letter.by /\ letter'.type = letter.type
      BY <2>1 DEF LetterInv, LetterType
    <2>5. ReadByALawyer /\ ReadByALawyer' /\ letter.status # "none"
      BY <2>3, <2>4 DEF LetterInv, ReadByALawyer
    <2>6. \A v \in Lawyers : LetterAskSound(letterAsks[v])'
      BY <2>3, <2>4, <2>5 DEF LetterInv, LetterAskSound, LETTER!Idle
    <2>7. problems' \in Nat /\ mail' \in {"none", "out", "bounced"} /\ (mail' = "bounced" => problems' > 0 \/ dropped')
      BY <2>2, <2>3 DEF LetterInv
    <2>8. LETTER!LetterIsFollowedUp'
      BY <2>2, <2>3 DEF LetterInv
    <2>9. LETTER!ConflictLettersAreRead'
      BY <2>5 DEF ReadByALawyer
    <2> QED
      BY <2>3, <2>4, <2>5, <2>6, <2>7, <2>8, <2>9 DEF LetterInv
  <1>8. CASE LETTER!CloseTaskByHand
    <2>1. /\ dropped' = TRUE /\ UNCHANGED <<letter, mail, posted, letterAsks>> /\ problems' \in Nat
      BY <1>8 DEF LetterInv, LETTER!CloseTaskByHand
    <2> QED
      BY <2>1 DEF LetterInv, LetterAskSound, ReadByALawyer
  <1> QED
    BY <1>1, <1>2, <1>3, <1>4, <1>5, <1>6, <1>7, <1>8 DEF LETTER!Next

\* However decisions, sendings and reports overlap: a letter that has not
\* reached the post or the mail is on somebody's list, and one about a
\* conflict went out only after a lawyer approved it (letterService.ts).
LEMMA ListedOfLetters == LETTER!Spec => []LETTER!LettersAreSound
  <1>1. LETTER!Init => LetterInv
    <2> SUFFICES ASSUME LETTER!Init PROVE LetterInv
      OBVIOUS
    <2>1. /\ letter = LETTER!NoLetter /\ problems = 0 /\ mail = "none" /\ posted = FALSE
          /\ letterAsks = [u \in Lawyers |-> LETTER!Idle]
      BY DEF LETTER!Init
    <2>2. letter \in LetterType /\ letter.status = "none" /\ letter.type = "none"
      BY <2>1 DEF LETTER!NoLetter, LetterType
    <2>3. letterAsks \in [Lawyers -> {LETTER!Idle}]
      BY <2>1
    <2>4. \A u \in Lawyers : LetterAskSound(letterAsks[u])
      BY <2>1, NoAskIsSound
    <2>5. LETTER!LettersAreSound
      BY <2>1 DEF LETTER!LettersAreSound, LETTER!LetterIsFollowedUp, LETTER!ConflictLettersAreRead
    <2> QED
      BY <2>1, <2>2, <2>3, <2>4, <2>5 DEF LetterInv
  <1>2. LetterInv /\ [LETTER!Next]_(LETTER!vars) => LetterInv'
    BY LetterStays
  <1>3. LetterInv => LETTER!LettersAreSound
    BY DEF LetterInv
  <1> QED
    BY <1>1, <1>2, <1>3, PTL DEF LETTER!Spec

-----------------------------------------------------------------------------
(* A deadline on the calendar.                                             *)

\* What a person who reads before they write was told, and what it still says of
\* the entry: its day, unless it was moved since.
AskSound(a) ==
    /\ a.op = "move" => a.day \in Nat \ {0}
    /\ a.op \in {"confirm", "cancel"} => event.status # "none"
    /\ a.op = "confirm" => /\ a = [op |-> "confirm", day |-> a.day, moved |-> a.moved]
                           /\ ~a.moved => a.day = event.at
    /\ a.op = "redate" => /\ a.day \in Nat /\ a.confirmed \in Nat
                          /\ a.confirmed # 0 => a.day <= a.confirmed

\* A deadline that waits to be confirmed has its reminder on that day or an
\* earlier one, unless it is loose, so that confirming it puts no reminder late.
CalInv ==
    /\ event \in [status : CAL!Statuses \cup {"none"}, at : Nat]
    /\ event.status # "none" => event.at # 0
    /\ deadlineTask \in [open : BOOLEAN, due : Nat] /\ vouched \in Nat
    /\ \E S : moves \in [CAL!Staff -> S]
    /\ \A u \in CAL!Staff : AskSound(moves[u])
    /\ deadlineTask.open => event.status # "none"
    /\ deadlineTask.open /\ ~loose => deadlineTask.due <= event.at
    /\ ~deadlineTask.open => ~loose
    /\ CAL!ReminderNeverSlips

LEMMA NobodyMoves == AskSound(CAL!NoAsk) /\ AskSound(CAL!NoAsk)'
  BY DEF CAL!NoAsk, AskSound

\* Asks that are as they were, or gone, are as sound as they were, whatever becomes
\* of an entry that stays where it is.
LEMMA AsksGo ==
    ASSUME CalInv, event'.at = event.at \/ event.status = "none", event'.status # "none" \/ event' = event,
           NEW r, AskSound(r)', NEW u \in CAL!Staff,
           DOMAIN moves' = CAL!Staff, moves' = [v \in DOMAIN moves' |-> moves'[v]],
           \A v \in CAL!Staff : moves'[v] = moves[v] \/ moves'[v] = CAL!NoAsk \/ (v = u /\ moves'[v] = r)
    PROVE  /\ \E S : moves' \in [CAL!Staff -> S]
           /\ \A v \in CAL!Staff : AskSound(moves[v])'
  <1>1. moves' \in [CAL!Staff -> {moves'[v] : v \in CAL!Staff}]
    OBVIOUS
  <1>2. ASSUME NEW v \in CAL!Staff PROVE AskSound(moves[v])'
    <2>1. CASE moves'[v] = moves[v]
      <3>1. AskSound(moves[v])
        BY DEF CalInv
      <3> QED
        BY <2>1, <3>1 DEF AskSound
    <2>2. CASE moves'[v] = CAL!NoAsk
      BY <2>2 DEF AskSound, CAL!NoAsk
    <2>3. CASE moves'[v] = r
      BY <2>3 DEF AskSound
    <2> QED
      BY <2>1, <2>2, <2>3
  <1> QED
    BY <1>1, <1>2

LEMMA MovesGo ==
    ASSUME CalInv, event'.at = event.at \/ event.status = "none", event'.status # "none" \/ event' = event,
           NEW u \in CAL!Staff, NEW r, AskSound(r)', moves' = [moves EXCEPT ![u] = r]
    PROVE  /\ \E S : moves' \in [CAL!Staff -> S]
           /\ \A v \in CAL!Staff : AskSound(moves[v])'
  <1>1. DOMAIN moves = CAL!Staff
    BY DEF CalInv
  <1>2. /\ DOMAIN moves' = CAL!Staff /\ moves' = [v \in DOMAIN moves' |-> moves'[v]]
        /\ \A v \in CAL!Staff : moves'[v] = moves[v] \/ (v = u /\ moves'[v] = r)
    BY <1>1
  <1> QED
    BY <1>2, AsksGo

LEMMA CalStays ==
    ASSUME CAL!CalendarAssumption, CalInv, [CAL!Next]_(CAL!vars)
    PROVE  CalInv'
  <1> USE DEF CAL!ReminderNeverSlips
  <1>t. /\ event \in [status : CAL!Statuses \cup {"none"}, at : Nat]
        /\ deadlineTask \in [open : BOOLEAN, due : Nat] /\ vouched \in Nat
        /\ event.status # "none" => event.at # 0
    BY DEF CalInv
  <1>d. \A day \in EventDays : day \in Nat \ {0}
    BY DEF CAL!CalendarAssumption
  <1>1. ASSUME NEW day \in EventDays, NEW status \in {"proposed", "confirmed"}, CAL!Enter(status, day) PROVE CalInv'
    <2>1. /\ event.status = "none" /\ event' = [status |-> status, at |-> day] /\ UNCHANGED <<moves, loose>>
          /\ deadlineTask' = IF status = "confirmed" THEN CAL!TaskWhenConfirmed(day) ELSE deadlineTask
          /\ IF status = "confirmed" THEN vouched' = day /\ seen' = day /\ overtaken' = FALSE
             ELSE UNCHANGED <<vouched, seen, overtaken>>
      BY <1>1 DEF CAL!Enter, CAL!VouchedFor
    <2>2. ~deadlineTask.open
      BY <2>1 DEF CalInv
    <2>3. deadlineTask' = IF status = "confirmed" THEN [open |-> TRUE, due |-> day] ELSE deadlineTask
      BY <2>1, <2>2 DEF CAL!TaskWhenConfirmed
    <2>4. event' \in [status : CAL!Statuses \cup {"none"}, at : Nat] /\ event'.status = status /\ event'.at = day
      BY <1>d, <2>1 DEF CAL!Statuses
    <2>5. \A u \in CAL!Staff : AskSound(moves[u])'
      <3> SUFFICES ASSUME NEW u \in CAL!Staff PROVE AskSound(moves[u])'
        OBVIOUS
      <3>1. AskSound(moves[u]) /\ moves'[u] = moves[u]
        BY <2>1 DEF CalInv
      <3> QED
        BY <2>1, <3>1 DEF AskSound
    <2>6. CASE status = "confirmed"
      <3>1. deadlineTask' = [open |-> TRUE, due |-> day] /\ vouched' = day /\ day \in Nat \ {0}
        BY <1>d, <2>1, <2>3, <2>6
      <3>2. deadlineTask' \in [open : BOOLEAN, due : Nat] /\ deadlineTask'.due = day /\ deadlineTask'.open
        BY <3>1
      <3> QED
        BY <2>1, <2>4, <2>5, <2>6, <3>1, <3>2 DEF CalInv
    <2>7. CASE status # "confirmed"
      BY <1>d, <2>1, <2>2, <2>3, <2>4, <2>5, <2>7 DEF CalInv
    <2> QED
      BY <2>6, <2>7
  <1>2. ASSUME NEW u \in CAL!Staff, CAL!ReadToConfirm(u) PROVE CalInv'
    <2> PICK r : r = [op |-> "confirm", day |-> event.at, moved |-> FALSE]
      OBVIOUS
    <2>1. moves' = [moves EXCEPT ![u] = r] /\ UNCHANGED <<event, deadlineTask, vouched, seen, overtaken, loose>>
      BY <1>2 DEF CAL!ReadToConfirm, CAL!history
    <2>2. AskSound(r)'
      BY <1>2, <2>1 DEF AskSound, CAL!ReadToConfirm
    <2>3. /\ \E S : moves' \in [CAL!Staff -> S]
          /\ \A v \in CAL!Staff : AskSound(moves[v])'
      BY <2>1, <2>2, MovesGo
    <2> QED
      BY <2>1, <2>3 DEF CalInv
  <1>3. ASSUME NEW u \in CAL!Staff, CAL!ConfirmEvent(u) PROVE CalInv'
    <2>1. moves[u].op = "confirm" /\ moves' = [moves EXCEPT ![u] = CAL!NoAsk] /\ UNCHANGED loose
      BY <1>3 DEF CAL!ConfirmEvent
    <2>2. CASE event.status # "proposed"
      <3>1. UNCHANGED <<event, deadlineTask, vouched, seen, overtaken>>
        BY <1>3, <2>2 DEF CAL!ConfirmEvent
      <3>2. /\ \E S : moves' \in [CAL!Staff -> S]
            /\ \A v \in CAL!Staff : AskSound(moves[v])'
        BY <2>1, <3>1, NobodyMoves, MovesGo
      <3> QED
        BY <2>1, <3>1, <3>2 DEF CalInv
    <2>3. CASE event.status = "proposed"
      <3>1. /\ event' = [event EXCEPT !.status = "confirmed"]
            /\ vouched' = event.at /\ seen' = moves[u].day /\ overtaken' = moves[u].moved
            /\ deadlineTask' = IF deadlineTask.open THEN deadlineTask ELSE [open |-> TRUE, due |-> event.at]
        BY <1>3, <2>3 DEF CAL!ConfirmEvent, CAL!VouchedFor, CAL!TaskWhenConfirmed
      <3>2. /\ event' \in [status : CAL!Statuses \cup {"none"}, at : Nat]
            /\ event'.status = "confirmed" /\ event'.at = event.at /\ event.at \in Nat
        BY <1>t, <3>1 DEF CAL!Statuses
      <3>3. /\ deadlineTask' \in [open : BOOLEAN, due : Nat] /\ deadlineTask'.open
            /\ ~loose => deadlineTask'.due <= event.at
        BY <1>t, <3>1, <3>2 DEF CalInv
      <3>4. /\ \E S : moves' \in [CAL!Staff -> S]
            /\ \A v \in CAL!Staff : AskSound(moves[v])'
        BY <2>1, <3>2, NobodyMoves, MovesGo
      <3>5. ~moves[u].moved => moves[u].day = event.at
        BY <2>1 DEF CalInv, AskSound
      <3> QED
        BY <1>t, <2>1, <2>3, <3>1, <3>2, <3>3, <3>4, <3>5 DEF CalInv
    <2> QED
      BY <2>2, <2>3
  <1>4. ASSUME NEW u \in CAL!Staff, NEW day \in EventDays, CAL!ReadToMove(u, day) PROVE CalInv'
    <2> PICK r : r = [op |-> "move", day |-> day, status |-> event.status]
      OBVIOUS
    <2>1. moves' = [moves EXCEPT ![u] = r] /\ UNCHANGED <<event, deadlineTask, vouched, seen, overtaken, loose>>
      BY <1>4 DEF CAL!ReadToMove, CAL!history
    <2>2. AskSound(r)'
      BY <1>d DEF AskSound
    <2>3. /\ \E S : moves' \in [CAL!Staff -> S]
          /\ \A v \in CAL!Staff : AskSound(moves[v])'
      BY <2>1, <2>2, MovesGo
    <2> QED
      BY <2>1, <2>3 DEF CalInv
  <1>5. ASSUME NEW u \in CAL!Staff, CAL!MoveEvent(u) PROVE CalInv'
    <2> PICK day, status : day = moves[u].day /\ status = CAL!StatusAfterMove(u, moves[u].status)
      OBVIOUS
    <2>1. /\ moves[u].op = "move" /\ event' = [status |-> status, at |-> day]
          /\ deadlineTask' = IF deadlineTask.open
                             THEN [deadlineTask EXCEPT !.due = CAL!DueAfterMove(status, day, deadlineTask.due)]
                             ELSE deadlineTask
          /\ IF status # "confirmed" THEN UNCHANGED <<vouched, seen, overtaken, loose>>
             ELSE /\ vouched' = (IF u \in Attorneys THEN day ELSE 0)
                  /\ seen' = day /\ overtaken' = FALSE /\ loose' = FALSE
          /\ moves' = [v \in CAL!Staff |-> IF v = u THEN CAL!NoAsk
                                          ELSE IF moves[v].op = "confirm"
                                          THEN [op |-> "confirm", day |-> moves[v].day, moved |-> TRUE]
                                          ELSE moves[v]]
      BY <1>5 DEF CAL!MoveEvent, CAL!VouchedFor, CAL!history
    <2>2. day \in Nat /\ day # 0
      BY <2>1 DEF CalInv, AskSound
    <2>3. status \in {"proposed", "confirmed"} /\ (status = "confirmed" => u \in Attorneys)
      BY DEF CAL!StatusAfterMove
    <2>4. event' \in [status : CAL!Statuses \cup {"none"}, at : Nat] /\ event'.status = status /\ event'.at = day
      BY <2>1, <2>2, <2>3 DEF CAL!Statuses
    <2>5. /\ \E S : moves' \in [CAL!Staff -> S]
          /\ \A v \in CAL!Staff : AskSound(moves[v])'
      <3>1. moves' \in [CAL!Staff -> {moves'[v] : v \in CAL!Staff}]
        BY <2>1
      <3>2. ASSUME NEW v \in CAL!Staff PROVE AskSound(moves[v])'
        <4>1. CASE v = u
          <5>1. moves'[v] = CAL!NoAsk
            BY <2>1, <4>1
          <5> QED
            BY <5>1 DEF AskSound, CAL!NoAsk
        <4>2. CASE v # u /\ moves[v].op = "confirm"
          <5>1. moves'[v] = [op |-> "confirm", day |-> moves[v].day, moved |-> TRUE]
            BY <2>1, <4>2
          <5> QED
            BY <2>3, <2>4, <5>1 DEF AskSound
        <4>3. CASE v # u /\ moves[v].op # "confirm"
          <5>1. moves'[v] = moves[v]
            BY <2>1, <4>3
          <5>2. AskSound(moves[v])
            BY DEF CalInv
          <5> QED
            BY <2>3, <2>4, <4>3, <5>1, <5>2 DEF AskSound
        <4> QED
          BY <4>1, <4>2, <4>3
      <3> QED
        BY <3>1, <3>2
    <2>6. status = "confirmed" => vouched' = day /\ seen' = day /\ ~loose'
      BY <2>1, <2>3
    <2>7. PICK due : due = CAL!DueAfterMove(status, day, deadlineTask.due)
      OBVIOUS
    <2>8. /\ due \in Nat /\ due <= day
          /\ status # "confirmed" => due <= deadlineTask.due
      BY <1>t, <2>2, <2>7 DEF CAL!DueAfterMove, CAL!Least
    <2>9. vouched' \in Nat /\ event'.at # 0 /\ (~deadlineTask.open => ~loose')
      BY <1>t, <2>1, <2>2, <2>4, <2>6 DEF CalInv
    <2>10. CASE deadlineTask.open
      <3>1. deadlineTask' = [deadlineTask EXCEPT !.due = due]
        BY <2>1, <2>7, <2>10
      <3>2. deadlineTask' \in [open : BOOLEAN, due : Nat] /\ deadlineTask'.due = due /\ deadlineTask'.open
        BY <1>t, <2>8, <2>10, <3>1
      <3>3. ~loose' => deadlineTask'.due <= vouched'
        <4>1. CASE status = "confirmed"
          BY <2>6, <2>8, <3>2, <4>1
        <4>2. CASE status # "confirmed"
          BY <1>t, <2>1, <2>8, <2>10, <3>2, <4>2 DEF CalInv
        <4> QED
          BY <4>1, <4>2
      <3> QED
        BY <2>3, <2>4, <2>5, <2>6, <2>8, <2>9, <3>2, <3>3 DEF CalInv
    <2>11. CASE ~deadlineTask.open
      <3>1. deadlineTask' = deadlineTask
        BY <2>1, <2>11
      <3> QED
        BY <1>t, <2>3, <2>4, <2>5, <2>6, <2>9, <2>11, <3>1 DEF CalInv
    <2> QED
      BY <2>10, <2>11
  <1>6. ASSUME NEW u \in CAL!Staff, CAL!ReadToCancel(u) PROVE CalInv'
    <2> PICK r : r = [op |-> "cancel"]
      OBVIOUS
    <2>1. moves' = [moves EXCEPT ![u] = r] /\ UNCHANGED <<event, deadlineTask, vouched, seen, overtaken, loose>>
      BY <1>6 DEF CAL!ReadToCancel, CAL!history
    <2>2. AskSound(r)'
      BY <1>6, <2>1 DEF AskSound, CAL!ReadToCancel
    <2>3. /\ \E S : moves' \in [CAL!Staff -> S]
          /\ \A v \in CAL!Staff : AskSound(moves[v])'
      BY <2>1, <2>2, MovesGo
    <2> QED
      BY <2>1, <2>3 DEF CalInv
  <1>7. ASSUME NEW u \in CAL!Staff, CAL!CancelEvent(u) PROVE CalInv'
    <2>1. UNCHANGED <<vouched, seen, overtaken>>
      BY <1>7 DEF CAL!CancelEvent
    <2>2. CASE event.status = "cancelled"
      <3>1. moves' = [moves EXCEPT ![u] = CAL!NoAsk] /\ UNCHANGED <<event, deadlineTask, loose>>
        BY <1>7, <2>2 DEF CAL!CancelEvent
      <3>2. /\ \E S : moves' \in [CAL!Staff -> S]
            /\ \A v \in CAL!Staff : AskSound(moves[v])'
        BY <3>1, NobodyMoves, MovesGo
      <3> QED
        BY <2>1, <3>1, <3>2 DEF CalInv
    <2>3. CASE event.status # "cancelled"
      <3>1. /\ moves' = [CAL!WithoutRedates EXCEPT ![u] = CAL!NoAsk]
            /\ event' = [event EXCEPT !.status = "cancelled"] /\ deadlineTask' = CAL!NoTask /\ loose' = FALSE
        BY <1>7, <2>3 DEF CAL!CancelEvent
      <3>2. event' \in [status : CAL!Statuses \cup {"none"}, at : Nat] /\ event'.status = "cancelled" /\ event'.at = event.at
        BY <1>t, <3>1 DEF CAL!Statuses
      <3>3. deadlineTask' \in [open : BOOLEAN, due : Nat] /\ ~deadlineTask'.open
        BY <3>1 DEF CAL!NoTask
      <3>4. event.at # 0
        <4>1. moves[u].op = "cancel"
          BY <1>7 DEF CAL!CancelEvent
        <4> QED
          BY <4>1 DEF CalInv, AskSound
      <3>5. /\ \E S : moves' \in [CAL!Staff -> S]
            /\ \A v \in CAL!Staff : AskSound(moves[v])'
        <4>1. /\ DOMAIN moves' = CAL!Staff /\ moves' = [v \in DOMAIN moves' |-> moves'[v]]
              /\ \A v \in CAL!Staff : moves'[v] = moves[v] \/ moves'[v] = CAL!NoAsk
          BY <3>1 DEF CAL!WithoutRedates
        <4> QED
          BY <3>2, <4>1, NobodyMoves, AsksGo
      <3> QED
        BY <1>t, <2>1, <3>1, <3>2, <3>3, <3>4, <3>5 DEF CalInv
    <2> QED
      BY <2>2, <2>3
  <1>8. CASE CAL!CompleteTask
    <2>1. /\ deadlineTask' = CAL!NoTask /\ loose' = FALSE /\ moves' = CAL!WithoutRedates
          /\ UNCHANGED <<event, vouched, seen, overtaken>>
      BY <1>8 DEF CAL!CompleteTask
    <2>2. deadlineTask' \in [open : BOOLEAN, due : Nat] /\ ~deadlineTask'.open
      BY <2>1 DEF CAL!NoTask
    <2>3. /\ \E S : moves' \in [CAL!Staff -> S]
          /\ \A v \in CAL!Staff : AskSound(moves[v])'
      <3>1. moves' \in [CAL!Staff -> {moves'[v] : v \in CAL!Staff}]
        BY <2>1 DEF CAL!WithoutRedates
      <3>2. ASSUME NEW v \in CAL!Staff PROVE AskSound(moves[v])'
        <4>1. moves'[v] = moves[v] \/ moves'[v] = CAL!NoAsk
          BY <2>1 DEF CAL!WithoutRedates
        <4>2. AskSound(moves[v])
          BY DEF CalInv
        <4> QED
          BY <2>1, <4>1, <4>2, NobodyMoves DEF AskSound
      <3> QED
        BY <3>1, <3>2
    <2> QED
      BY <2>1, <2>2, <2>3 DEF CalInv
  <1>9. ASSUME NEW u \in CAL!Staff, NEW day \in EventDays, CAL!ReadToRedate(u, day) PROVE CalInv'
    <2> PICK r : r = [op |-> "redate", day |-> day,
                      confirmed |-> IF event.status = "confirmed" THEN event.at ELSE 0]
      OBVIOUS
    <2>1. moves' = [moves EXCEPT ![u] = r] /\ UNCHANGED <<event, deadlineTask, vouched, seen, overtaken, loose>>
      BY <1>9 DEF CAL!ReadToRedate, CAL!history
    <2>2. event.status = "confirmed" => day <= event.at
      BY <1>9 DEF CAL!ReadToRedate
    <2>3. AskSound(r)'
      BY <1>d, <1>t, <2>2 DEF AskSound
    <2>4. /\ \E S : moves' \in [CAL!Staff -> S]
          /\ \A v \in CAL!Staff : AskSound(moves[v])'
      BY <2>1, <2>3, MovesGo
    <2> QED
      BY <2>1, <2>4 DEF CalInv
  <1>10. ASSUME NEW u \in CAL!Staff, CAL!RedateTask(u) PROVE CalInv'
    <2>1. /\ moves[u].op = "redate" /\ deadlineTask.open /\ deadlineTask' = [deadlineTask EXCEPT !.due = moves[u].day]
          /\ loose' = ~(event.status = "confirmed" /\ moves[u].confirmed = event.at)
          /\ moves' = [moves EXCEPT ![u] = CAL!NoAsk] /\ UNCHANGED <<event, vouched, seen, overtaken>>
      BY <1>10 DEF CAL!RedateTask
    <2>2. /\ moves[u].day \in Nat
          /\ moves[u].confirmed # 0 => moves[u].day <= moves[u].confirmed
      BY <2>1 DEF CalInv, AskSound
    <2>3. /\ deadlineTask' \in [open : BOOLEAN, due : Nat] /\ deadlineTask'.open
          /\ deadlineTask'.due = moves[u].day
      BY <1>t, <2>1, <2>2
    <2>4. ~loose' => deadlineTask'.due <= event.at /\ vouched = event.at
      BY <1>t, <2>1, <2>2, <2>3 DEF CalInv
    <2>5. /\ \E S : moves' \in [CAL!Staff -> S]
          /\ \A v \in CAL!Staff : AskSound(moves[v])'
      BY <2>1, NobodyMoves, MovesGo
    <2> QED
      BY <1>t, <2>1, <2>3, <2>4, <2>5 DEF CalInv
  <1>11. CASE \/ CAL!UpdateEventDetails \/ CAL!ConnectCalendar \/ CAL!DisconnectCalendar \/ CAL!ReadPendingLink
              \/ CAL!HoldLink \/ CAL!PushSucceeds \/ CAL!PushFails \/ CAL!CrashAfterPush \/ UNCHANGED CAL!vars
    <2>1. UNCHANGED <<event, deadlineTask, moves, vouched, seen, overtaken, loose>>
      BY <1>11 DEF CAL!UpdateEventDetails, CAL!ConnectCalendar, CAL!DisconnectCalendar, CAL!ReadPendingLink,
                   CAL!HoldLink, CAL!PushSucceeds, CAL!PushFails, CAL!CrashAfterPush, CAL!vars, CAL!history
    <2>2. \A v \in CAL!Staff : AskSound(moves[v])'
      BY <2>1 DEF CalInv, AskSound
    <2> QED
      BY <2>1, <2>2 DEF CalInv
  <1>12. CASE CAL!RunCalculation
    <2>1. PICK day \in EventDays : CAL!Enter("proposed", day)
      BY <1>12 DEF CAL!RunCalculation, CAL!Propose
    <2> QED
      BY <1>1, <2>1
  <1> QED
    BY <1>1, <1>2, <1>3, <1>4, <1>5, <1>6, <1>7, <1>8, <1>9, <1>10, <1>11, <1>12
       DEF CAL!Next, CAL!CreateEvent, CAL!Propose

\* However lawyers and clerks move, confirm, cancel and re-date over one another, a
\* confirmed deadline is on the day a lawyer put their name to, which they had seen
\* unless it was moved meanwhile, and its reminder is not later than the last such
\* day unless it was re-dated loosely (planReschedule, confirmEvent, checkRedate).
LEMMA RemindersOfDeadlines ==
    ASSUME CAL!CalendarAssumption
    PROVE  CAL!Spec => []CAL!ReminderNeverSlips
  <1>1. CAL!Init => CalInv
    <2> SUFFICES ASSUME CAL!Init PROVE CalInv
      OBVIOUS
    <2>1. /\ event = [status |-> "none", at |-> 0] /\ deadlineTask = CAL!NoTask /\ vouched = 0 /\ loose = FALSE
          /\ moves = [u \in CAL!Staff |-> CAL!NoAsk]
      BY DEF CAL!Init
    <2>2. event \in [status : CAL!Statuses \cup {"none"}, at : Nat] /\ event.status = "none"
      BY <2>1
    <2>3. deadlineTask \in [open : BOOLEAN, due : Nat] /\ ~deadlineTask.open
      BY <2>1 DEF CAL!NoTask
    <2>4. moves \in [CAL!Staff -> {CAL!NoAsk}] /\ \A u \in CAL!Staff : AskSound(moves[u])
      BY <2>1, NobodyMoves
    <2> QED
      BY <2>1, <2>2, <2>3, <2>4 DEF CalInv, CAL!ReminderNeverSlips
  <1>2. CAL!CalendarAssumption /\ CalInv /\ [CAL!Next]_(CAL!vars) => CalInv'
    BY CalStays
  <1>3. CalInv => CAL!ReminderNeverSlips
    BY DEF CalInv
  <1> QED
    BY <1>1, <1>2, <1>3, PTL DEF CAL!Spec

-----------------------------------------------------------------------------
(* A court's email.                                                        *)

IsNotice(n) ==
    \E status, matter, flag, step, acked :
        n = [status |-> status, matter |-> matter, flag |-> flag, step |-> step, acked |-> acked]

\* Before the email arrives there is nothing to decide and nobody decides.
CourtInv ==
    /\ IsNotice(notice)
    /\ \E S : events \in Seq(S)
    /\ \E S : courtAsks \in [Readers \cup Lawyers -> S]
    /\ notice.status = "none" =>
          events = <<>> /\ suggestion.status = "none" /\ \A u \in Readers \cup Lawyers : courtAsks[u].op = "none"

CourtStands == \A i \in DOMAIN events : events[i] = "confirmed" => events'[i] = "confirmed"

LEMMA CourtStays ==
    ASSUME CourtInv, [COURT!Next]_(COURT!vars)
    PROVE  CourtInv' /\ CourtStands
  <1>a. ASSUME NEW u \in Readers \cup Lawyers, NEW a, courtAsks' = [courtAsks EXCEPT ![u] = a]
        PROVE  \E S : courtAsks' \in [Readers \cup Lawyers -> S]
    <2>1. courtAsks' \in [Readers \cup Lawyers -> {courtAsks[v] : v \in Readers \cup Lawyers} \cup {a}]
      BY <1>a DEF CourtInv
    <2> QED
      BY <2>1
  <1>n. PICK status0, matter0, flag0, step0, acked0 :
            notice = [status |-> status0, matter |-> matter0, flag |-> flag0, step |-> step0, acked |-> acked0]
    BY DEF CourtInv, IsNotice
  <1>m. IsNotice(notice)
    BY DEF CourtInv
  <1>i. COURT!NoAsk.op = "none"
    BY DEF COURT!NoAsk
  \* What writes the notice of an email that has arrived, and no calendar entry.
  <1>w. ASSUME IsNotice(notice'),
               notice'.status # "none", events' = events, \E X : courtAsks' \in [Readers \cup Lawyers -> X]
        PROVE  CourtInv' /\ CourtStands
    BY <1>w DEF CourtInv, CourtStands
  <1>1. ASSUME NEW m \in Mails, NEW ok \in BOOLEAN, COURT!Ingest(m, ok) PROVE CourtInv' /\ CourtStands
    <2> PICK status, matter : notice' = [status |-> status, matter |-> matter, flag |-> 1, step |-> 0, acked |-> FALSE]
                              /\ status \in {"phishing_review", "unmatched", "matched"}
      BY <1>1 DEF COURT!Ingest
    <2>1. notice.status = "none" /\ events' \in {<<"proposed">>, <<>>} /\ UNCHANGED courtAsks
      BY <1>1 DEF COURT!Ingest
    <2>2. IsNotice(notice') /\ notice'.status # "none"
      BY DEF IsNotice
    <2>3. events' \in Seq({"proposed"})
      <3>1. <<"proposed">> \in Seq({"proposed"}) /\ <<>> \in Seq({"proposed"})
        OBVIOUS
      <3> QED
        BY <2>1, <3>1
    <2>4. DOMAIN events = {}
      BY <2>1 DEF CourtInv
    <2> QED
      BY <2>1, <2>2, <2>3, <2>4 DEF CourtInv, CourtStands
  <1>2. CASE COURT!TimePasses \/ UNCHANGED COURT!vars
    BY <1>2 DEF COURT!TimePasses, COURT!vars, CourtInv, CourtStands
  <1>3. CASE COURT!Escalate
    <2>1. /\ \E step : notice' = [notice EXCEPT !.step = step]
          /\ notice.status # "none" /\ UNCHANGED <<events, courtAsks>>
      BY <1>3 DEF COURT!Escalate, COURT!Live
    <2>2. PICK step : notice' = [notice EXCEPT !.step = step]
      BY <2>1
    <2>3. IsNotice(notice')
          /\ notice'.status = notice.status
      BY <1>n, <2>2 DEF IsNotice
    <2> QED
      BY <1>w, <2>1, <2>3 DEF CourtInv
  <1>4. ASSUME NEW u \in Readers \cup Lawyers, NEW a, COURT!Read(u, a), notice.status # "none"
        PROVE  CourtInv' /\ CourtStands
    <2>1. courtAsks' = [courtAsks EXCEPT ![u] = a] /\ UNCHANGED <<notice, events>>
      BY <1>4 DEF COURT!Read, COURT!Start
    <2> QED
      BY <1>a, <1>m, <1>w, <1>4, <2>1
  <1>5. ASSUME NEW u \in Readers, COURT!ReadToAcknowledge(u) \/ COURT!ReadToDismiss(u) PROVE CourtInv' /\ CourtStands
    BY <1>4, <1>5 DEF COURT!ReadToAcknowledge, COURT!ReadToDismiss, COURT!Live
  <1>6. ASSUME NEW u \in Readers, NEW m \in Matters, COURT!ReadToFile(u, m) PROVE CourtInv' /\ CourtStands
    BY <1>4, <1>6 DEF COURT!ReadToFile, COURT!Live
  <1>7. ASSUME NEW u \in Lawyers, NEW op \in {"accept", "reject"}, COURT!ReadToDecide(u, op)
        PROVE  CourtInv' /\ CourtStands
    <2>1. notice.status # "none"
      BY <1>7 DEF COURT!ReadToDecide, CourtInv
    <2> QED
      BY <1>4, <1>7, <2>1 DEF COURT!ReadToDecide
  <1>8. ASSUME NEW u \in Readers, COURT!AcknowledgeNotice(u) PROVE CourtInv' /\ CourtStands
    <2>1. /\ courtAsks[u].op = "acknowledge" /\ notice' = [notice EXCEPT !.acked = TRUE]
          /\ courtAsks' = [courtAsks EXCEPT ![u] = COURT!NoAsk] /\ UNCHANGED events
      BY <1>8 DEF COURT!AcknowledgeNotice, COURT!Finish
    <2>2. notice.status # "none"
      BY <2>1 DEF CourtInv
    <2>3. IsNotice(notice')
          /\ notice'.status = notice.status
      BY <1>n, <2>1 DEF IsNotice
    <2> QED
      BY <1>a, <1>w, <2>1, <2>2, <2>3
  <1>9. ASSUME NEW u \in Readers, COURT!FileNoticeToMatter(u) PROVE CourtInv' /\ CourtStands
    <2> PICK m, flag : \/ notice' = [notice EXCEPT !.status = "matched", !.matter = m, !.flag = flag, !.step = 0]
                       \/ notice' = [notice EXCEPT !.status = "matched", !.matter = m]
      BY <1>9 DEF COURT!FileNoticeToMatter
    <2>1. courtAsks' = [courtAsks EXCEPT ![u] = COURT!NoAsk] /\ UNCHANGED events
      BY <1>9 DEF COURT!FileNoticeToMatter, COURT!Finish
    <2>2. IsNotice(notice')
          /\ notice'.status = "matched"
      BY <1>n DEF IsNotice
    <2> QED
      BY <1>a, <1>w, <2>1, <2>2
  <1>10. ASSUME NEW u \in Readers, COURT!DismissNotice(u) PROVE CourtInv' /\ CourtStands
    <2>1. /\ notice' = [notice EXCEPT !.status = "dismissed"]
          /\ courtAsks' = [courtAsks EXCEPT ![u] = COURT!NoAsk] /\ UNCHANGED events
      BY <1>10 DEF COURT!DismissNotice, COURT!Finish
    <2>2. IsNotice(notice')
          /\ notice'.status = "dismissed"
      BY <1>n, <2>1 DEF IsNotice
    <2> QED
      BY <1>a, <1>w, <2>1, <2>2
  <1>11. ASSUME NEW u \in Lawyers, COURT!AcceptSuggestion(u) PROVE CourtInv' /\ CourtStands
    <2>1. /\ courtAsks[u].op = "accept" /\ courtAsks' = [courtAsks EXCEPT ![u] = COURT!NoAsk] /\ UNCHANGED notice
          /\ events' = events \/ events' = Append(events, "proposed")
      BY <1>11 DEF COURT!AcceptSuggestion, COURT!Finish
    <2>2. notice.status # "none"
      BY <2>1 DEF CourtInv
    <2> PICK E : events \in Seq(E)
      BY DEF CourtInv
    <2>3. CASE events' = events
      BY <1>a, <1>m, <1>w, <2>1, <2>2, <2>3
    <2>4. CASE events' = Append(events, "proposed")
      <3>1. events \in Seq(E \cup {"proposed"})
        <4>1. events \in [1..Len(events) -> E] /\ Len(events) \in Nat
          OBVIOUS
        <4>2. events \in [1..Len(events) -> E \cup {"proposed"}]
          BY <4>1
        <4> QED
          BY <4>1, <4>2, FunctionsAreSequences
      <3>2. events' \in Seq(E \cup {"proposed"}) /\ \A i \in DOMAIN events : events'[i] = events[i]
        BY <2>4, <3>1
      <3>3. \E X : courtAsks' \in [Readers \cup Lawyers -> X]
        BY <1>a, <2>1
      <3>4. CourtStands
        BY <3>2 DEF CourtStands
      <3> QED
        BY <1>m, <2>1, <2>2, <3>2, <3>3, <3>4 DEF CourtInv
    <2> QED
      BY <2>1, <2>3, <2>4
  <1>12. ASSUME NEW X, NEW Y, events' = [i \in DOMAIN events |-> IF i \in X /\ events[i] = "proposed" THEN Y ELSE events[i]]
         PROVE  (\E E : events' \in Seq(E)) /\ CourtStands
    <2>1. DOMAIN events = 1..Len(events) /\ Len(events) \in Nat
      BY DEF CourtInv
    <2>2. events' \in [1..Len(events) -> {events'[i] : i \in DOMAIN events}]
      BY <1>12, <2>1
    <2>3. \E E : events' \in Seq(E)
      BY <2>1, <2>2, FunctionsAreSequences
    <2>4. CourtStands
      BY <1>12 DEF CourtStands
    <2> QED
      BY <2>3, <2>4
  <1>13. ASSUME NEW u \in Lawyers, COURT!RejectSuggestion(u) PROVE CourtInv' /\ CourtStands
    <2> PICK e : e = courtAsks[u].event
      OBVIOUS
    <2>1. /\ courtAsks[u].op = "reject" /\ courtAsks' = [courtAsks EXCEPT ![u] = COURT!NoAsk] /\ UNCHANGED notice
          /\ events' = [i \in DOMAIN events |-> IF i = e /\ events[i] = "proposed" THEN "cancelled" ELSE events[i]]
      BY <1>13 DEF COURT!RejectSuggestion, COURT!Finish
    <2>2. notice.status # "none"
      BY <2>1 DEF CourtInv
    <2>3. events' = [i \in DOMAIN events |-> IF i \in {e} /\ events[i] = "proposed" THEN "cancelled" ELSE events[i]]
      BY <2>1
    <2>4. (\E E : events' \in Seq(E)) /\ CourtStands
      BY <1>12, <2>3
    <2>5. \E X : courtAsks' \in [Readers \cup Lawyers -> X]
      BY <1>a, <2>1
    <2> QED
      BY <1>m, <2>1, <2>2, <2>4, <2>5 DEF CourtInv
  <1>14. ASSUME NEW i \in DOMAIN events, COURT!ConfirmEvent(i) PROVE CourtInv' /\ CourtStands
    <2>1. /\ events[i] = "proposed" /\ events' = [events EXCEPT ![i] = "confirmed"]
          /\ UNCHANGED <<notice, suggestion, courtAsks>>
      BY <1>14 DEF COURT!ConfirmEvent
    <2>2. events' = [j \in DOMAIN events |-> IF j \in {i} /\ events[j] = "proposed" THEN "confirmed" ELSE events[j]]
      BY <2>1 DEF CourtInv
    <2>3. (\E E : events' \in Seq(E)) /\ CourtStands
      BY <1>12, <2>2
    <2>4. notice.status # "none"
      BY <1>14 DEF CourtInv
    <2> QED
      BY <2>1, <2>3, <2>4 DEF CourtInv
  <1> QED
    BY <1>1, <1>2, <1>3, <1>5, <1>6, <1>7, <1>8, <1>9, <1>10, <1>11, <1>13, <1>14 DEF COURT!Next

\* What a lawyer confirmed from a court's email no late rejection, no second
\* acceptance and no filing takes away (decideSuggestion).
LEMMA ConfirmedOfCourtEmail ==
    COURT!Init /\ [][COURT!Next]_(COURT!vars) => COURT!ConfirmedStands
  <1>1. COURT!Init => CourtInv
    <2> SUFFICES ASSUME COURT!Init PROVE CourtInv
      OBVIOUS
    <2>1. /\ notice = [status |-> "none", matter |-> COURT!NoMatter, flag |-> 0, step |-> 0, acked |-> FALSE]
          /\ suggestion = [status |-> "none", event |-> 0] /\ events = <<>>
          /\ courtAsks = [u \in Readers \cup Lawyers |-> COURT!NoAsk]
      BY DEF COURT!Init
    <2>2. IsNotice(notice)
      BY <2>1 DEF IsNotice
    <2>3. events \in Seq({}) /\ suggestion.status = "none"
      BY <2>1
    <2>4. courtAsks \in [Readers \cup Lawyers -> {COURT!NoAsk}] /\ \A u \in Readers \cup Lawyers : courtAsks[u].op = "none"
      BY <2>1 DEF COURT!NoAsk
    <2>5. (\E S : events \in Seq(S)) /\ \E S : courtAsks \in [Readers \cup Lawyers -> S]
      BY <2>3, <2>4
    <2> QED
      BY <2>1, <2>2, <2>3, <2>4, <2>5 DEF CourtInv
  <1>2. CourtInv /\ [COURT!Next]_(COURT!vars) => CourtInv' /\ [CourtStands]_(COURT!vars)
    BY CourtStays
  <1>3. COURT!Init /\ [][COURT!Next]_(COURT!vars) => [][CourtStands]_(COURT!vars)
    BY <1>1, <1>2, PTL
  <1> QED
    BY <1>3 DEF COURT!ConfirmedStands, CourtStands

-----------------------------------------------------------------------------
(* The documents a matter needs.                                           *)

PaperType ==
    [status : {"missing", "requested", "received", "accepted", "not_applicable"},
     live : BOOLEAN, filed : BOOLEAN, owed : Nat, clients : BOOLEAN, closed : BOOLEAN]

PaperSound(row) ==
    /\ row.live /\ row.status = "requested" => row.owed > 0 \/ (row.clients /\ row.closed)
    /\ row.status \in {"received", "accepted"} => row.filed

\* What was received when an acceptance began keeps its file.
PaperCallSound(c) ==
    /\ c.op \in REQ!ItemOps => c.row \in DOMAIN papers
    /\ c.op = "accept" => papers[c.row].filed

ReqInv ==
    /\ papers \in Seq(PaperType)
    /\ \A i \in DOMAIN papers : PaperSound(papers[i])
    /\ \E S : questions \in Seq(S)
    /\ \E S : paperCall \in [Members -> S]
    /\ \A u \in Members : PaperCallSound(paperCall[u])
    /\ REQ!AskedStaysAsked

\* Files stay with the rows, and the rows stay.
FilesStay ==
    /\ DOMAIN papers \subseteq DOMAIN papers'
    /\ \A i \in DOMAIN papers : papers[i].filed => papers'[i].filed

LEMMA PaperCallOf ==
    ASSUME ReqInv, NEW u \in Members, NEW c, paperCall' = [paperCall EXCEPT ![u] = c],
           PaperCallSound(c)', FilesStay
    PROVE  (\E S : paperCall' \in [Members -> S]) /\ \A v \in Members : PaperCallSound(paperCall[v])'
  <1>1. \A v \in Members : paperCall'[v] = IF v = u THEN c ELSE paperCall[v]
    BY DEF ReqInv
  <1>2. paperCall' \in [Members -> {paperCall[v] : v \in Members} \cup {c}]
    BY <1>1 DEF ReqInv
  <1>3. ASSUME NEW v \in Members PROVE PaperCallSound(paperCall[v])'
    <2>1. CASE v = u
      BY <1>1, <2>1 DEF PaperCallSound
    <2>2. CASE v # u
      <3>1. PaperCallSound(paperCall[v]) /\ paperCall'[v] = paperCall[v]
        BY <1>1, <2>2 DEF ReqInv
      <3> QED
        BY <3>1 DEF PaperCallSound, FilesStay, REQ!ItemOps
    <2> QED
      BY <2>1, <2>2
  <1> QED
    BY <1>2, <1>3

LEMMA NoPaperCall == REQ!Idle.op = "none" /\ PaperCallSound(REQ!Idle) /\ PaperCallSound(REQ!Idle)'
  <1>1. REQ!Idle.op = "none"
    BY DEF REQ!Idle
  <1> QED
    BY <1>1 DEF PaperCallSound, REQ!Idle, REQ!ItemOps

LEMMA ReqStays ==
    ASSUME ReqInv, [REQ!Next]_(REQ!vars)
    PROVE  ReqInv'
  <1>1. ASSUME NEW clients \in BOOLEAN, REQ!SeedChecklistForMatter(clients) PROVE ReqInv'
    <2>1. papers' = Append(papers, REQ!Missing(clients)) /\ UNCHANGED <<delivery, questions, paperCall>>
      BY <1>1 DEF REQ!SeedChecklistForMatter
    <2>2. REQ!Missing(clients) \in PaperType /\ PaperSound(REQ!Missing(clients))
      BY DEF REQ!Missing, PaperType, PaperSound
    <2>3. papers \in Seq(PaperType)
      BY DEF ReqInv
    <2>4. /\ papers' \in Seq(PaperType)
          /\ DOMAIN papers' = DOMAIN papers \cup {Len(papers) + 1} /\ Len(papers) + 1 \notin DOMAIN papers
          /\ papers'[Len(papers) + 1] = REQ!Missing(clients)
      BY <2>1, <2>2, <2>3
    <2>5. \A i \in DOMAIN papers : papers'[i] = papers[i]
      BY <2>1, <2>2, <2>3
    <2>6. \A i \in DOMAIN papers' : PaperSound(papers'[i])
      BY <2>2, <2>4, <2>5 DEF ReqInv
    <2>7. \A u \in Members : PaperCallSound(paperCall[u])'
      BY <2>1, <2>4, <2>5 DEF ReqInv, PaperCallSound, REQ!ItemOps
    <2>8. REQ!AskedStaysAsked'
      BY <2>1 DEF ReqInv, REQ!AskedStaysAsked, REQ!OpenQuestions
    <2>9. (\A i \in DOMAIN papers : PaperSound(papers[i]))'
      BY <2>6 DEF PaperSound
    <2> QED
      BY <2>1, <2>4, <2>7, <2>8, <2>9 DEF ReqInv
  <1>2. ASSUME NEW u \in Members, NEW c, paperCall' = [paperCall EXCEPT ![u] = c], PaperCallSound(c),
               UNCHANGED <<papers, delivery, questions>>
        PROVE  ReqInv'
    <2>1. PaperCallSound(c)' /\ FilesStay
      BY <1>2 DEF PaperCallSound, FilesStay
    <2>2. (\E S : paperCall' \in [Members -> S]) /\ \A v \in Members : PaperCallSound(paperCall[v])'
      BY <1>2, <2>1, PaperCallOf
    <2>3. REQ!AskedStaysAsked' /\ (\A i \in DOMAIN papers : PaperSound(papers[i]))'
      BY <1>2 DEF ReqInv, PaperSound, REQ!AskedStaysAsked, REQ!OpenQuestions
    <2> QED
      BY <1>2, <2>2, <2>3 DEF ReqInv
  <1>3. ASSUME NEW u \in Members, NEW i \in DOMAIN papers, NEW op \in REQ!ItemOps, REQ!LoadItem(u, i, op)
        PROVE  ReqInv'
    <2> PICK c : c = [op |-> op, row |-> i]
      OBVIOUS
    <2>1. /\ REQ!Accepts(op, papers[i].status) /\ paperCall' = [paperCall EXCEPT ![u] = c]
          /\ UNCHANGED <<papers, delivery, questions>>
      BY <1>3 DEF REQ!LoadItem
    <2>2. op = "accept" => papers[i].status = "received"
      BY <2>1 DEF REQ!Accepts
    <2>3. PaperSound(papers[i])
      BY DEF ReqInv
    <2>4. PaperCallSound(c)
      BY <2>2, <2>3 DEF PaperCallSound, PaperSound
    <2> QED
      BY <1>2, <2>1, <2>4
  <1>4. ASSUME NEW u \in Members, REQ!CommitItem(u) PROVE ReqInv'
    <2> PICK op, i : op = paperCall[u].op /\ i = paperCall[u].row
      OBVIOUS
    <2> PICK old : old = papers[i]
      OBVIOUS
    <2>1. /\ op \in REQ!ItemOps
          /\ papers' = [papers EXCEPT ![i] = CASE op = "request" -> REQ!Requested(old)
                                              [] op = "upload" -> REQ!Uploaded(old)
                                              [] op = "accept" -> REQ!Accepted(old)
                                              [] op = "waive" -> REQ!Waived(old)
                                              [] op = "archive" -> REQ!Archived(old)]
          /\ paperCall' = [paperCall EXCEPT ![u] = REQ!Idle] /\ UNCHANGED <<delivery, questions>>
      BY <1>4 DEF REQ!CommitItem
    <2>2. i \in DOMAIN papers /\ (op = "accept" => old.filed)
      BY <2>1 DEF ReqInv, PaperCallSound
    <2>3. old \in PaperType /\ PaperSound(old)
      BY <2>2 DEF ReqInv
    <2>4. PICK new : papers' = [papers EXCEPT ![i] = new] /\
                     \/ op = "request" /\ new = REQ!Requested(old)
                     \/ op = "upload" /\ new = REQ!Uploaded(old)
                     \/ op = "accept" /\ new = REQ!Accepted(old)
                     \/ op = "waive" /\ new = REQ!Waived(old)
                     \/ op = "archive" /\ new = REQ!Archived(old)
      BY <2>1 DEF REQ!ItemOps
    <2>5. PICK less \in Nat : less = REQ!OneClosed(old.owed)
      BY <2>3 DEF PaperType, REQ!OneClosed
    <2>6. new \in PaperType /\ PaperSound(new) /\ (old.filed => new.filed)
      <3>1. CASE op = "request" /\ new = REQ!Requested(old)
        <4>1. new = [old EXCEPT !.status = "requested", !.owed = old.owed + 1, !.closed = FALSE]
          BY <3>1 DEF REQ!Requested
        <4>2. PICK more \in Nat : more = old.owed + 1 /\ more > 0
          BY <2>3 DEF PaperType
        <4>3. new = [old EXCEPT !.status = "requested", !.owed = more, !.closed = FALSE]
          BY <4>1, <4>2
        <4> QED
          BY <2>3, <4>2, <4>3 DEF PaperType, PaperSound
      <3>2. CASE op = "upload" /\ new = REQ!Uploaded(old)
        <4>1. new = [old EXCEPT !.status = "received", !.filed = TRUE, !.owed = less]
          BY <2>5, <3>2 DEF REQ!Uploaded
        <4> QED
          BY <2>3, <4>1 DEF PaperType, PaperSound
      <3>3. CASE op = "accept" /\ new = REQ!Accepted(old)
        <4>1. new = [old EXCEPT !.status = "accepted"]
          BY <3>3 DEF REQ!Accepted
        <4> QED
          BY <2>2, <2>3, <3>3, <4>1 DEF PaperType, PaperSound
      <3>4. CASE op = "waive" /\ new = REQ!Waived(old)
        <4>1. new = [old EXCEPT !.status = "not_applicable", !.owed = less]
          BY <2>5, <3>4 DEF REQ!Waived
        <4> QED
          BY <2>3, <4>1 DEF PaperType, PaperSound
      <3>5. CASE op = "archive" /\ new = REQ!Archived(old)
        <4>1. new = [old EXCEPT !.live = FALSE, !.owed = less]
          BY <2>5, <3>5 DEF REQ!Archived
        <4> QED
          BY <2>3, <4>1 DEF PaperType, PaperSound
      <3> QED
        BY <2>4, <3>1, <3>2, <3>3, <3>4, <3>5
    <2>7. papers \in Seq(PaperType)
      BY DEF ReqInv
    <2>8. papers' = [papers EXCEPT ![i] = new]
      BY <2>4
    <2>9. /\ papers' \in Seq(PaperType) /\ DOMAIN papers' = DOMAIN papers
          /\ papers'[i] = new /\ \A j \in DOMAIN papers : j # i => papers'[j] = papers[j]
      BY <2>2, <2>6, <2>7, <2>8, OneRewritten
    <2>10. FilesStay
      BY <2>6, <2>9 DEF FilesStay
    <2>11. (\E S : paperCall' \in [Members -> S]) /\ \A v \in Members : PaperCallSound(paperCall[v])'
      BY <2>1, <2>10, NoPaperCall, PaperCallOf
    <2>12. \A j \in DOMAIN papers' : PaperSound(papers'[j])
      BY <2>6, <2>9 DEF ReqInv
    <2>13. (\A j \in DOMAIN papers : PaperSound(papers[j]))'
      BY <2>12 DEF PaperSound
    <2>14. REQ!AskedStaysAsked'
      BY <2>1 DEF ReqInv, REQ!AskedStaysAsked, REQ!OpenQuestions
    <2> QED
      BY <2>1, <2>9, <2>11, <2>13, <2>14 DEF ReqInv
  <1>c. ASSUME NEW i \in DOMAIN papers, REQ!CloseChase(i) PROVE ReqInv'
    <2> PICK old : old = papers[i]
      OBVIOUS
    <2>1. /\ papers' = [papers EXCEPT ![i] = REQ!ChaseClosed(old)]
          /\ old.clients /\ old.owed > 0 /\ UNCHANGED <<delivery, questions, paperCall>>
      BY <1>c DEF REQ!CloseChase
    <2>2. old \in PaperType /\ PaperSound(old) /\ papers \in Seq(PaperType)
      BY DEF ReqInv
    <2>3. PICK less \in Nat : less = old.owed - 1
      BY <2>1, <2>2 DEF PaperType
    <2>4. PICK new : new = REQ!ChaseClosed(old) /\ new = [old EXCEPT !.owed = less, !.closed = TRUE]
      BY <2>3 DEF REQ!ChaseClosed
    <2>5. new \in PaperType /\ PaperSound(new) /\ new.filed = old.filed
      BY <2>1, <2>2, <2>4 DEF PaperType, PaperSound
    <2>6. papers' = [papers EXCEPT ![i] = new]
      BY <2>1, <2>4
    <2>7. /\ papers' \in Seq(PaperType) /\ DOMAIN papers' = DOMAIN papers
          /\ papers'[i] = new /\ \A j \in DOMAIN papers : j # i => papers'[j] = papers[j]
      BY <2>2, <2>5, <2>6, OneRewritten
    <2>8. FilesStay
      BY <2>5, <2>7 DEF FilesStay
    <2>9. \A v \in Members : PaperCallSound(paperCall[v])'
      BY <2>1, <2>7, <2>8 DEF ReqInv, PaperCallSound, FilesStay, REQ!ItemOps
    <2>10. \A j \in DOMAIN papers' : PaperSound(papers'[j])
      BY <2>5, <2>7 DEF ReqInv
    <2>11. (\A j \in DOMAIN papers : PaperSound(papers[j]))'
      BY <2>10 DEF PaperSound
    <2>12. REQ!AskedStaysAsked'
      BY <2>1 DEF ReqInv, REQ!AskedStaysAsked, REQ!OpenQuestions
    <2> QED
      BY <2>1, <2>7, <2>9, <2>11, <2>12 DEF ReqInv
  <1>5. ASSUME NEW u \in Members, REQ!LoadForAsk(u) PROVE ReqInv'
    <2> PICK c : c = [op |-> "ask"]
      OBVIOUS
    <2>1. PaperCallSound(c)
      BY DEF PaperCallSound, REQ!ItemOps
    <2> QED
      BY <1>2, <1>5, <2>1 DEF REQ!LoadForAsk
  <1>6. ASSUME NEW u \in Members, REQ!CommitAsk(u) PROVE ReqInv'
    <2>1. /\ questions' = Append(questions, "open") /\ paperCall' = [paperCall EXCEPT ![u] = REQ!Idle]
          /\ UNCHANGED <<papers, delivery>>
      BY <1>6 DEF REQ!CommitAsk
    <2> PICK Q : questions \in Seq(Q)
      BY DEF ReqInv
    <2>2. questions \in Seq(Q \cup {"open"})
      <3>1. questions \in [1..Len(questions) -> Q] /\ Len(questions) \in Nat
        OBVIOUS
      <3>2. questions \in [1..Len(questions) -> Q \cup {"open"}]
        BY <3>1
      <3> QED
        BY <3>1, <3>2, FunctionsAreSequences
    <2>3. /\ questions' \in Seq(Q \cup {"open"})
          /\ Len(questions) + 1 \in DOMAIN questions' /\ questions'[Len(questions) + 1] = "open"
      BY <2>1, <2>2
    <2>4. REQ!AskedStaysAsked'
      BY <2>3 DEF REQ!AskedStaysAsked, REQ!OpenQuestions
    <2>5. FilesStay
      BY <2>1 DEF FilesStay
    <2>6. (\E S : paperCall' \in [Members -> S]) /\ \A v \in Members : PaperCallSound(paperCall[v])'
      BY <2>1, <2>5, NoPaperCall, PaperCallOf
    <2>7. (\A j \in DOMAIN papers : PaperSound(papers[j]))'
      BY <2>1 DEF ReqInv, PaperSound
    <2> QED
      BY <2>1, <2>3, <2>4, <2>6, <2>7 DEF ReqInv
  <1>7. ASSUME NEW u \in Members, NEW answer, REQ!LoadForAnswer(u, answer) PROVE ReqInv'
    <2>1. PICK k : paperCall' = [paperCall EXCEPT ![u] = [op |-> "answer", answer |-> answer, task |-> k]]
      BY <1>7 DEF REQ!LoadForAnswer
    <2> PICK c : c = [op |-> "answer", answer |-> answer, task |-> k]
      OBVIOUS
    <2>2. PaperCallSound(c)
      BY DEF PaperCallSound, REQ!ItemOps
    <2> QED
      BY <1>2, <1>7, <2>1, <2>2 DEF REQ!LoadForAnswer
  <1>8. ASSUME NEW u \in Members, REQ!CommitAnswer(u) PROVE ReqInv'
    <2> PICK answer, k : answer = paperCall[u].answer /\ k = paperCall[u].task
      OBVIOUS
    <2>1. /\ paperCall' = [paperCall EXCEPT ![u] = REQ!Idle] /\ UNCHANGED papers
          /\ \/ UNCHANGED <<delivery, questions>>
             \/ /\ delivery' = IF answer = "not_yet" THEN delivery ELSE answer
                /\ k = 0 \/ k \in REQ!OpenQuestions
                /\ questions' = IF k # 0 /\ answer # "not_yet" THEN [questions EXCEPT ![k] = "done"] ELSE questions
      BY <1>8 DEF REQ!CommitAnswer, REQ!ClosesQuestion
    <2>2. FilesStay
      BY <2>1 DEF FilesStay
    <2>3. (\E S : paperCall' \in [Members -> S]) /\ \A v \in Members : PaperCallSound(paperCall[v])'
      BY <2>1, <2>2, NoPaperCall, PaperCallOf
    <2>4. (\A j \in DOMAIN papers : PaperSound(papers[j]))'
      BY <2>1 DEF ReqInv, PaperSound
    <2>5. CASE UNCHANGED <<delivery, questions>>
      <3>1. REQ!AskedStaysAsked'
        BY <2>5 DEF ReqInv, REQ!AskedStaysAsked, REQ!OpenQuestions
      <3> QED
        BY <2>1, <2>3, <2>4, <2>5, <3>1 DEF ReqInv
    <2>6. CASE questions' = questions /\ delivery' = IF answer = "not_yet" THEN delivery ELSE answer
      <3>1. REQ!AskedStaysAsked'
        BY <2>6 DEF ReqInv, REQ!AskedStaysAsked, REQ!OpenQuestions
      <3> QED
        BY <2>1, <2>3, <2>4, <2>6, <3>1 DEF ReqInv
    <2>7. CASE /\ k \in REQ!OpenQuestions /\ answer # "not_yet" /\ delivery' = answer
               /\ questions' = [questions EXCEPT ![k] = "done"]
      <3> PICK Q : questions \in Seq(Q)
        BY DEF ReqInv
      <3>1. k \in DOMAIN questions
        BY <2>7 DEF REQ!OpenQuestions
      <3>2. questions \in [1..Len(questions) -> Q] /\ Len(questions) \in Nat /\ DOMAIN questions = 1..Len(questions)
        OBVIOUS
      <3>3. questions' \in [1..Len(questions) -> Q \cup {"done"}]
        BY <2>7, <3>2
      <3>4. questions' \in Seq(Q \cup {"done"})
        BY <3>2, <3>3, FunctionsAreSequences
      <3>5. REQ!AskedStaysAsked'
        BY <2>7 DEF REQ!AskedStaysAsked
      <3> QED
        BY <2>1, <2>3, <2>4, <3>4, <3>5 DEF ReqInv
    <2> QED
      BY <2>1, <2>5, <2>6, <2>7
  <1>9. CASE UNCHANGED REQ!vars
    <2>1. UNCHANGED <<papers, delivery, questions, paperCall>>
      BY <1>9 DEF REQ!vars
    <2>2. /\ (\A j \in DOMAIN papers : PaperSound(papers[j]))' /\ REQ!AskedStaysAsked'
          /\ \A v \in Members : PaperCallSound(paperCall[v])'
      BY <2>1 DEF ReqInv, PaperSound, PaperCallSound, REQ!AskedStaysAsked, REQ!OpenQuestions
    <2> QED
      BY <2>1, <2>2 DEF ReqInv
  <1> QED
    BY <1>1, <1>c, <1>3, <1>4, <1>5, <1>6, <1>7, <1>8, <1>9 DEF REQ!Next

\* Whatever requests, uploads, acceptances and answers overlap: what is waited
\* for somebody owes, unless a lawyer closed the chase of the client who owed it,
\* what is accepted has a file, and a question about delivery stays until it is
\* settled (checklist and delivery services, recordLawyerDecision).
LEMMA FollowedUpOfRequests == REQ!Spec => []REQ!RequestsAreFollowedUp
  <1>1. REQ!Init => ReqInv
    <2> SUFFICES ASSUME REQ!Init PROVE ReqInv
      OBVIOUS
    <2>1. papers = <<>> /\ questions = <<>> /\ paperCall = [u \in Members |-> REQ!Idle]
      BY DEF REQ!Init
    <2>2. papers \in Seq(PaperType) /\ DOMAIN papers = {} /\ questions \in Seq({})
      BY <2>1
    <2>3. paperCall \in [Members -> {REQ!Idle}] /\ \A u \in Members : PaperCallSound(paperCall[u])
      BY <2>1, NoPaperCall
    <2>4. REQ!AskedStaysAsked
      BY <2>1 DEF REQ!AskedStaysAsked
    <2> QED
      BY <2>2, <2>3, <2>4 DEF ReqInv
  <1>2. ReqInv /\ [REQ!Next]_(REQ!vars) => ReqInv'
    BY ReqStays
  <1>3. ReqInv => REQ!RequestsAreFollowedUp
    BY DEF ReqInv, PaperSound, REQ!RequestsAreFollowedUp, REQ!RequestedIsOwed, REQ!AcceptedHasFile
  <1> QED
    BY <1>1, <1>2, <1>3, PTL DEF REQ!Spec

-----------------------------------------------------------------------------
(* Rights and roles.                                                       *)

RightsInv == rolesGiven \in [Users -> SUBSET RIGHTS!StaffRoles] /\ RIGHTS!SomebodyManages

AccessInv ==
    /\ access \in [restricted : BOOLEAN, team : SUBSET Users,
                   lawyer : Users \cup {"none", "taken"}, blocked : SUBSET Users]
    /\ RIGHTS!RestrictedHasATeam

LEMMA NobodyIsClient ==
    ASSUME RIGHTS!PermissionsAssumption, rolesGiven \in [Users -> SUBSET RIGHTS!StaffRoles], NEW u \in Users
    PROVE  "client" \notin RIGHTS!RolesOf(u)
  BY DEF RIGHTS!PermissionsAssumption, RIGHTS!StaffRoles, RIGHTS!RolesOf

\* Who manages: somebody whose roles hold the right, whatever rows there are.
LEMMA ManagesThroughARole ==
    ASSUME NEW roles, "client" \notin roles, NEW set
    PROVE  /\ "manage" \in RIGHTS!StaffRights(roles, set) <=>
                  \E role \in roles : RIGHTS!RoleHolds(role, "manage", set)
           /\ "owner" \in roles => "manage" \in RIGHTS!StaffRights(roles, set)
           /\ ~RIGHTS!RoleHolds("conflicts_attorney", "manage", set)
  <1>1. /\ "manage" \in RIGHTS!Keys \ RIGHTS!ClientOnly /\ "manage" \notin RIGHTS!AttorneyOnly
        /\ RIGHTS!Defaults("manage") = {"owner", "admin"} /\ RIGHTS!Eligible("manage") = {"owner", "admin"}
    BY DEF RIGHTS!Keys, RIGHTS!ClientOnly, RIGHTS!AttorneyOnly, RIGHTS!Decisions, RIGHTS!Defaults, RIGHTS!Eligible
  <1>2. "manage" \in RIGHTS!StaffRights(roles, set) <=> \E role \in roles : RIGHTS!RoleHolds(role, "manage", set)
    BY <1>1 DEF RIGHTS!StaffRights
  <1>3. RIGHTS!RoleHolds("owner", "manage", set)
    BY <1>1 DEF RIGHTS!RoleHolds, RIGHTS!ValidOverride
  <1>4. ~RIGHTS!RoleHolds("conflicts_attorney", "manage", set)
    BY <1>1 DEF RIGHTS!RoleHolds, RIGHTS!ValidOverride
  <1> QED
    BY <1>2, <1>3, <1>4

LEMMA RightsStay ==
    ASSUME RIGHTS!PermissionsAssumption, IsFiniteSet(Users), RightsInv, [RIGHTS!Next]_(RIGHTS!vars)
    PROVE  RightsInv'
  <1>m. PICK w \in Users : "manage" \in RIGHTS!RightsOf(w)
    BY DEF RightsInv, RIGHTS!SomebodyManages
  <1>t. rolesGiven \in [Users -> SUBSET RIGHTS!StaffRoles]
    BY DEF RightsInv
  <1>1. ASSUME NEW u \in Users, NEW role, NEW right, NEW effect, RIGHTS!SetOverride(u, role, right, effect)
        PROVE  RightsInv'
    <2>1. "manage" \in RIGHTS!StaffRights(RIGHTS!RolesOf(u), overrides') /\ UNCHANGED rolesGiven
      BY <1>1 DEF RIGHTS!SetOverride
    <2>2. "manage" \in RIGHTS!RightsOf(u)'
      BY <2>1 DEF RIGHTS!RightsOf, RIGHTS!RolesOf
    <2> QED
      BY <1>t, <2>1, <2>2 DEF RightsInv, RIGHTS!SomebodyManages
  <1>2. ASSUME NEW u \in Users, NEW v \in Users, NEW role \in {"owner", "conflicts_attorney"},
               RIGHTS!GrantRole(u, v, role)
        PROVE  RightsInv'
    <2>1. rolesGiven' = [rolesGiven EXCEPT ![v] = rolesGiven[v] \cup {role}] /\ UNCHANGED overrides
      BY <1>2 DEF RIGHTS!GrantRole, RIGHTS!MayGrant
    <2>2. rolesGiven' \in [Users -> SUBSET RIGHTS!StaffRoles]
      BY <1>t, <2>1 DEF RIGHTS!StaffRoles, RIGHTS!Roles
    <2>3. RIGHTS!RolesOf(w) \subseteq RIGHTS!RolesOf(w)'
      BY <1>t, <2>1 DEF RIGHTS!RolesOf
    <2>4. "client" \notin RIGHTS!RolesOf(w) /\ "client" \notin RIGHTS!RolesOf(w)'
      BY <1>t, <2>2, NobodyIsClient DEF RIGHTS!PermissionsAssumption, RIGHTS!StaffRoles, RIGHTS!RolesOf
    <2>5. \E r \in RIGHTS!RolesOf(w) : RIGHTS!RoleHolds(r, "manage", overrides)
      BY <1>m, <2>4, ManagesThroughARole DEF RIGHTS!RightsOf
    <2>6. "manage" \in RIGHTS!StaffRights(RIGHTS!RolesOf(w)', overrides)
      BY <2>3, <2>4, <2>5, ManagesThroughARole
    <2>7. "manage" \in RIGHTS!RightsOf(w)'
      BY <2>1, <2>6 DEF RIGHTS!RightsOf
    <2> QED
      BY <2>2, <2>7 DEF RightsInv, RIGHTS!SomebodyManages
  <1>3. ASSUME NEW u \in Users, NEW v \in Users, NEW role \in {"owner", "conflicts_attorney"},
               RIGHTS!RevokeRole(u, v, role)
        PROVE  RightsInv'
    <2>1. rolesGiven' = [rolesGiven EXCEPT ![v] = rolesGiven[v] \ {role}] /\ UNCHANGED overrides
      BY <1>3 DEF RIGHTS!RevokeRole, RIGHTS!MayRevoke
    <2>2. rolesGiven' \in [Users -> SUBSET RIGHTS!StaffRoles]
      BY <1>t, <2>1
    <2>3. CASE role = "conflicts_attorney"
      <3>1. "client" \notin RIGHTS!RolesOf(w) /\ "client" \notin RIGHTS!RolesOf(w)'
        BY <1>t, <2>2, NobodyIsClient DEF RIGHTS!PermissionsAssumption, RIGHTS!StaffRoles, RIGHTS!RolesOf
      <3>2. PICK r \in RIGHTS!RolesOf(w) : RIGHTS!RoleHolds(r, "manage", overrides)
        BY <1>m, <3>1, ManagesThroughARole DEF RIGHTS!RightsOf
      <3>3. r # "conflicts_attorney"
        BY <3>1, <3>2, ManagesThroughARole
      <3>4. r \in RIGHTS!RolesOf(w)'
        BY <1>t, <2>1, <2>3, <3>2, <3>3 DEF RIGHTS!RolesOf
      <3>5. "manage" \in RIGHTS!StaffRights(RIGHTS!RolesOf(w)', overrides)
        BY <3>1, <3>2, <3>4, ManagesThroughARole
      <3>6. "manage" \in RIGHTS!RightsOf(w)'
        BY <2>1, <3>5 DEF RIGHTS!RightsOf
      <3> QED
        BY <2>2, <3>6 DEF RightsInv, RIGHTS!SomebodyManages
    <2>4. CASE role = "owner"
      <3>1. RIGHTS!Cardinality(RIGHTS!Owners) > 1 /\ "owner" \in rolesGiven[v]
        BY <1>3, <2>4 DEF RIGHTS!RevokeRole, RIGHTS!MayRevoke
      <3>2. Cardinality(RIGHTS!Owners) > 1
        BY <3>1 DEF RIGHTS!Cardinality, Cardinality
      <3>3. \E x \in RIGHTS!Owners : x # v
        <4> SUFFICES ASSUME \A x \in RIGHTS!Owners : x = v PROVE FALSE
          OBVIOUS
        <4>1. RIGHTS!Owners = {v}
          BY <3>1 DEF RIGHTS!Owners
        <4>2. Cardinality(RIGHTS!Owners) = 1
          BY <4>1, FS_Singleton
        <4> QED
          BY <3>2, <4>2
      <3>4. PICK x \in RIGHTS!Owners : x # v
        BY <3>3
      <3>5. x \in Users /\ "owner" \in rolesGiven'[x]
        BY <1>t, <2>1, <3>4 DEF RIGHTS!Owners
      <3>6. "owner" \in RIGHTS!RolesOf(x)' /\ "client" \notin RIGHTS!RolesOf(x)'
        BY <2>2, <3>5 DEF RIGHTS!PermissionsAssumption, RIGHTS!StaffRoles, RIGHTS!RolesOf
      <3>7. "manage" \in RIGHTS!StaffRights(RIGHTS!RolesOf(x)', overrides)
        BY <3>6, ManagesThroughARole
      <3>8. "manage" \in RIGHTS!RightsOf(x)'
        BY <2>1, <3>7 DEF RIGHTS!RightsOf
      <3> QED
        BY <2>2, <3>5, <3>8 DEF RightsInv, RIGHTS!SomebodyManages
    <2> QED
      BY <2>3, <2>4
  <1>4. CASE UNCHANGED <<overrides, rolesGiven>>
    BY <1>4 DEF RightsInv, RIGHTS!SomebodyManages, RIGHTS!RightsOf, RIGHTS!RolesOf
  <1>5. CASE UNCHANGED RIGHTS!vars
    BY <1>4, <1>5 DEF RIGHTS!vars
  <1>6. ASSUME NEW u, NEW v, NEW yes,
               \/ RIGHTS!SetMatterRestricted(u, yes) \/ RIGHTS!AddTeamMember(u, v)
               \/ RIGHTS!RemoveTeamMember(u, v) \/ RIGHTS!AssignLawyer(u) \/ RIGHTS!BlockLawyer(u)
        PROVE  RightsInv'
    BY <1>4, <1>6 DEF RIGHTS!SetMatterRestricted, RIGHTS!AddTeamMember, RIGHTS!RemoveTeamMember,
        RIGHTS!AssignLawyer, RIGHTS!BlockLawyer
  <1> QED
    BY <1>1, <1>2, <1>3, <1>5, <1>6 DEF RIGHTS!Next

\* A restricted matter keeps somebody on its team, unless intake takes its lawyer.
LEMMA AccessStays ==
    ASSUME RIGHTS!PermissionsAssumption, AccessInv, [RIGHTS!Next]_(RIGHTS!vars)
    PROVE  AccessInv'
  <1> USE DEF AccessInv, RIGHTS!PermissionsAssumption
  <1>1. ASSUME NEW u, NEW yes \in BOOLEAN, RIGHTS!SetMatterRestricted(u, yes)
        PROVE  AccessInv'
    BY <1>1 DEF RIGHTS!SetMatterRestricted, RIGHTS!RestrictedHasATeam, RIGHTS!Team
  <1>2. ASSUME NEW u, NEW v \in MatterStaff, RIGHTS!AddTeamMember(u, v)
        PROVE  AccessInv'
    BY <1>2 DEF RIGHTS!AddTeamMember, RIGHTS!RestrictedHasATeam, RIGHTS!Team
  <1>3. ASSUME NEW u, NEW v \in MatterStaff, RIGHTS!RemoveTeamMember(u, v)
        PROVE  AccessInv'
    BY <1>3 DEF RIGHTS!RemoveTeamMember, RIGHTS!RestrictedHasATeam, RIGHTS!Team
  <1>4. ASSUME NEW v \in Users, RIGHTS!AssignLawyer(v) \/ RIGHTS!BlockLawyer(v)
        PROVE  AccessInv'
    <2>1. CASE RIGHTS!AssignLawyer(v)
      BY <2>1 DEF RIGHTS!AssignLawyer, RIGHTS!RestrictedHasATeam, RIGHTS!Team
    <2>2. CASE RIGHTS!BlockLawyer(v) /\ access.lawyer = v
      <3>1. access' = [access EXCEPT !.blocked = access.blocked \cup {v}, !.lawyer = "taken"]
        BY <2>2 DEF RIGHTS!BlockLawyer
      <3> QED
        BY <3>1 DEF RIGHTS!RestrictedHasATeam
    <2>3. CASE RIGHTS!BlockLawyer(v) /\ access.lawyer # v
      <3>1. access' = [access EXCEPT !.blocked = access.blocked \cup {v}]
        BY <2>3 DEF RIGHTS!BlockLawyer
      <3>2. access'.restricted = access.restricted /\ access'.team = access.team /\ access'.lawyer = access.lawyer
        BY <3>1
      <3> QED
        BY <3>1, <3>2 DEF RIGHTS!RestrictedHasATeam, RIGHTS!Team
    <2> QED
      BY <1>4, <2>1, <2>2, <2>3
  <1>5. CASE UNCHANGED access
    BY <1>5 DEF RIGHTS!RestrictedHasATeam, RIGHTS!Team
  <1>6. ASSUME NEW u, NEW v, NEW role, NEW right, NEW effect,
               \/ RIGHTS!SetOverride(u, role, right, effect)
               \/ RIGHTS!GrantRole(u, v, role) \/ RIGHTS!RevokeRole(u, v, role)
        PROVE  AccessInv'
    BY <1>5, <1>6 DEF RIGHTS!SetOverride, RIGHTS!GrantRole, RIGHTS!RevokeRole
  <1>7. CASE UNCHANGED RIGHTS!vars
    BY <1>5, <1>7 DEF RIGHTS!vars
  <1> QED
    BY ZenonT(30), <1>1, <1>2, <1>3, <1>4, <1>6, <1>7 DEF RIGHTS!Next

\* No override lifts the floor: in every state, whatever rows the table holds.
LEMMA FloorHolds ==
    ASSUME RIGHTS!PermissionsAssumption, rolesGiven \in [Users -> SUBSET RIGHTS!StaffRoles]
    PROVE  RIGHTS!OverridesKeepTheFloor
  <1>1. ASSUME NEW u \in Users, NEW k \in RIGHTS!RightsOf(u)
        PROVE  /\ k \in RIGHTS!AttorneyOnly => "lawyer" \in RIGHTS!RolesOf(u)
               /\ k \in RIGHTS!Locked => RIGHTS!RolesOf(u) \cap RIGHTS!Defaults(k) # {}
               /\ RIGHTS!RolesOf(u) \cap RIGHTS!Eligible(k) # {}
    <2>1. "client" \notin RIGHTS!RolesOf(u)
      BY NobodyIsClient
    <2>2. PICK role \in RIGHTS!RolesOf(u) : RIGHTS!RoleHolds(role, k, overrides)
      BY <2>1 DEF RIGHTS!RightsOf, RIGHTS!StaffRights
    <2>3. k \in RIGHTS!AttorneyOnly => "lawyer" \in RIGHTS!RolesOf(u)
      BY <2>1 DEF RIGHTS!RightsOf, RIGHTS!StaffRights
    <2>4. role \in RIGHTS!Eligible(k) \/ role \in RIGHTS!Defaults(k)
      BY <2>2 DEF RIGHTS!RoleHolds, RIGHTS!ValidOverride
    <2>5. RIGHTS!Defaults(k) \subseteq RIGHTS!Eligible(k)
      BY DEF RIGHTS!Eligible, RIGHTS!Defaults, RIGHTS!StaffRoles, RIGHTS!Roles
    <2>6. k \in RIGHTS!Locked => role \in RIGHTS!Defaults(k)
      BY <2>2 DEF RIGHTS!RoleHolds, RIGHTS!ValidOverride
    <2> QED
      BY <2>2, <2>3, <2>4, <2>5, <2>6
  <1>2. RIGHTS!ClientRights(overrides) = {"portal"}
    <2>1. RIGHTS!RoleHolds("client", "portal", overrides)
      BY DEF RIGHTS!RoleHolds, RIGHTS!ValidOverride, RIGHTS!Defaults
    <2> QED
      BY <2>1 DEF RIGHTS!ClientRights, RIGHTS!ClientOnly
  <1>3. RIGHTS!SystemRights \cap RIGHTS!Decisions = {}
    BY DEF RIGHTS!SystemRights
  <1> QED
    BY <1>1, <1>2, <1>3 DEF RIGHTS!OverridesKeepTheFloor

\* A screen beats every role, and what is internal or privileged stays from a
\* client: the decision alone sees to it, whatever the tables hold (decide).
LEMMA ScreensHold == RIGHTS!ScreensBeatRoles
  <1> USE DEF RIGHTS!Reach, RIGHTS!Allows, RIGHTS!MayOnMatter, RIGHTS!MayOnItem
  <1>1. ASSUME NEW u \in Users, RIGHTS!Reach(RIGHTS!Staff(u)) \ {"firm"} # {}
        PROVE  u \notin Screened /\ (access.restricted => u \in RIGHTS!Team)
    <2>1. RIGHTS!Staff(u).kind = "staff" /\ RIGHTS!Staff(u).user = u
      BY DEF RIGHTS!Staff
    <2>2. \E rights : RIGHTS!MayOnMatter(RIGHTS!Staff(u), rights)
      BY <1>1
    <2> QED
      BY <2>1, <2>2
  <1>2. ASSUME NEW a \in RIGHTS!Others, a.kind = "client"
        PROVE  RIGHTS!Reach(a) \subseteq {"firm"} \cup
                   (IF a.ours THEN {"matter", "client_flag", "client_task", "shared_document"} ELSE {})
    <2> SUFFICES ASSUME NEW resource \in RIGHTS!Reach(a), resource # "firm"
                 PROVE  a.ours /\ resource \in {"matter", "client_flag", "client_task", "shared_document"}
      OBVIOUS
    <2>1. resource \in RIGHTS!Resources /\ \E rights : RIGHTS!Allows(a, rights, resource)
      OBVIOUS
    <2>2. a.ours
      BY <1>2, <2>1
    <2>3. resource \notin {"internal_flag", "internal_task", "unshared_document", "privileged_document"}
      BY <1>2, <2>1
    <2> QED
      BY <2>1, <2>2, <2>3 DEF RIGHTS!Resources
  <1>3. RIGHTS!Reach([kind |-> "ai"]) = {}
    BY DEF RIGHTS!RightsOfActor
  <1> QED
    BY <1>1, <1>2, <1>3 DEF RIGHTS!ScreensBeatRoles

\* Whoever is on the team and behind no screen reaches the matter by any right.
LEMMA TeamReaches == RIGHTS!TeamGetsIn
  <1> SUFFICES ASSUME NEW u \in RIGHTS!Team \ Screened, RIGHTS!RightsOf(u) # {}
               PROVE  "matter" \in RIGHTS!Reach(RIGHTS!Staff(u))
    BY DEF RIGHTS!TeamGetsIn
  <1>1. RIGHTS!Staff(u).kind = "staff" /\ RIGHTS!Staff(u).user = u
    BY DEF RIGHTS!Staff
  <1>2. RIGHTS!RightsOfActor(RIGHTS!Staff(u)) = RIGHTS!RightsOf(u)
    BY <1>1 DEF RIGHTS!RightsOfActor
  <1>3. RIGHTS!MayOnMatter(RIGHTS!Staff(u), RIGHTS!RightsOf(u))
    BY <1>1 DEF RIGHTS!MayOnMatter
  <1>4. RIGHTS!MayOnItem(RIGHTS!Staff(u), RIGHTS!RightsOf(u), "matter")
    BY <1>1 DEF RIGHTS!MayOnItem
  <1>5. "matter" \in RIGHTS!Resources
    BY DEF RIGHTS!Resources
  <1> QED
    BY <1>2, <1>3, <1>4, <1>5 DEF RIGHTS!Reach, RIGHTS!Allows

\* However a firm sets its overrides, gives and takes roles and restricts a
\* matter, one change after another: the rules no override can break hold, no
\* role gets around a screen or a restriction, somebody can still manage
\* permissions, a restricted matter has somebody on its team, screened or not,
\* unless intake took it from its lawyer, and its restriction shuts out nobody of
\* that team (effectiveRights, decide, setPermissionOverride, validateRoleRevoke,
\* setMatterRestricted, removeTeamMember).
LEMMA FloorOfRights ==
    ASSUME RIGHTS!PermissionsAssumption, IsFiniteSet(Users)
    PROVE  RIGHTS!Spec => []RIGHTS!RightsAreSound
  <1>1. RIGHTS!Init => RightsInv /\ AccessInv
    <2> SUFFICES ASSUME RIGHTS!Init PROVE RightsInv /\ AccessInv
      OBVIOUS
    <2>1. PICK owners : rolesGiven = [u \in Users |-> IF u \in owners THEN {"owner"} ELSE {}]
      BY DEF RIGHTS!Init
    <2>2. rolesGiven \in [Users -> SUBSET RIGHTS!StaffRoles]
      BY <2>1 DEF RIGHTS!StaffRoles, RIGHTS!Roles
    <2>3. AccessInv
      BY DEF RIGHTS!Init, AccessInv, RIGHTS!RestrictedHasATeam
    <2> QED
      BY <2>2, <2>3 DEF RIGHTS!Init, RightsInv, RIGHTS!SomebodyManages
  <1>2. RightsInv /\ AccessInv /\ [RIGHTS!Next]_(RIGHTS!vars) => RightsInv' /\ AccessInv'
    BY RightsStay, AccessStays
  <1>3. RightsInv /\ AccessInv => RIGHTS!RightsAreSound
    BY FloorHolds, ScreensHold, TeamReaches DEF RightsInv, AccessInv, RIGHTS!RightsAreSound
  <1> QED
    BY <1>1, <1>2, <1>3, PTL DEF RIGHTS!Spec

-----------------------------------------------------------------------------
(* The index of parties and the merges of its duplicates.                  *)

IsMerge(x) ==
    \E survivor, merged, undone : x = [survivor |-> survivor, merged |-> merged, undone |-> undone]

MergesSound == (\E S : merges \in Seq(S)) /\ \A i \in DOMAIN merges : IsMerge(merges[i])

\* What was read for a confirmation: the two records of the suggestion.
ConfirmationSound(c) ==
    c.on /\ c.pair # <<>> => c.pair \in PARTIES!Pairs /\ PARTIES!PairKey(c.survivor, c.merged) = c.pair

PartyInv ==
    /\ MergesSound
    /\ \E S : suggestions \in [PARTIES!Pairs -> S]
    /\ \E S : confirming \in [People -> S]
    /\ \A u \in People : ConfirmationSound(confirming[u])
    /\ PARTIES!ConfirmedWasMerged

LEMMA FieldsMakeAMerge ==
    \A survivor, merged, undone : IsMerge([survivor |-> survivor, merged |-> merged, undone |-> undone])
  BY Zenon DEF IsMerge

\* The records of a pair are in order, so either way round they make its key.
LEMMA KeyOfAPair ==
    ASSUME PARTIES!PartyAssumption, NEW pair \in PARTIES!Pairs
    PROVE  PARTIES!PairKey(pair[1], pair[2]) = pair /\ PARTIES!PairKey(pair[2], pair[1]) = pair
  <1>1. PICK a \in Parties, b \in Parties : pair = <<a, b>> /\ a < b
    BY DEF PARTIES!Pairs
  <1>2. a \in Nat /\ b \in Nat /\ ~(b < a)
    BY <1>1 DEF PARTIES!PartyAssumption
  <1> QED
    BY <1>1, <1>2 DEF PARTIES!PairKey

\* A merge that is undone keeps its records, and its row.
LEMMA MergeUndone ==
    ASSUME MergesSound, NEW i \in DOMAIN merges, merges' = [merges EXCEPT ![i].undone = TRUE]
    PROVE  /\ MergesSound' /\ DOMAIN merges' = DOMAIN merges
           /\ \A j \in DOMAIN merges : merges'[j].survivor = merges[j].survivor /\ merges'[j].merged = merges[j].merged
  <1>1. PICK S : merges \in Seq(S)
    BY DEF MergesSound
  <1>2. PICK n \in Nat : n = Len(merges) /\ DOMAIN merges = 1..n /\ merges \in [1..n -> S]
    BY <1>1
  <1>3. PICK x : x = merges[i]
    OBVIOUS
  <1>4. PICK survivor, merged, undone : x = [survivor |-> survivor, merged |-> merged, undone |-> undone]
    BY <1>3 DEF MergesSound, IsMerge
  <1>5. PICK y : y = [x EXCEPT !.undone = TRUE]
    OBVIOUS
  <1>6. y = [survivor |-> survivor, merged |-> merged, undone |-> TRUE]
    BY <1>4, <1>5
  <1>7. IsMerge(y)
    BY <1>6, FieldsMakeAMerge, Zenon
  <1>8. y.survivor = x.survivor /\ y.merged = x.merged
    BY <1>4, <1>6
  <1>9. merges' = [merges EXCEPT ![i] = y]
    BY <1>3, <1>5
  <1>10. DOMAIN merges' = 1..n /\ \A j \in 1..n : merges'[j] = IF j = i THEN y ELSE merges[j]
    BY <1>2, <1>9
  <1>11. merges' \in [1..n -> S \cup {y}]
    <2>1. merges' = [j \in 1..n |-> merges'[j]]
      BY <1>2, <1>9
    <2>2. \A j \in 1..n : merges'[j] \in S \cup {y}
      BY <1>2, <1>10
    <2> QED
      BY <2>1, <2>2, Zenon
  <1>12. merges' \in Seq(S \cup {y})
    BY <1>11, FunctionsAreSequences, Zenon
  <1>13. \A j \in DOMAIN merges' : IsMerge(merges'[j])
    BY <1>2, <1>7, <1>10 DEF MergesSound
  <1>14. MergesSound'
    BY <1>12, <1>13 DEF MergesSound
  <1>15. \A j \in DOMAIN merges : merges'[j].survivor = merges[j].survivor /\ merges'[j].merged = merges[j].merged
    BY <1>2, <1>3, <1>8, <1>10
  <1> QED
    BY <1>2, <1>10, <1>14, <1>15

LEMMA MergeWritten ==
    ASSUME MergesSound, NEW survivor, NEW merged, merges' = Append(merges, PARTIES!Merge(survivor, merged))
    PROVE  /\ MergesSound'
           /\ \A j \in DOMAIN merges : j \in DOMAIN merges' /\ merges'[j] = merges[j]
           /\ \E j \in DOMAIN merges' : merges'[j].survivor = survivor /\ merges'[j].merged = merged
  <1>1. PICK S : merges \in Seq(S)
    BY DEF MergesSound
  <1>2. PICK n \in Nat : n = Len(merges) /\ DOMAIN merges = 1..n
    BY <1>1
  <1>3. PICK new : new = PARTIES!Merge(survivor, merged)
    OBVIOUS
  <1>4. new = [survivor |-> survivor, merged |-> merged, undone |-> FALSE]
    BY <1>3 DEF PARTIES!Merge
  <1>5. IsMerge(new) /\ new.survivor = survivor /\ new.merged = merged
    BY <1>4, FieldsMakeAMerge
  <1>6. merges \in Seq(S \cup {new}) /\ new \in S \cup {new} /\ merges' = Append(merges, new)
    BY <1>1, <1>3
  <1>7. /\ merges' \in Seq(S \cup {new}) /\ DOMAIN merges' = 1..(n + 1)
        /\ merges'[n + 1] = new /\ \A j \in 1..n : merges'[j] = merges[j]
    BY <1>2, <1>6
  <1>8. \A j \in 1..(n + 1) : j \in 1..n \/ j = n + 1
    BY <1>2
  <1>9. \A j \in DOMAIN merges' : IsMerge(merges'[j])
    BY <1>2, <1>5, <1>7, <1>8 DEF MergesSound
  <1>10. n + 1 \in DOMAIN merges' /\ \A j \in DOMAIN merges : j \in DOMAIN merges'
    BY <1>2, <1>7
  <1>11. MergesSound'
    BY <1>7, <1>9 DEF MergesSound
  <1> QED
    BY <1>2, <1>5, <1>7, <1>10, <1>11

LEMMA PartiesStay ==
    ASSUME PARTIES!PartyAssumption, PartyInv, [PARTIES!Next]_(PARTIES!vars)
    PROVE  PartyInv'
  \* What confirms nothing and keeps the records of every merge.
  <1>s. ASSUME UNCHANGED <<merges, confirming>>, \E S : suggestions' \in [PARTIES!Pairs -> S],
               \A pair \in PARTIES!Pairs : suggestions'[pair] = "confirmed" => suggestions[pair] = "confirmed"
        PROVE  PartyInv'
    <2>1. MergesSound'
      BY <1>s DEF PartyInv, MergesSound
    <2>2. \A u \in People : ConfirmationSound(confirming[u])'
      BY <1>s DEF PartyInv, ConfirmationSound
    <2>3. PARTIES!ConfirmedWasMerged'
      BY <1>s DEF PartyInv, PARTIES!ConfirmedWasMerged
    <2> QED
      BY <1>s, <2>1, <2>2, <2>3 DEF PartyInv
  <1>g. ASSUME NEW pairs, PARTIES!Suggest(pairs), UNCHANGED <<merges, confirming>> PROVE PartyInv'
    <2>1. \A pair \in PARTIES!Pairs : suggestions'[pair] = "open" \/ suggestions'[pair] = suggestions[pair]
      BY <1>g DEF PARTIES!Suggest
    <2>2. suggestions' \in [PARTIES!Pairs -> {suggestions'[pair] : pair \in PARTIES!Pairs}]
      BY <1>g DEF PARTIES!Suggest
    <2>3. \E S : suggestions' \in [PARTIES!Pairs -> S]
      BY <2>2
    <2> QED
      BY <1>g, <1>s, <2>1, <2>3
  <1>r. ASSUME NEW u \in People, NEW s, NEW m, NEW pair, PARTIES!ReadForMerge(u, s, m, pair),
               pair = <<>> \/ (pair \in PARTIES!Pairs /\ PARTIES!PairKey(s, m) = pair)
        PROVE  PartyInv'
    <2>1. PICK c : c = [on |-> TRUE, survivor |-> s, merged |-> m, pair |-> pair]
      OBVIOUS
    <2>2. confirming' = [confirming EXCEPT ![u] = c] /\ UNCHANGED <<merges, suggestions>>
      BY <1>r, <2>1 DEF PARTIES!ReadForMerge
    <2>3. ConfirmationSound(c)
      BY <1>r, <2>1 DEF ConfirmationSound
    <2>4. \A w \in People : confirming'[w] = IF w = u THEN c ELSE confirming[w]
      BY <2>2 DEF PartyInv
    <2>5. \A w \in People : ConfirmationSound(confirming[w])'
      BY <2>3, <2>4 DEF PartyInv, ConfirmationSound
    <2>6. confirming' \in [People -> {confirming[w] : w \in People} \cup {c}]
      BY <2>2 DEF PartyInv
    <2>7. MergesSound' /\ PARTIES!ConfirmedWasMerged' /\ \E S : suggestions' \in [PARTIES!Pairs -> S]
      BY <2>2 DEF PartyInv, MergesSound, PARTIES!ConfirmedWasMerged
    <2> QED
      BY <2>5, <2>6, <2>7 DEF PartyInv
  <1>1. ASSUME NEW p \in Parties, PARTIES!IndexParty(p) PROVE PartyInv'
    BY <1>1, <1>g DEF PARTIES!IndexParty
  <1>2. CASE PARTIES!DedupeScan
    BY <1>2, <1>g DEF PARTIES!DedupeScan
  <1>3. ASSUME NEW u \in People, PARTIES!MergeByHand(u) PROVE PartyInv'
    BY <1>3, <1>r DEF PARTIES!MergeByHand
  <1>4. ASSUME NEW u \in People, PARTIES!ConfirmSuggestion(u) PROVE PartyInv'
    <2>1. PICK pair \in PARTIES!Pairs : \/ PARTIES!ReadForMerge(u, pair[1], pair[2], pair)
                                        \/ PARTIES!ReadForMerge(u, pair[2], pair[1], pair)
      BY <1>4 DEF PARTIES!ConfirmSuggestion
    <2>2. PARTIES!PairKey(pair[1], pair[2]) = pair /\ PARTIES!PairKey(pair[2], pair[1]) = pair
      BY KeyOfAPair
    <2> QED
      BY <1>r, <2>1, <2>2
  <1>5. ASSUME NEW u \in People, PARTIES!CommitMerge(u) PROVE PartyInv'
    <2>1. PICK c : c = confirming[u]
      OBVIOUS
    <2>2. /\ c.on /\ confirming' = [confirming EXCEPT ![u] = PARTIES!Idle]
          /\ \/ UNCHANGED <<merges, suggestions>>
             \/ /\ merges' = Append(merges, PARTIES!Merge(c.survivor, c.merged))
                /\ suggestions' = IF c.pair = <<>> THEN suggestions ELSE PARTIES!Confirmed(c.pair)
      BY <1>5, <2>1 DEF PARTIES!CommitMerge
    <2>3. /\ \A w \in People : ConfirmationSound(confirming[w])'
          /\ \E S : confirming' \in [People -> S]
      <3>1. confirming' \in [People -> {confirming[w] : w \in People} \cup {PARTIES!Idle}]
        BY <2>2 DEF PartyInv
      <3>2. \A w \in People : confirming'[w] = IF w = u THEN PARTIES!Idle ELSE confirming[w]
        BY <2>2 DEF PartyInv
      <3>3. \A w \in People : ConfirmationSound(confirming[w])'
        BY <3>2 DEF PartyInv, ConfirmationSound, PARTIES!Idle
      <3> QED
        BY <3>1, <3>3
    <2>4. CASE UNCHANGED <<merges, suggestions>>
      BY <2>3, <2>4 DEF PartyInv, MergesSound, PARTIES!ConfirmedWasMerged
    <2>5. CASE /\ merges' = Append(merges, PARTIES!Merge(c.survivor, c.merged))
               /\ suggestions' = IF c.pair = <<>> THEN suggestions ELSE PARTIES!Confirmed(c.pair)
      <3>1. PICK s, m : s = c.survivor /\ m = c.merged
        OBVIOUS
      <3>2. /\ MergesSound'
            /\ \A j \in DOMAIN merges : j \in DOMAIN merges' /\ merges'[j] = merges[j]
            /\ \E j \in DOMAIN merges' : merges'[j].survivor = s /\ merges'[j].merged = m
        BY <2>5, <3>1, MergeWritten DEF PartyInv
      <3>3. \A pair \in PARTIES!Pairs : suggestions[pair] = "confirmed" =>
                \E j \in DOMAIN merges' : PARTIES!PairKey(merges'[j].survivor, merges'[j].merged) = pair
        BY <3>2 DEF PartyInv, PARTIES!ConfirmedWasMerged
      <3>4. CASE c.pair = <<>>
        BY <2>3, <2>5, <3>2, <3>3, <3>4 DEF PartyInv, PARTIES!ConfirmedWasMerged
      <3>5. CASE c.pair # <<>>
        <4>1. PICK k : k = c.pair
          OBVIOUS
        <4>2. suggestions' = [suggestions EXCEPT ![k] = "confirmed"]
          BY <2>5, <3>5, <4>1 DEF PARTIES!Confirmed
        <4>3. k \in PARTIES!Pairs /\ PARTIES!PairKey(s, m) = k
          BY <2>1, <2>2, <3>1, <3>5, <4>1 DEF PartyInv, ConfirmationSound
        <4>4. \E S : suggestions' \in [PARTIES!Pairs -> S]
          <5>1. PICK S : suggestions \in [PARTIES!Pairs -> S]
            BY DEF PartyInv
          <5>2. suggestions' \in [PARTIES!Pairs -> S \cup {"confirmed"}]
            BY <4>2, <5>1
          <5> QED
            BY <5>2
        <4>5. \A pair \in PARTIES!Pairs : suggestions'[pair] = IF pair = k THEN "confirmed" ELSE suggestions[pair]
          BY <4>2 DEF PartyInv
        <4>6. PARTIES!ConfirmedWasMerged'
          BY <3>2, <3>3, <4>3, <4>5 DEF PARTIES!ConfirmedWasMerged
        <4> QED
          BY <2>3, <3>2, <4>4, <4>6 DEF PartyInv
      <3> QED
        BY <3>4, <3>5
    <2> QED
      BY <2>2, <2>4, <2>5
  <1>6. ASSUME NEW i \in DOMAIN merges, PARTIES!UndoMerge(i) PROVE PartyInv'
    <2>1. merges' = [merges EXCEPT ![i].undone = TRUE] /\ UNCHANGED <<suggestions, confirming>>
      BY <1>6 DEF PARTIES!UndoMerge
    <2>2. /\ MergesSound' /\ DOMAIN merges' = DOMAIN merges
          /\ \A j \in DOMAIN merges : merges'[j].survivor = merges[j].survivor /\ merges'[j].merged = merges[j].merged
      BY <2>1, MergeUndone DEF PartyInv
    <2>3. PARTIES!ConfirmedWasMerged'
      BY <2>1, <2>2 DEF PartyInv, PARTIES!ConfirmedWasMerged
    <2>4. \A u \in People : ConfirmationSound(confirming[u])'
      BY <2>1 DEF PartyInv, ConfirmationSound
    <2> QED
      BY <2>1, <2>2, <2>3, <2>4 DEF PartyInv
  <1>7. ASSUME NEW pair \in PARTIES!Pairs, PARTIES!RejectSuggestion(pair) PROVE PartyInv'
    <2>1. suggestions' = [suggestions EXCEPT ![pair] = "rejected"] /\ UNCHANGED <<merges, confirming>>
      BY <1>7 DEF PARTIES!RejectSuggestion
    <2>2. \E S : suggestions' \in [PARTIES!Pairs -> S]
      <3>1. PICK S : suggestions \in [PARTIES!Pairs -> S]
        BY DEF PartyInv
      <3>2. suggestions' \in [PARTIES!Pairs -> S \cup {"rejected"}]
        BY <2>1, <3>1
      <3> QED
        BY <3>2
    <2>3. \A k \in PARTIES!Pairs : suggestions'[k] = IF k = pair THEN "rejected" ELSE suggestions[k]
      BY <2>1 DEF PartyInv
    <2> QED
      BY <1>s, <2>1, <2>2, <2>3
  <1>8. CASE UNCHANGED PARTIES!vars
    BY <1>8, <1>s DEF PARTIES!vars, PartyInv
  <1> QED
    BY <1>1, <1>2, <1>3, <1>4, <1>5, <1>6, <1>7, <1>8 DEF PARTIES!Next

\* However confirmations, merges by hand, undone merges and rejections overlap,
\* a suggested duplicate is confirmed only along with a merge of its two records
\* (mergeParties).
LEMMA MergedOfParties ==
    ASSUME PARTIES!PartyAssumption
    PROVE  PARTIES!Spec => [](PARTIES!ConfirmedWasMerged /\ MergesSound)
  <1>1. PARTIES!Init => PartyInv
    <2> SUFFICES ASSUME PARTIES!Init PROVE PartyInv
      OBVIOUS
    <2>1. merges = <<>> /\ merges \in Seq({}) /\ DOMAIN merges = {}
      BY DEF PARTIES!Init
    <2>2. suggestions \in [PARTIES!Pairs -> {"none"}] /\ confirming \in [People -> {PARTIES!Idle}]
      BY DEF PARTIES!Init
    <2>3. \A u \in People : ~confirming[u].on
      BY <2>2 DEF PARTIES!Idle
    <2> QED
      BY <2>1, <2>2, <2>3 DEF PartyInv, MergesSound, ConfirmationSound, PARTIES!ConfirmedWasMerged
  <1>2. PartyInv /\ [PARTIES!Next]_(PARTIES!vars) => PartyInv'
    BY PartiesStay
  <1>3. PartyInv => PARTIES!ConfirmedWasMerged /\ MergesSound
    BY DEF PartyInv
  <1> QED
    BY <1>1, <1>2, <1>3, PTL DEF PARTIES!Spec

\* The chain of a record: where each hop of activeMergeMap leads.
ChainOf(direct, p, n, at) == at = [i \in 0..n |-> IF i = 0 THEN p ELSE PARTIES!NextOf(direct, at[i - 1])]
\* The rows buildPartyEntries has gone through, and what they pulled in.
Ends(i) == {merges[i].merged, PARTIES!Survivor(merges[i].merged)}
PassOver(matched, n, after) ==
    after = [i \in 0..n |->
                IF i = 0 THEN matched
                ELSE IF ~merges[i].undone /\ Ends(i) \cap after[i - 1] # {}
                     THEN after[i - 1] \cup Ends(i) ELSE after[i - 1]]

LEMMA ChainExists ==
    ASSUME NEW direct, NEW p, NEW n \in Nat
    PROVE  \E at : ChainOf(direct, p, n, at)
  <1> DEFINE T == {m \in Nat : ~\E at : ChainOf(direct, p, m, at)}
  <1> SUFFICES ASSUME T # {} PROVE FALSE
    OBVIOUS
  <1>1. PICK m \in T : \A k \in T : m <= k
    BY LeastNatural
  <1>2. m # 0
    <2>1. ChainOf(direct, p, 0, [i \in 0..0 |-> p])
      BY DEF ChainOf
    <2> QED
      BY <2>1
  <1>3. PICK at : ChainOf(direct, p, m - 1, at)
    BY <1>1, <1>2
  <1> DEFINE next == [i \in 0..m |-> IF i = 0 THEN p ELSE PARTIES!NextOf(direct, at[i - 1])]
  <1>4. \A i \in 0..m - 1 : next[i] = at[i]
    BY <1>1, <1>3 DEF ChainOf
  <1>5. next = [i \in 0..m |-> IF i = 0 THEN p ELSE PARTIES!NextOf(direct, next[i - 1])]
    <2>1. \A i \in 0..m : i # 0 => next[i - 1] = at[i - 1]
      BY <1>1, <1>4
    <2> QED
      BY <2>1
  <1>6. ChainOf(direct, p, m, next)
    BY <1>5 DEF ChainOf
  <1> QED
    BY <1>1, <1>6

LEMMA PassExists ==
    ASSUME NEW matched, NEW n \in Nat
    PROVE  \E after : PassOver(matched, n, after)
  <1> DEFINE T == {m \in Nat : ~\E after : PassOver(matched, m, after)}
             Step(f, i) == IF i = 0 THEN matched
                ELSE IF ~merges[i].undone /\ Ends(i) \cap f[i - 1] # {}
                     THEN f[i - 1] \cup Ends(i) ELSE f[i - 1]
  <1> SUFFICES ASSUME T # {} PROVE FALSE
    OBVIOUS
  <1>1. PICK m \in T : \A k \in T : m <= k
    BY LeastNatural
  <1>2. m # 0
    <2>1. PassOver(matched, 0, [i \in 0..0 |-> matched])
      BY DEF PassOver
    <2> QED
      BY <2>1
  <1>3. PICK after : PassOver(matched, m - 1, after)
    BY <1>1, <1>2
  <1> DEFINE next == [i \in 0..m |-> Step(after, i)]
  <1>4. \A i \in 0..m - 1 : next[i] = after[i]
    <2>1. after = [i \in 0..m - 1 |-> Step(after, i)]
      BY <1>3 DEF PassOver
    <2>2. \A i \in 0..m - 1 : after[i] = Step(after, i)
      <3> HIDE DEF Step
      <3> QED
        BY <2>1
    <2>3. \A i \in 0..m - 1 : i \in 0..m
      BY <1>1
    <2> HIDE DEF Step
    <2> QED
      BY <2>2, <2>3
  <1>5. next = [i \in 0..m |-> Step(next, i)]
    <2>1. \A i \in 0..m : i # 0 => next[i - 1] = after[i - 1]
      <3>1. \A i \in 0..m : i # 0 => i - 1 \in 0..m - 1
        BY <1>1
      <3> HIDE DEF next
      <3> QED
        BY <1>4, <3>1
    <2>2. \A i \in 0..m : Step(after, i) = Step(next, i)
      <3> HIDE DEF next
      <3> QED
        BY <2>1
    <2> HIDE DEF Step
    <2> QED
      BY <2>2
  <1>6. PassOver(matched, m, next)
    BY <1>5 DEF PassOver
  <1> QED
    BY <1>1, <1>6

\* Once a chain has come to a record that is not merged it stays there.
LEMMA ChainStays ==
    ASSUME NEW direct, NEW p, NEW n \in Nat, NEW at, ChainOf(direct, p, n, at), p \notin DOMAIN direct
    PROVE  at[n] = p
  <1> DEFINE T == {m \in 0..n : at[m] # p}
  <1> SUFFICES ASSUME T # {} PROVE FALSE
    OBVIOUS
  <1>1. PICK m \in T : \A k \in T : m <= k
    <2>1. T \subseteq Nat
      OBVIOUS
    <2> HIDE DEF T
    <2> QED
      BY <2>1, LeastNatural
  <1>2. m # 0
    BY <1>1 DEF ChainOf
  <1>3. m \in 0..n /\ m - 1 \in 0..n /\ at[m - 1] = p
    BY <1>1, <1>2
  <1> QED
    BY <1>1, <1>2, <1>3 DEF ChainOf, PARTIES!NextOf

\* The pass takes nothing out again.
LEMMA PassKeeps ==
    ASSUME NEW matched, NEW n \in Nat, NEW after, PassOver(matched, n, after),
           NEW j \in 0..n, NEW x \in after[j]
    PROVE  \A k \in j..n : x \in after[k]
  <1> DEFINE T == {k \in j..n : x \notin after[k]}
  <1> SUFFICES ASSUME T # {} PROVE FALSE
    OBVIOUS
  <1>1. PICK m \in T : \A k \in T : m <= k
    <2>1. T \subseteq Nat
      OBVIOUS
    <2> HIDE DEF T
    <2> QED
      BY <2>1, LeastNatural
  <1>2. m # j /\ m - 1 \in j..n /\ x \in after[m - 1]
    BY <1>1
  <1>3. m \in 0..n /\ m # 0
    BY <1>2
  <1> QED
    BY <1>1, <1>2, <1>3 DEF PassOver

LEMMA SurvivorIsAtTheEnd ==
    ASSUME NEW p, PARTIES!PartyAssumption
    PROVE  \E at : ChainOf(PARTIES!Direct, p, Hops, at) /\ PARTIES!Survivor(p) = at[Hops]
  <1> DEFINE at == CHOOSE at : ChainOf(PARTIES!Direct, p, Hops, at)
  <1>1. ChainOf(PARTIES!Direct, p, Hops, at)
    BY ChainExists DEF PARTIES!PartyAssumption
  <1>2. PARTIES!Survivor(p) = at[Hops]
    BY DEF PARTIES!Survivor, ChainOf
  <1> QED
    BY <1>1, <1>2

LEMMA SurvivorStays ==
    ASSUME NEW p, PARTIES!PartyAssumption, p \notin DOMAIN PARTIES!Direct
    PROVE  PARTIES!Survivor(p) = p
  BY SurvivorIsAtTheEnd, ChainStays DEF PARTIES!PartyAssumption

LEMMA PulledInIsThePass ==
    ASSUME NEW matched, Len(merges) \in Nat
    PROVE  \E after : PassOver(matched, Len(merges), after) /\ PARTIES!PulledIn(matched) = after[Len(merges)]
  <1> DEFINE after == CHOOSE after : PassOver(matched, Len(merges), after)
  <1>1. PassOver(matched, Len(merges), after)
    BY PassExists
  <1>2. PARTIES!PulledIn(matched) = after[Len(merges)]
    BY DEF PARTIES!PulledIn, PassOver, Ends
  <1> QED
    BY <1>1, <1>2

LEMMA SurvivorIsPulledIn ==
    ASSUME NEW p, PARTIES!PartyAssumption, Len(merges) \in Nat, DOMAIN merges = 1..Len(merges)
    PROVE  {p, PARTIES!Survivor(p)} \subseteq PARTIES!PulledIn({p})
  <1>1. PICK after : PassOver({p}, Len(merges), after) /\ PARTIES!PulledIn({p}) = after[Len(merges)]
    BY PulledInIsThePass
  <1>2. \A k \in 0..Len(merges) : p \in after[k]
    <2>1. p \in after[0] /\ 0 \in 0..Len(merges)
      BY <1>1 DEF PassOver
    <2>2. \A k \in 0..Len(merges) : p \in after[k]
      BY <1>1, <2>1, PassKeeps
    <2> QED
      BY <2>2
  <1>3. CASE p \notin DOMAIN PARTIES!Direct
    BY <1>1, <1>2, <1>3, SurvivorStays
  <1>4. CASE p \in DOMAIN PARTIES!Direct
    <2>1. PICK i \in PARTIES!ActiveMerges : merges[i].merged = p
      BY <1>4 DEF PARTIES!Direct
    <2>2. i \in 1..Len(merges) /\ ~merges[i].undone
      BY <2>1 DEF PARTIES!ActiveMerges
    <2>3. p \in after[i - 1]
      BY <1>2, <2>2
    <2>4. PARTIES!Survivor(p) \in Ends(i) /\ p \in Ends(i)
      BY <2>1 DEF Ends
    <2>5. PARTIES!Survivor(p) \in after[i]
      BY <1>1, <2>2, <2>3, <2>4 DEF PassOver
    <2>6. PARTIES!Survivor(p) \in after[Len(merges)]
      BY <1>1, <2>2, <2>5, PassKeeps
    <2> QED
      BY <1>1, <1>2, <2>6
  <1> QED
    BY <1>3, <1>4

LEMMA EntriesHoldTheSurvivor ==
    ASSUME PARTIES!PartyAssumption, Len(merges) \in Nat, DOMAIN merges = 1..Len(merges)
    PROVE  PARTIES!FoundInOneEntry
  <1> SUFFICES ASSUME NEW p \in indexed, PARTIES!Survivor(p) \notin DOMAIN PARTIES!Direct
               PROVE  \E e \in PARTIES!Entries({p}) : {p, PARTIES!Survivor(p)} \subseteq e
    BY DEF PARTIES!FoundInOneEntry
  <1> DEFINE all == PARTIES!PulledIn({p})
             e == {q \in all : PARTIES!Survivor(q) = PARTIES!Survivor(p)}
  <1>1. {p, PARTIES!Survivor(p)} \subseteq all
    BY SurvivorIsPulledIn
  <1>2. PARTIES!Survivor(PARTIES!Survivor(p)) = PARTIES!Survivor(p)
    BY SurvivorStays
  <1>3. e \in PARTIES!Entries({p})
    BY <1>1 DEF PARTIES!Entries
  <1> QED
    BY <1>1, <1>2, <1>3

-----------------------------------------------------------------------------
(* The months reconciled with the bank.                                    *)

\* What each entry did to the account.
Nets == [e \in DOMAIN postings |-> postings[e].net]

LEMMA MonthSums ==
    ASSUME NEW f, NEW S
    PROVE  MONTH!SumFunctionOnSet(f, S) = SumFunctionOnSet(f, S)
  BY DEF MONTH!SumFunctionOnSet, MONTH!FoldFunctionOnSet, MONTH!MapThenFoldSet,
         SumFunctionOnSet, FoldFunctionOnSet, MapThenFoldSet

PostingRow ==
    [date : MONTH!Days, lines : [MonthLedgers -> Int], net : Int,
     reference : {p.reference : p \in Postings} \cup {NoReference}, reverses : Nat]

\* An entry is the sum of its lines, and a reversal the negation of an earlier
\* entry that is no reversal and has no other.
BookSound ==
    /\ postings \in Seq(PostingRow)
    /\ \A e \in DOMAIN postings :
          /\ postings[e].net = SumFunctionOnSet(postings[e].lines, MonthLedgers)
          /\ postings[e].reverses # 0 =>
                /\ postings[e].reverses \in DOMAIN postings \ {e}
                /\ postings[postings[e].reverses].reverses = 0
                /\ postings[e].net = -postings[postings[e].reverses].net
                /\ \A d \in DOMAIN postings \ {e} : postings[d].reverses # postings[e].reverses

LEMMA BookTyped ==
    ASSUME BookSound
    PROVE  /\ Len(postings) \in Nat /\ DOMAIN postings = 1 .. Len(postings)
           /\ IsFiniteSet(DOMAIN postings)
           /\ \A e \in DOMAIN postings :
                 /\ postings[e] \in PostingRow /\ postings[e].date \in Int /\ postings[e].net \in Int
                 /\ postings[e].lines \in [MonthLedgers -> Int] /\ postings[e].reverses \in Nat
  <1>1. Len(postings) \in Nat /\ DOMAIN postings = 1 .. Len(postings)
    BY DEF BookSound
  <1>2. IsFiniteSet(DOMAIN postings)
    BY <1>1, FS_Interval
  <1>3. \A e \in DOMAIN postings : postings[e] \in PostingRow
    BY DEF BookSound
  <1>4. MONTH!Days \subseteq Int
    BY DEF MONTH!Days
  <1> QED
    BY <1>1, <1>2, <1>3, <1>4 DEF PostingRow

LEMMA NetsAreSums ==
    ASSUME BookSound, NEW S \in SUBSET DOMAIN postings
    PROVE  /\ IsFiniteSet(S) /\ MONTH!NetOf(S) = SumFunctionOnSet(Nets, S) /\ MONTH!NetOf(S) \in Int
           /\ \A e \in S : Nets[e] \in Int
  <1>1. IsFiniteSet(S)
    BY BookTyped, FS_Subset
  <1>2. \A e \in S : Nets[e] \in Int /\ [d \in S |-> postings[d].net][e] = Nets[e]
    BY BookTyped DEF Nets
  <1>3. MONTH!NetOf(S) = SumFunctionOnSet([d \in S |-> postings[d].net], S)
    BY MonthSums DEF MONTH!NetOf
  <1>4. SumFunctionOnSet([d \in S |-> postings[d].net], S) = SumFunctionOnSet(Nets, S)
    BY <1>1, <1>2, SumSame
  <1> QED
    BY <1>1, <1>2, <1>3, <1>4, SumIsInteger

IsList(list, S) == \E n \in Nat : list \in [1 .. n -> S]

\* Each named line is matched by a list of entries of S that add up to it, and no
\* entry is in the lists of two.
MatchesSound(f, lines, S) ==
    /\ DOMAIN f \subseteq DOMAIN lines
    /\ \A j \in DOMAIN f :
          /\ IsList(f[j], S) /\ MONTH!AmountOf(f[j]) = lines[j].amount
          /\ \A i \in DOMAIN f \ {j} : MONTH!Range(f[i]) \cap MONTH!Range(f[j]) = {}

\* A list without repeats comes to what its entries come to.
LEMMA ListsAreSums ==
    ASSUME BookSound, NEW S \in SUBSET DOMAIN postings, NEW list, IsList(list, S)
    PROVE  /\ MONTH!Range(list) \subseteq S
           /\ MONTH!IsInjective(list) => MONTH!AmountOf(list) = MONTH!NetOf(MONTH!Range(list))
  <1>1. PICK n \in Nat : list \in [1 .. n -> S]
    BY DEF IsList
  <1>2. MONTH!Range(list) \subseteq S
    BY <1>1 DEF MONTH!Range
  <1>3. ASSUME MONTH!IsInjective(list) PROVE MONTH!AmountOf(list) = MONTH!NetOf(MONTH!Range(list))
    <2> DEFINE one == [i \in 1 .. n |-> {list[i]}]
               amounts == [i \in DOMAIN list |-> postings[list[i]].net]
    <2>1. \A i \in 1 .. n : one[i] \in SUBSET DOMAIN postings /\ list[i] \in DOMAIN postings
      BY <1>1
    <2>2. Apart(Nets, one, 1 .. n)
      <3>1. ASSUME NEW i \in 1 .. n
            PROVE  /\ IsFiniteSet(one[i]) /\ \A x \in one[i] : Nets[x] \in Int
                   /\ \A j \in (1 .. n) \ {i} : one[i] \cap one[j] = {}
        <4>1. IsFiniteSet(one[i]) /\ \A x \in one[i] : Nets[x] \in Int
          BY <2>1, NetsAreSums
        <4>2. \A j \in (1 .. n) \ {i} : one[i] \cap one[j] = {}
          BY <1>1, <1>3 DEF MONTH!IsInjective
        <4> QED
          BY <4>1, <4>2
      <3> HIDE DEF one
      <3> QED
        BY <3>1 DEF Apart
    <2>3. ASSUME NEW i \in 1 .. n PROVE amounts[i] = SumFunctionOnSet(Nets, one[i])
      <3> DEFINE e == list[i]
      <3>1. e \in DOMAIN postings /\ one[i] = {e} /\ amounts[i] = Nets[e]
        BY <1>1, <2>1 DEF Nets
      <3> HIDE DEF e, one, amounts
      <3>2. IsFiniteSet({e}) /\ \A x \in {e} : Nets[x] \in Int
        BY <3>1, NetsAreSums
      <3>3. SumFunctionOnSet(Nets, {e}) = Nets[e] + SumFunctionOnSet(Nets, {e} \ {e})
        BY <3>2, SumRemove
      <3>4. SumFunctionOnSet(Nets, {e} \ {e}) = 0
        BY SumStep, FS_EmptySet
      <3> QED
        BY <3>1, <3>2, <3>3, <3>4
    <2>4. MONTH!Range(list) = UNION {one[i] : i \in 1 .. n}
      BY <1>1 DEF MONTH!Range
    <2>5. MONTH!AmountOf(list) = SumFunctionOnSet(amounts, 1 .. n)
      BY <1>1, MonthSums DEF MONTH!AmountOf, MONTH!Total
    <2> HIDE DEF one, amounts
    <2>6. IsFiniteSet(1 .. n)
      BY FS_Interval
    <2>7. SumFunctionOnSet(Nets, UNION {one[i] : i \in 1 .. n}) = SumFunctionOnSet(amounts, 1 .. n)
      <3> DEFINE places == 1 .. n
      <3>1. /\ Apart(Nets, one, places) /\ IsFiniteSet(places)
            /\ \A i \in places : amounts[i] = SumFunctionOnSet(Nets, one[i])
        BY <2>2, <2>3, <2>6
      <3> HIDE DEF places
      <3>2. SumFunctionOnSet(Nets, UNION {one[i] : i \in places}) = SumFunctionOnSet(amounts, places)
        BY <3>1, SumFamily
      <3> QED
        BY <3>2 DEF places
    <2>8. MONTH!Range(list) \in SUBSET DOMAIN postings
      BY <1>2
    <2> QED
      BY <2>4, <2>5, <2>7, <2>8, NetsAreSums
  <1> QED
    BY <1>2, <1>3

LinesTyped(lines) ==
    /\ Len(lines) \in Nat /\ DOMAIN lines = 1 .. Len(lines)
    /\ \A k \in DOMAIN lines : lines[k].day \in Nat /\ lines[k].amount \in Int

LEMMA StatementLines ==
    ASSUME MONTH!ReconciliationAssumption, NEW s \in Statements
    PROVE  LinesTyped(s.lines) /\ s.opening \in Int /\ s.closing \in Int
  <1>1. MONTH!IsStatement(s)
    BY DEF MONTH!ReconciliationAssumption
  <1>2. Len(s.lines) \in Nat /\ DOMAIN s.lines = 1 .. Len(s.lines)
    BY <1>1 DEF MONTH!IsStatement
  <1>3. MONTH!Days \subseteq Nat
    BY DEF MONTH!Days
  <1> QED
    BY <1>1, <1>2, <1>3 DEF MONTH!IsStatement, MONTH!IsLine, LinesTyped

LEMMA FirstIsLeft ==
    ASSUME NEW lines, LinesTyped(lines), NEW left \in SUBSET DOMAIN lines, left # {}
    PROVE  MONTH!FirstOf(lines, left) \in left
  <1> DEFINE days == {lines[k].day : k \in left}
  <1>1. PICK first \in days : \A d \in days : first <= d
    <2>1. days \subseteq Nat /\ days # {}
      BY DEF LinesTyped
    <2> HIDE DEF days
    <2> QED
      BY <2>1, LeastNatural
  <1> DEFINE then == {k \in left : lines[k].day = first}
  <1>2. PICK k \in then : \A j \in then : k <= j
    <2>1. then \subseteq Nat /\ then # {}
      BY DEF LinesTyped
    <2> HIDE DEF then
    <2> QED
      BY <2>1, LeastNatural
  <1>3. \A j \in left \ {k} : lines[k].day < lines[j].day \/ (lines[k].day = lines[j].day /\ k < j)
    <2> SUFFICES ASSUME NEW j \in left \ {k}
                 PROVE  lines[k].day < lines[j].day \/ (lines[k].day = lines[j].day /\ k < j)
      OBVIOUS
    <2>1. lines[k].day <= lines[j].day /\ lines[j].day \in Nat /\ lines[k].day \in Nat
      BY <1>1, <1>2 DEF LinesTyped
    <2>2. k \in Nat /\ j \in Nat
      BY DEF LinesTyped
    <2>3. lines[j].day = lines[k].day => k <= j
      BY <1>2
    <2> QED
      BY <2>1, <2>2, <2>3
  <1> QED
    BY <1>2, <1>3 DEF MONTH!FirstOf

\* Of two entries that fit a line one is the better, and not both.
LEMMA NotBothBetter ==
    ASSUME BookSound, NEW line, line.day \in Int, NEW d \in DOMAIN postings, NEW e \in DOMAIN postings,
           MONTH!Better(line, d, e), MONTH!Better(line, e, d)
    PROVE  FALSE
  <1>1. \A x \in DOMAIN postings : MONTH!Score(line, x) \in Int
    <2> SUFFICES ASSUME NEW x \in DOMAIN postings PROVE MONTH!Score(line, x) \in Int
      OBVIOUS
    <2>1. MONTH!Lag(line, x) \in Int
      BY BookTyped DEF MONTH!Lag
    <2> QED
      BY <2>1 DEF MONTH!Score, MONTH!Distance
  <1>2. d \in Int /\ e \in Int
    BY BookTyped
  <1> QED
    BY <1>1, <1>2 DEF MONTH!Better

LEMMA MatchLineKeeps ==
    ASSUME BookSound, NEW lines, LinesTyped(lines), NEW S \in SUBSET DOMAIN postings,
           NEW f, MatchesSound(f, lines, S), NEW k \in DOMAIN lines \ DOMAIN f,
           NEW g, g = MONTH!MatchLine(lines, S, f, k)
    PROVE  MatchesSound(g, lines, S) /\ DOMAIN g \subseteq DOMAIN f \cup {k}
  <1> DEFINE fit == {e \in MONTH!Untaken(S, f) : MONTH!MayBe(lines[k], e)}
             best == {e \in fit : \A d \in fit \ {e} : MONTH!Better(lines[k], e, d)}
  <1>1. CASE best = {}
    BY <1>1 DEF MONTH!MatchLine
  <1>2. CASE best # {}
    <2>1. PICK e : e \in best
      BY <1>2
    <2>2. fit \subseteq S /\ \A j \in DOMAIN f : MONTH!Range(f[j]) \cap fit = {}
      BY DEF MONTH!Untaken, MONTH!Named
    <2>3. best = {e}
      <3> SUFFICES ASSUME NEW d \in best, d # e PROVE FALSE
        BY <2>1
      <3>1. MONTH!Better(lines[k], e, d) /\ MONTH!Better(lines[k], d, e)
        BY <2>1
      <3>2. d \in DOMAIN postings /\ e \in DOMAIN postings /\ lines[k].day \in Int
        BY <2>1, <2>2 DEF LinesTyped
      <3> QED
        BY <3>1, <3>2, NotBothBetter
    <2>4. <<e>> \in [1 .. 1 -> S] /\ MONTH!Range(<<e>>) = {e} /\ MONTH!IsInjective(<<e>>)
      BY <2>1, <2>2 DEF MONTH!Range, MONTH!IsInjective
    <2>5. MONTH!AmountOf(<<e>>) = lines[k].amount
      <3>1. MONTH!AmountOf(<<e>>) = MONTH!NetOf({e})
        <4>1. IsList(<<e>>, S)
          BY <2>4 DEF IsList
        <4> QED
          BY <2>4, <4>1, ListsAreSums
      <3>2. MONTH!NetOf({e}) = SumFunctionOnSet(Nets, {e}) /\ Nets[e] \in Int /\ IsFiniteSet({e})
        BY <2>1, <2>2, NetsAreSums
      <3>3. SumFunctionOnSet(Nets, {e}) = Nets[e] + SumFunctionOnSet(Nets, {e} \ {e})
        BY <3>2, SumRemove
      <3>4. SumFunctionOnSet(Nets, {e} \ {e}) = 0
        BY SumStep, FS_EmptySet
      <3>5. Nets[e] = lines[k].amount
        BY <2>1, <2>2 DEF MONTH!MayBe, Nets
      <3> HIDE DEF best, fit
      <3> QED
        BY <3>1, <3>2, <3>3, <3>4, <3>5
    <2>6. (CHOOSE x \in best : TRUE) = e
      BY <2>3
    <2>7. g = [j \in DOMAIN f \cup {k} |-> IF j = k THEN <<e>> ELSE f[j]]
      <3>1. g = [j \in DOMAIN f \cup {k} |-> IF j = k THEN <<CHOOSE x \in best : TRUE>> ELSE f[j]]
        BY <1>2 DEF MONTH!MatchLine
      <3> HIDE DEF best
      <3> QED
        BY <2>6, <3>1
    <2>8. e \in fit
      BY <2>1
    <2> HIDE DEF best, fit
    <2>9. \A j \in DOMAIN f : e \notin MONTH!Range(f[j])
      BY <2>2, <2>8
    <2>10. IsList(<<e>>, S)
      BY <2>4 DEF IsList
    <2>11. DOMAIN g = DOMAIN f \cup {k} /\ g[k] = <<e>> /\ \A j \in DOMAIN f : g[j] = f[j]
      BY <2>7
    <2> QED
      BY <2>4, <2>5, <2>9, <2>10, <2>11 DEF MatchesSound
  <1> QED
    BY <1>1, <1>2

\* The lines matched one after another, and what each step leaves.
Unmatched(s, manual) == [matches |-> manual, left |-> DOMAIN s.lines \ DOMAIN manual]
LinesTaken(s, S, manual, n, after) ==
    after = [i \in 0..n |-> IF i = 0 THEN Unmatched(s, manual) ELSE MONTH!NextMatch(s, S, after[i - 1])]

LEMMA LinesAreTaken ==
    ASSUME NEW s, NEW S, NEW manual, NEW n \in Nat
    PROVE  \E after : LinesTaken(s, S, manual, n, after)
  <1> DEFINE T == {m \in Nat : ~\E after : LinesTaken(s, S, manual, m, after)}
             Step(f, i) == IF i = 0 THEN Unmatched(s, manual) ELSE MONTH!NextMatch(s, S, f[i - 1])
  <1> SUFFICES ASSUME T # {} PROVE FALSE
    OBVIOUS
  <1>1. PICK m \in T : \A k \in T : m <= k
    BY LeastNatural
  <1>2. m # 0
    <2>1. LinesTaken(s, S, manual, 0, [i \in 0..0 |-> Unmatched(s, manual)])
      BY DEF LinesTaken
    <2> QED
      BY <2>1
  <1>3. PICK after : LinesTaken(s, S, manual, m - 1, after)
    BY <1>1, <1>2
  <1> DEFINE next == [i \in 0..m |-> Step(after, i)]
  <1>4. \A i \in 0..m - 1 : next[i] = after[i]
    <2>1. after = [i \in 0..m - 1 |-> Step(after, i)]
      BY <1>3 DEF LinesTaken
    <2>2. \A i \in 0..m - 1 : after[i] = Step(after, i)
      <3> HIDE DEF Step
      <3> QED
        BY <2>1
    <2>3. \A i \in 0..m - 1 : i \in 0..m
      BY <1>1
    <2> HIDE DEF Step
    <2> QED
      BY <2>2, <2>3
  <1>5. next = [i \in 0..m |-> Step(next, i)]
    <2>1. \A i \in 0..m : i # 0 => next[i - 1] = after[i - 1]
      <3>1. \A i \in 0..m : i # 0 => i - 1 \in 0..m - 1
        BY <1>1
      <3> HIDE DEF next
      <3> QED
        BY <1>4, <3>1
    <2>2. \A i \in 0..m : Step(after, i) = Step(next, i)
      <3> HIDE DEF next
      <3> QED
        BY <2>1
    <2> HIDE DEF Step
    <2> QED
      BY <2>2
  <1>6. LinesTaken(s, S, manual, m, next)
    BY <1>5 DEF LinesTaken
  <1> QED
    BY <1>1, <1>6

\* However far the matching has come, it is sound and what is left has no match.
LEMMA MatchedIsSound ==
    ASSUME BookSound, NEW s, LinesTyped(s.lines), NEW S \in SUBSET DOMAIN postings,
           NEW manual, MatchesSound(manual, s.lines, S)
    PROVE  MatchesSound(MONTH!Matched(s, S, manual), s.lines, S)
  <1> DEFINE n == Len(s.lines)
             after == CHOOSE f : LinesTaken(s, S, manual, n, f)
             Good(so) == /\ MatchesSound(so.matches, s.lines, S)
                         /\ so.left \subseteq DOMAIN s.lines \ DOMAIN so.matches
             T == {i \in 0..n : ~Good(after[i])}
  <1>1. n \in Nat
    BY DEF LinesTyped
  <1>2. LinesTaken(s, S, manual, n, after)
    BY <1>1, LinesAreTaken
  <1>3. MONTH!Matched(s, S, manual) = after[n].matches
    BY DEF MONTH!Matched, LinesTaken, Unmatched
  <1> HIDE DEF after
  <1>4. T = {}
    <2> SUFFICES ASSUME T # {} PROVE FALSE
      OBVIOUS
    <2>1. PICK i \in T : \A k \in T : i <= k
      <3>1. T \subseteq Nat
        OBVIOUS
      <3> HIDE DEF T
      <3> QED
        BY <3>1, LeastNatural
    <2>2. i # 0
      <3> SUFFICES ASSUME i = 0 PROVE FALSE
        OBVIOUS
      <3>1. after[0] = Unmatched(s, manual)
        BY <1>1, <1>2 DEF LinesTaken
      <3> QED
        BY <3>1 DEF Unmatched
    <2> DEFINE so == after[i - 1]
    <2>3. i - 1 \in 0..n /\ Good(so)
      BY <1>1, <2>1, <2>2
    <2>4. after[i] = MONTH!NextMatch(s, S, so)
      BY <1>2, <2>2 DEF LinesTaken
    <2> HIDE DEF so
    <2>5. CASE so.left = {}
      BY <2>3, <2>4, <2>5 DEF MONTH!NextMatch
    <2>6. CASE so.left # {}
      <3> DEFINE k == MONTH!FirstOf(s.lines, so.left)
                 g == MONTH!MatchLine(s.lines, S, so.matches, k)
      <3>1. k \in so.left
        BY <2>3, <2>6, FirstIsLeft
      <3>2. after[i] = [matches |-> g, left |-> so.left \ {k}]
        BY <2>4, <2>6 DEF MONTH!NextMatch
      <3> HIDE DEF k
      <3>3. MatchesSound(g, s.lines, S) /\ DOMAIN g \subseteq DOMAIN so.matches \cup {k}
        BY SMTT(30), <2>3, <3>1, MatchLineKeeps
      <3> HIDE DEF g
      <3> QED
        BY <2>3, <3>2, <3>3
    <2> QED
      BY <2>5, <2>6
  <1>5. Good(after[n])
    BY <1>1, <1>4
  <1> QED
    BY <1>3, <1>5

\* Entries that undo one another come to nothing.
LEMMA PairsCancel ==
    ASSUME BookSound, NEW free \in SUBSET DOMAIN postings, NEW pairs, pairs = MONTH!ReversalPairs(free)
    PROVE  pairs \subseteq free /\ MONTH!NetOf(pairs) = 0
  <1> DEFINE undoing == {x \in free : postings[x].reverses \in free}
             F == [e \in undoing |-> {e, postings[e].reverses}]
             zero == [e \in undoing |-> 0]
  <1>1. pairs = UNION {F[e] : e \in undoing}
    BY DEF MONTH!ReversalPairs
  <1>2. pairs \subseteq free
    BY <1>1
  <1>3. IsFiniteSet(undoing)
    BY BookTyped, FS_Subset
  <1>4. ASSUME NEW e \in undoing
        PROVE  /\ IsFiniteSet(F[e]) /\ \A x \in F[e] : Nets[x] \in Int
               /\ SumFunctionOnSet(Nets, F[e]) = 0
               /\ \A d \in undoing \ {e} : F[e] \cap F[d] = {}
    <2> DEFINE r == postings[e].reverses
    <2>1. /\ e \in DOMAIN postings /\ r \in DOMAIN postings \ {e}
          /\ postings[r].reverses = 0 /\ postings[e].net = -postings[r].net
          /\ \A d \in DOMAIN postings \ {e} : postings[d].reverses # r
      <3>1. e \in DOMAIN postings /\ r \in DOMAIN postings
        OBVIOUS
      <3>2. r # 0
        BY <3>1, BookTyped
      <3> QED
        BY <3>1, <3>2 DEF BookSound
    <2>2. F[e] = {e, r} /\ F[e] \in SUBSET DOMAIN postings
      BY <2>1
    <2>3. IsFiniteSet(F[e]) /\ \A x \in F[e] : Nets[x] \in Int
      BY <2>2, NetsAreSums
    <2>4. \A d \in undoing \ {e} : F[e] \cap F[d] = {}
      <3> SUFFICES ASSUME NEW d \in undoing \ {e} PROVE F[e] \cap F[d] = {}
        OBVIOUS
      <3>1. F[d] = {d, postings[d].reverses}
        OBVIOUS
      <3>2. d # e /\ postings[d].reverses # r
        BY <2>1
      <3>3. d # r
        <4>1. postings[d].reverses \in DOMAIN postings /\ 0 \notin DOMAIN postings
          BY BookTyped
        <4> QED
          BY <2>1, <4>1
      <3>4. postings[d].reverses # e
        <4> SUFFICES ASSUME postings[d].reverses = e PROVE FALSE
          OBVIOUS
        <4>1. d \in DOMAIN postings /\ e # 0 /\ r # 0
          BY <2>1, BookTyped
        <4>2. postings[e].reverses = 0
          BY <4>1 DEF BookSound
        <4> QED
          BY <4>1, <4>2
      <3> QED
        BY <2>2, <3>1, <3>2, <3>3, <3>4
    <2>5. SumFunctionOnSet(Nets, {e, r}) = 0
      <3>1. /\ SumFunctionOnSet(Nets, {e, r}) = Nets[e] + SumFunctionOnSet(Nets, {e, r} \ {e})
            /\ Nets[e] \in Int /\ Nets[r] \in Int
        BY <2>2, <2>3, SumRemove
      <3>2. {e, r} \ {e} = {r}
        BY <2>1
      <3>3. SumFunctionOnSet(Nets, {r}) = Nets[r] + SumFunctionOnSet(Nets, {r} \ {r})
        <4>1. IsFiniteSet({r}) /\ \A x \in {r} : Nets[x] \in Int
          BY <2>1, NetsAreSums
        <4> HIDE DEF r
        <4> QED
          BY <4>1, SumRemove
      <3>4. SumFunctionOnSet(Nets, {r} \ {r}) = 0
        BY SumStep, FS_EmptySet
      <3>5. Nets[e] = -Nets[r]
        BY <2>1 DEF Nets
      <3>6. SumFunctionOnSet(Nets, {e, r}) = Nets[e] + SumFunctionOnSet(Nets, {r})
        BY <3>1, <3>2
      <3> HIDE DEF r
      <3> QED
        BY <3>1, <3>3, <3>4, <3>5, <3>6
    <2> QED
      BY <2>2, <2>3, <2>4, <2>5
  <1> HIDE DEF F, undoing
  <1>5. \A e \in undoing : zero[e] = SumFunctionOnSet(Nets, F[e])
    BY <1>4
  <1>6. SumFunctionOnSet(Nets, pairs) = SumFunctionOnSet(zero, undoing)
    <2> HIDE DEF zero
    <2>1. Apart(Nets, F, undoing)
      BY <1>4 DEF Apart
    <2> QED
      BY <1>1, <1>3, <1>5, <2>1, SumFamily
  <1>7. SumFunctionOnSet(zero, undoing) = 0
    BY <1>3, SumZero
  <1> QED
    BY <1>2, <1>6, <1>7, NetsAreSums

\* The entries a worksheet was made from, and a ledger's balance over them.
Reached(w) == {e \in 1 .. w.through : postings[e].date <= MONTH!MonthEnd(w.month)}
LineAmounts(lines) == [k \in DOMAIN lines |-> lines[k].amount]
ReachedBalance(w, l) == SumFunctionOnSet([e \in Reached(w) |-> postings[e].lines[l]], Reached(w))

\* What a worksheet says of the book and of its statement, however long ago it
\* was prepared and whatever was posted or closed since.
ClearsEachOnce(w) ==
    /\ MatchesSound(w.matches, w.statement.lines, Reached(w))
    /\ w.pairs \subseteq Reached(w) /\ MONTH!NetOf(w.pairs) = 0
    /\ \A j \in DOMAIN w.matches : MONTH!Range(w.matches[j]) \cap w.pairs = {}
    /\ w.passed \subseteq DOMAIN w.statement.lines \ DOMAIN w.matches
    /\ SumFunctionOnSet(LineAmounts(w.statement.lines), w.passed) = 0
    /\ MONTH!ClearedBy(w) \cap MONTH!ClearedThrough(w.after) = {}

BalancedIsTrue(w) ==
    /\ DOMAIN w.matches \cup w.passed = DOMAIN w.statement.lines
    /\ \A l \in MonthLedgers : ReachedBalance(w, l) >= 0
    /\ MONTH!ClearedThrough(w.after) \subseteq Reached(w) =>
          w.statement.closing = MONTH!NetOf(MONTH!ClearedThrough(w.after) \cup MONTH!ClearedBy(w))

WorksheetSound(w) ==
    /\ w.month \in MONTH!Months /\ w.through \in 0 .. Len(postings) /\ w.after \in 0 .. Len(closes)
    /\ w.statement \in Statements /\ MONTH!Foots(w.statement)
    /\ ClearsEachOnce(w)
    /\ w.balanced => BalancedIsTrue(w)

IsASequence(s) == \E S : s \in Seq(S)

\* A closed month is closed on a worksheet that knew every entry of the month.
ClosesSound ==
    /\ IsASequence(closes)
    /\ \A k \in DOMAIN closes :
          /\ WorksheetSound(closes[k]) /\ closes[k].balanced /\ closes[k].after < k
          /\ MONTH!Dated(closes[k].month) \subseteq 1 .. closes[k].through
          /\ \A j \in DOMAIN closes : closes[k].month - closes[j].month = k - j

MonthInv ==
    /\ BookSound /\ ClosesSound
    /\ DOMAIN inForce = MONTH!Months /\ DOMAIN prepared = MONTH!Months
    /\ \A m \in MONTH!Months :
          /\ \A s \in inForce[m] : s \in Statements /\ MONTH!Foots(s)
          /\ \A w \in prepared[m] : w.month = m /\ WorksheetSound(w)

LEMMA SequenceTyped ==
    ASSUME NEW s, IsASequence(s)
    PROVE  Len(s) \in Nat /\ DOMAIN s = 1 .. Len(s)
  BY DEF IsASequence

LEMMA MonthLengths ==
    ASSUME MONTH!ReconciliationAssumption
    PROVE  \A j, k \in Int : /\ MONTH!MonthEnd(j) \in Int
                             /\ j <= k => MONTH!MonthEnd(j) <= MONTH!MonthEnd(k)
  <1>1. MonthLength \in Nat
    BY DEF MONTH!ReconciliationAssumption
  <1> SUFFICES ASSUME NEW j \in Int, NEW k \in Int
               PROVE  /\ MONTH!MonthEnd(j) \in Int
                      /\ j <= k => MONTH!MonthEnd(j) <= MONTH!MonthEnd(k)
    OBVIOUS
  <1>2. MONTH!MonthEnd(j) \in Int /\ MONTH!MonthEnd(k) \in Int
    BY <1>1 DEF MONTH!MonthEnd
  <1>3. j <= k => MONTH!MonthEnd(j) <= MONTH!MonthEnd(k)
    <2> SUFFICES ASSUME j <= k PROVE j * MonthLength <= k * MonthLength
      BY DEF MONTH!MonthEnd
    <2>1. (k - j) * MonthLength >= 0
      BY <1>1, SMT
    <2>2. k * MonthLength = j * MonthLength + (k - j) * MonthLength
      BY <1>1, SMT
    <2>3. j * MonthLength \in Int /\ k * MonthLength \in Int /\ (k - j) * MonthLength \in Int
      BY <1>1
    <2> QED
      BY <2>1, <2>2, <2>3
  <1> QED
    BY <1>2, <1>3

\* What no line took, no pair cancels and no earlier month cleared is what the
\* bank still owes the book: the rest of the month's entries the bank cleared.
LEMMA ClearedIsTheRest ==
    ASSUME BookSound, NEW dated \in SUBSET DOMAIN postings, NEW before \in SUBSET dated,
           NEW candidates, candidates = {e \in dated : postings[e].net # 0 /\ e \notin before},
           NEW cleared \in SUBSET candidates,
           NEW closing \in Int,
           closing + MONTH!NetOf(candidates \ cleared) = MONTH!NetOf(dated)
    PROVE  closing = MONTH!NetOf(before \cup cleared)
  <1> DEFINE outstanding == candidates \ cleared
             known == (before \cup cleared) \cup outstanding
  <1>1. known \subseteq dated /\ (before \cup cleared) \cap outstanding = {}
    OBVIOUS
  <1>2. \A e \in dated \ known : Nets[e] = 0
    BY DEF Nets
  <1>3. before \cup cleared \in SUBSET DOMAIN postings /\ outstanding \in SUBSET DOMAIN postings
    OBVIOUS
  <1>4. MONTH!NetOf(candidates \ cleared) = MONTH!NetOf(outstanding)
    OBVIOUS
  <1> HIDE DEF outstanding
  <1>5. SumFunctionOnSet(Nets, dated) = SumFunctionOnSet(Nets, known)
    <2> HIDE DEF known
    <2> QED
      BY <1>1, <1>2, NetsAreSums, SumRestrict
  <1>6. SumFunctionOnSet(Nets, known) =
            SumFunctionOnSet(Nets, before \cup cleared) + SumFunctionOnSet(Nets, outstanding)
    BY <1>1, <1>3, NetsAreSums, SumUnion
  <1>7. /\ MONTH!NetOf(dated) = SumFunctionOnSet(Nets, dated)
        /\ MONTH!NetOf(outstanding) = SumFunctionOnSet(Nets, outstanding)
        /\ MONTH!NetOf(outstanding) \in Int
        /\ MONTH!NetOf(before \cup cleared) = SumFunctionOnSet(Nets, before \cup cleared)
        /\ MONTH!NetOf(before \cup cleared) \in Int
    BY <1>3, NetsAreSums
  <1> QED
    BY <1>4, <1>5, <1>6, <1>7

LEMMA PassThroughIsNothing ==
    ASSUME NEW lines, LinesTyped(lines), NEW rest \in SUBSET DOMAIN lines,
           NEW passed, passed = MONTH!PassThrough(lines, rest)
    PROVE  passed \subseteq rest /\ SumFunctionOnSet(LineAmounts(lines), passed) = 0
  <1> DEFINE iolta == {k \in rest : lines[k].iolta}
             amounts == [k \in iolta |-> lines[k].amount]
  <1>1. IsFiniteSet(iolta)
    <2>1. IsFiniteSet(DOMAIN lines) /\ iolta \subseteq DOMAIN lines
      BY FS_Interval DEF LinesTyped
    <2> QED
      BY <2>1, FS_Subset
  <1>2. CASE MONTH!Total(amounts) = 0
    <2>1. passed = iolta
      BY <1>2 DEF MONTH!PassThrough
    <2>2. SumFunctionOnSet(amounts, iolta) = 0
      BY <1>2, MonthSums DEF MONTH!Total
    <2>3. \A k \in iolta : LineAmounts(lines)[k] \in Int /\ LineAmounts(lines)[k] = amounts[k]
      BY DEF LineAmounts, LinesTyped
    <2> HIDE DEF iolta, amounts
    <2>4. SumFunctionOnSet(amounts, iolta) = SumFunctionOnSet(LineAmounts(lines), iolta)
      BY <1>1, <2>3, SumSame
    <2> QED
      BY <2>1, <2>2, <2>4 DEF iolta
  <1>3. CASE MONTH!Total(amounts) # 0
    <2>1. passed = {}
      BY <1>3 DEF MONTH!PassThrough
    <2> QED
      BY <2>1, SumStep, FS_EmptySet
  <1> QED
    BY <1>2, <1>3

LEMMA WorksheetIsSound ==
    ASSUME MONTH!ReconciliationAssumption, MonthInv, NEW m \in MONTH!Months, NEW s \in inForce[m],
           NEW manual \in MONTH!ManualMatches(s, m), NEW w, w = MONTH!Worksheet(s, m, manual)
    PROVE  w.month = m /\ WorksheetSound(w)
  <1> DEFINE candidates == MONTH!Candidates(m)
             matches == MONTH!Matched(s, candidates, manual)
             free == MONTH!Untaken(candidates, matches)
             pairs == MONTH!ReversalPairs(free)
             rest == DOMAIN s.lines \ DOMAIN matches
             passed == MONTH!PassThrough(s.lines, rest)
             dated == MONTH!Dated(m)
             before == MONTH!PreviouslyCleared
  <1>1. /\ w.month = m /\ w.statement = s /\ w.through = Len(postings) /\ w.after = Len(closes)
        /\ w.matches = matches /\ w.pairs = pairs /\ w.passed = passed
        /\ w.balanced = MONTH!Balanced(s, m, free \ pairs, rest \ passed)
    BY DEF MONTH!Worksheet
  <1>2. /\ BookSound /\ IsASequence(closes)
        /\ s \in Statements /\ MONTH!Foots(s)
    BY DEF MonthInv, ClosesSound
  <1>3. LinesTyped(s.lines) /\ s.closing \in Int
    BY <1>2, StatementLines
  <1>4. candidates \subseteq dated /\ dated \subseteq DOMAIN postings /\ Reached(w) = dated
    BY <1>1, <1>2, BookTyped DEF MONTH!Candidates, MONTH!Dated, Reached
  <1>5. before = MONTH!ClearedThrough(w.after) /\ candidates \cap before = {}
    BY <1>1, <1>2, SequenceTyped DEF MONTH!PreviouslyCleared, MONTH!ClearedThrough, MONTH!Candidates
  <1>6. MatchesSound(manual, s.lines, candidates)
    <2>1. /\ DOMAIN manual \subseteq DOMAIN s.lines
          /\ \A k \in DOMAIN manual : manual[k] \in MONTH!Lists(candidates)
      BY DEF MONTH!ManualMatches
    <2>2. \A list \in MONTH!Lists(candidates) : IsList(list, candidates)
      BY DEF MONTH!Lists, IsList, MONTH!ReconciliationAssumption
    <2>3. \A k \in DOMAIN manual :
             /\ MONTH!AmountOf(manual[k]) = s.lines[k].amount
             /\ \A j \in DOMAIN manual \ {k} : MONTH!Range(manual[j]) \cap MONTH!Range(manual[k]) = {}
      BY DEF MONTH!ManualMatches
    <2> QED
      BY <2>1, <2>2, <2>3 DEF MatchesSound
  <1>7. candidates \in SUBSET DOMAIN postings
    BY <1>4
  <1> HIDE DEF candidates, dated, before
  <1>8. MatchesSound(matches, s.lines, candidates)
    BY <1>2, <1>3, <1>6, <1>7, MatchedIsSound
  <1> HIDE DEF matches
  <1>9. free \subseteq candidates /\ \A j \in DOMAIN matches : MONTH!Range(matches[j]) \cap free = {}
    BY DEF MONTH!Untaken, MONTH!Named
  <1>10. candidates = free \cup UNION {MONTH!Range(matches[j]) : j \in DOMAIN matches}
    <2>1. \A j \in DOMAIN matches : MONTH!Range(matches[j]) \subseteq candidates
      BY <1>2, <1>7, <1>8, ListsAreSums DEF MatchesSound
    <2> QED
      BY <2>1 DEF MONTH!Untaken, MONTH!Named
  <1> HIDE DEF free
  <1>11. pairs \subseteq free /\ MONTH!NetOf(pairs) = 0
    BY <1>2, <1>7, <1>9, PairsCancel
  <1>12. passed \subseteq rest /\ SumFunctionOnSet(LineAmounts(s.lines), passed) = 0
    BY <1>3, PassThroughIsNothing
  <1> HIDE DEF pairs, passed
  <1> DEFINE cleared == MONTH!ClearedBy(w)
  <1>13. cleared = pairs \cup UNION {MONTH!Range(matches[j]) : j \in DOMAIN matches}
    BY <1>1 DEF MONTH!ClearedBy, MONTH!Named
  <1>14. cleared \subseteq candidates /\ candidates \ cleared = free \ pairs
    <2> HIDE DEF cleared
    <2>1. \A j \in DOMAIN matches : MONTH!Range(matches[j]) \cap free = {}
      BY <1>9
    <2> QED
      BY <1>9, <1>10, <1>11, <1>13, <2>1
  <1> HIDE DEF cleared
  <1>15. ClearsEachOnce(w)
    <2>1. MatchesSound(w.matches, w.statement.lines, Reached(w))
      <3>1. \A list : IsList(list, candidates) => IsList(list, Reached(w))
        BY <1>4 DEF IsList
      <3> QED
        BY <1>1, <1>8, <3>1 DEF MatchesSound
    <2>2. \A j \in DOMAIN w.matches : MONTH!Range(w.matches[j]) \cap w.pairs = {}
      BY <1>1, <1>9, <1>11
    <2>3. cleared \cap before = {}
      BY <1>5, <1>14
    <2> QED
      BY <1>1, <1>4, <1>5, <1>9, <1>11, <1>12, <2>1, <2>2, <2>3 DEF ClearsEachOnce, cleared
  <1>16. ASSUME w.balanced PROVE BalancedIsTrue(w)
    <2>1. /\ MONTH!LedgersCovered(m) /\ rest \ passed = {} /\ MONTH!Agrees(s, m, free \ pairs)
      BY <1>1, <1>16 DEF MONTH!Balanced
    <2>2. DOMAIN w.matches \cup w.passed = DOMAIN w.statement.lines
      BY <1>1, <1>8, <1>12, <2>1 DEF MatchesSound
    <2>3. ASSUME NEW l \in MonthLedgers PROVE ReachedBalance(w, l) >= 0
      <3>1. MONTH!BalanceAt(l, m) >= 0
        BY <2>1 DEF MONTH!LedgersCovered
      <3>2. MONTH!BalanceAt(l, m) =
               SumFunctionOnSet([e \in DOMAIN postings |-> postings[e].lines[l]], Reached(w))
        BY <1>4, MonthSums DEF MONTH!BalanceAt, dated
      <3>3. SumFunctionOnSet([e \in DOMAIN postings |-> postings[e].lines[l]], Reached(w)) =
               ReachedBalance(w, l)
        <4> DEFINE f == [e \in DOMAIN postings |-> postings[e].lines[l]]
                   g == [e \in Reached(w) |-> postings[e].lines[l]]
        <4>1. IsFiniteSet(Reached(w)) /\ Reached(w) \subseteq DOMAIN postings
          BY <1>2, <1>4, BookTyped, FS_Subset
        <4>2. \A e \in Reached(w) : g[e] \in Int /\ f[e] = g[e]
          BY <1>2, <4>1, BookTyped
        <4> HIDE DEF f, g
        <4>3. SumFunctionOnSet(f, Reached(w)) = SumFunctionOnSet(g, Reached(w))
          BY <4>1, <4>2, SumSame
        <4> QED
          BY <4>3 DEF ReachedBalance, f, g
      <3> QED
        BY <3>1, <3>2, <3>3
    <2>4. ASSUME before \subseteq dated PROVE s.closing = MONTH!NetOf(before \cup cleared)
      <3>1. s.closing + MONTH!NetOf(candidates \ cleared) = MONTH!NetOf(dated)
        BY <1>14, <2>1 DEF MONTH!Agrees, dated
      <3>2. candidates = {e \in dated : postings[e].net # 0 /\ e \notin before}
        BY DEF candidates, MONTH!Candidates, dated, before
      <3>3. dated \in SUBSET DOMAIN postings /\ before \in SUBSET dated /\ cleared \in SUBSET candidates
        BY <1>4, <1>14, <2>4
      <3> QED
        BY <1>2, <1>3, <3>1, <3>2, <3>3, ClearedIsTheRest
    <2> QED
      BY <1>1, <1>4, <1>5, <2>2, <2>3, <2>4 DEF BalancedIsTrue, cleared
  <1>17. w.month \in MONTH!Months /\ w.through \in 0 .. Len(postings) /\ w.after \in 0 .. Len(closes)
    BY <1>1, <1>2, BookTyped, SequenceTyped
  <1> QED
    BY <1>1, <1>2, <1>15, <1>16, <1>17 DEF WorksheetSound

-----------------------------------------------------------------------------
\* Whatever is posted, and whatever months are closed, a sound worksheet stays so.

LEMMA SumsStay ==
    ASSUME BookSound, NEW row, postings' = Append(postings, row),
           NEW S \in SUBSET DOMAIN postings
    PROVE  MONTH!NetOf(S)' = MONTH!NetOf(S)
  <1>1. \A e \in S : postings'[e] = postings[e]
    BY DEF BookSound
  <1>2. [e \in S |-> postings'[e].net] = [e \in S |-> postings[e].net]
    BY <1>1
  <1> QED
    BY <1>2 DEF MONTH!NetOf

LEMMA AmountsStay ==
    ASSUME BookSound, NEW row, postings' = Append(postings, row), NEW list, IsList(list, DOMAIN postings)
    PROVE  MONTH!AmountOf(list)' = MONTH!AmountOf(list)
  <1>1. \A i \in DOMAIN list : postings'[list[i]] = postings[list[i]]
    BY DEF BookSound, IsList
  <1>2. [i \in DOMAIN list |-> postings'[list[i]].net] = [i \in DOMAIN list |-> postings[list[i]].net]
    BY <1>1
  <1> QED
    BY <1>2 DEF MONTH!AmountOf, MONTH!Total

LEMMA ReachedIsKnown ==
    ASSUME BookSound, NEW w, w.through \in 0 .. Len(postings)
    PROVE  Reached(w) \subseteq DOMAIN postings
  BY BookTyped DEF Reached

LEMMA ClearedIsReached ==
    ASSUME NEW w, ClearsEachOnce(w)
    PROVE  MONTH!ClearedBy(w) \subseteq Reached(w)
  <1>1. \A j \in DOMAIN w.matches : MONTH!Range(w.matches[j]) \subseteq Reached(w)
    BY DEF ClearsEachOnce, MatchesSound, IsList, MONTH!Range
  <1> QED
    BY <1>1 DEF ClearsEachOnce, MONTH!ClearedBy, MONTH!Named

LEMMA EarlierIsKnown ==
    ASSUME BookSound, ClosesSound, NEW k \in 0 .. Len(closes)
    PROVE  MONTH!ClearedThrough(k) \subseteq DOMAIN postings
  <1>1. DOMAIN closes = 1 .. Len(closes) /\ Len(closes) \in Nat
    BY SequenceTyped DEF ClosesSound
  <1>2. \A j \in DOMAIN closes : MONTH!ClearedBy(closes[j]) \subseteq DOMAIN postings
    BY ClearedIsReached, ReachedIsKnown DEF ClosesSound, WorksheetSound
  <1> QED
    BY <1>1, <1>2 DEF MONTH!ClearedThrough

LEMMA PostKeepsWorksheet ==
    ASSUME BookSound, ClosesSound, NEW row, postings' = Append(postings, row), UNCHANGED closes,
           NEW w, WorksheetSound(w)
    PROVE  WorksheetSound(w)' /\ Reached(w)' = Reached(w)
  <1> DEFINE R == Reached(w)
             before == MONTH!ClearedThrough(w.after)
             cleared == MONTH!ClearedBy(w)
  <1>1. \A e \in DOMAIN postings : e \in DOMAIN postings' /\ postings'[e] = postings[e]
    BY DEF BookSound
  <1>2. Len(postings)' = Len(postings) + 1 /\ Len(postings) \in Nat /\ DOMAIN postings = 1 .. Len(postings)
    BY BookTyped DEF BookSound
  <1>3. R \subseteq DOMAIN postings
    BY ReachedIsKnown DEF WorksheetSound
  <1>4. Reached(w)' = R
    BY <1>1, <1>2 DEF Reached, WorksheetSound, MONTH!MonthEnd
  <1>5. cleared \subseteq R /\ before \subseteq DOMAIN postings
    BY ClearedIsReached, EarlierIsKnown DEF WorksheetSound
  <1>6. MONTH!ClearedThrough(w.after)' = before /\ MONTH!ClearedBy(w)' = cleared
    BY DEF MONTH!ClearedThrough, MONTH!ClearedBy, MONTH!Named
  <1>7. ClearsEachOnce(w)'
    <2>1. MatchesSound(w.matches, w.statement.lines, R)
      BY DEF WorksheetSound, ClearsEachOnce
    <2>2. \A j \in DOMAIN w.matches : MONTH!AmountOf(w.matches[j])' = MONTH!AmountOf(w.matches[j])
      <3>1. \A j \in DOMAIN w.matches : IsList(w.matches[j], DOMAIN postings)
        BY <1>3, <2>1 DEF MatchesSound, IsList
      <3> QED
        BY <3>1, AmountsStay
    <2>3. MatchesSound(w.matches, w.statement.lines, Reached(w))'
      BY <1>4, <2>1, <2>2 DEF MatchesSound
    <2>4. w.pairs \in SUBSET DOMAIN postings
      BY <1>3 DEF WorksheetSound, ClearsEachOnce
    <2>5. MONTH!NetOf(w.pairs)' = MONTH!NetOf(w.pairs)
      BY <2>4, SumsStay
    <2> QED
      BY <1>4, <1>6, <2>3, <2>5 DEF WorksheetSound, ClearsEachOnce
  <1>8. ASSUME w.balanced PROVE BalancedIsTrue(w)'
    <2>1. BalancedIsTrue(w)
      BY <1>8 DEF WorksheetSound
    <2>2. \A l : ReachedBalance(w, l)' = ReachedBalance(w, l)
      <3> SUFFICES ASSUME NEW l PROVE ReachedBalance(w, l)' = ReachedBalance(w, l)
        OBVIOUS
      <3>1. [e \in R |-> postings'[e].lines[l]] = [e \in R |-> postings[e].lines[l]]
        BY <1>1, <1>3
      <3> QED
        BY <1>4, <3>1 DEF ReachedBalance
    <2>3. MONTH!NetOf(before \cup cleared)' = MONTH!NetOf(before \cup cleared)
      <3> DEFINE both == before \cup cleared
      <3>1. both \in SUBSET DOMAIN postings
        BY <1>3, <1>5
      <3>2. \A S \in SUBSET DOMAIN postings : MONTH!NetOf(S)' = MONTH!NetOf(S)
        BY SumsStay
      <3>3. both' = both
        BY <1>6
      <3> QED
        BY <3>1, <3>2, <3>3 DEF MONTH!NetOf
    <2> QED
      BY <1>4, <1>6, <2>1, <2>2, <2>3 DEF BalancedIsTrue
  <1>9. w.through \in 0 .. Len(postings)'
    BY <1>2 DEF WorksheetSound
  <1> QED
    BY <1>4, <1>7, <1>8, <1>9 DEF WorksheetSound, MONTH!Months, MONTH!Foots

LEMMA CloseKeepsWorksheet ==
    ASSUME ClosesSound, NEW new, closes' = Append(closes, new), UNCHANGED postings,
           NEW w, WorksheetSound(w)
    PROVE  WorksheetSound(w)' /\ Reached(w)' = Reached(w)
  <1>1. /\ Len(closes)' = Len(closes) + 1 /\ Len(closes) \in Nat /\ DOMAIN closes = 1 .. Len(closes)
        /\ \A j \in DOMAIN closes : closes'[j] = closes[j]
    BY SequenceTyped DEF ClosesSound, IsASequence
  <1>2. MONTH!ClearedThrough(w.after)' = MONTH!ClearedThrough(w.after)
    BY <1>1 DEF MONTH!ClearedThrough, WorksheetSound, MONTH!ClearedBy
  <1>3. Reached(w)' = Reached(w) /\ MONTH!ClearedBy(w)' = MONTH!ClearedBy(w)
    BY DEF Reached, MONTH!ClearedBy, MONTH!MonthEnd
  <1>4. /\ \A S : MONTH!NetOf(S)' = MONTH!NetOf(S)
        /\ \A list : MONTH!AmountOf(list)' = MONTH!AmountOf(list)
    BY DEF MONTH!NetOf, MONTH!AmountOf, MONTH!Total
  <1>5. ClearsEachOnce(w)'
    BY <1>2, <1>3, <1>4 DEF WorksheetSound, ClearsEachOnce, MatchesSound
  <1>6. ASSUME w.balanced PROVE BalancedIsTrue(w)'
    <2>1. BalancedIsTrue(w)
      BY <1>6 DEF WorksheetSound
    <2>2. \A l : ReachedBalance(w, l)' = ReachedBalance(w, l)
      BY <1>3 DEF ReachedBalance
    <2>3. (MONTH!ClearedThrough(w.after) \cup MONTH!ClearedBy(w))' =
             MONTH!ClearedThrough(w.after) \cup MONTH!ClearedBy(w)
      BY <1>2, <1>3
    <2>4. MONTH!NetOf(MONTH!ClearedThrough(w.after) \cup MONTH!ClearedBy(w))' =
             MONTH!NetOf(MONTH!ClearedThrough(w.after) \cup MONTH!ClearedBy(w))
      BY <2>3 DEF MONTH!NetOf
    <2> QED
      BY <1>2, <1>3, <2>1, <2>2, <2>4 DEF BalancedIsTrue
  <1>7. w.after \in 0 .. Len(closes)'
    BY <1>1 DEF WorksheetSound
  <1> QED
    BY <1>3, <1>5, <1>6, <1>7 DEF WorksheetSound, MONTH!Months, MONTH!Foots

LEMMA MonthsStart ==
    ASSUME MONTH!Init
    PROVE  MonthInv
  <1>1. BookSound /\ ClosesSound
    <2>1. postings \in Seq(PostingRow) /\ DOMAIN postings = {} /\ closes \in Seq({}) /\ DOMAIN closes = {}
      BY DEF MONTH!Init
    <2> QED
      BY <2>1 DEF BookSound, ClosesSound, IsASequence
  <1> QED
    BY <1>1 DEF MonthInv, MONTH!Init

\* An entry that is the sum of its lines keeps the book sound, if it undoes
\* nothing or one that is no reversal and has none, by its negation.
LEMMA PostKeepsMonths ==
    ASSUME MONTH!ReconciliationAssumption, MonthInv,
           NEW date \in MONTH!Days, NEW lines \in [MonthLedgers -> Int],
           NEW reference \in {p.reference : p \in Postings} \cup {NoReference},
           NEW reverses \in Nat, MONTH!Post(date, lines, reference, reverses),
           reverses # 0 =>
              /\ reverses \in DOMAIN postings /\ postings[reverses].reverses = 0
              /\ \A d \in DOMAIN postings : postings[d].reverses # reverses
              /\ lines = [l \in MonthLedgers |-> -postings[reverses].lines[l]]
    PROVE  MonthInv'
  <1> DEFINE row == [date |-> date, lines |-> lines, net |-> MONTH!Total(lines),
                     reference |-> reference, reverses |-> reverses]
             next == Len(postings) + 1
  <1>1. postings' = Append(postings, row) /\ UNCHANGED <<inForce, prepared, closes>>
    BY DEF MONTH!Post
  <1>2. /\ MONTH!Total(lines) = SumFunctionOnSet(lines, MonthLedgers)
        /\ MONTH!Total(lines) \in Int /\ IsFiniteSet(MonthLedgers)
    <2>1. IsFiniteSet(MonthLedgers)
      BY DEF MONTH!ReconciliationAssumption, MONTH!IsFiniteSet, IsFiniteSet
    <2>2. MONTH!Total(lines) = SumFunctionOnSet(lines, MonthLedgers)
      BY MonthSums DEF MONTH!Total
    <2> QED
      BY <2>1, <2>2, SumIsInteger
  <1>3. row \in PostingRow
    BY <1>2 DEF PostingRow
  <1>4. row.date = date /\ row.lines = lines /\ row.net = MONTH!Total(lines) /\ row.reverses = reverses
    OBVIOUS
  <1> HIDE DEF row
  <1>5. /\ postings' \in Seq(PostingRow) /\ DOMAIN postings' = DOMAIN postings \cup {next}
        /\ next \notin DOMAIN postings /\ postings'[next] = row
        /\ \A e \in DOMAIN postings : postings'[e] = postings[e]
    <2>1. postings \in Seq(PostingRow)
      BY DEF MonthInv, BookSound
    <2> QED
      BY <1>1, <1>3, <2>1
  <1>6. reverses # 0 => row.net = -postings[reverses].net
    <2> SUFFICES ASSUME reverses # 0 PROVE row.net = -postings[reverses].net
      OBVIOUS
    <2> DEFINE undone == postings[reverses].lines
               zero == [l \in MonthLedgers |-> 0]
    <2>1. postings[reverses].net = SumFunctionOnSet(undone, MonthLedgers) /\ undone \in [MonthLedgers -> Int]
      BY BookTyped DEF MonthInv, BookSound
    <2>2. \A l \in MonthLedgers : /\ undone[l] \in Int /\ lines[l] \in Int /\ zero[l] = undone[l] + lines[l]
      BY <2>1
    <2>3. SumFunctionOnSet(zero, MonthLedgers) = 0
      BY <1>2, SumZero
    <2> HIDE DEF zero, undone
    <2>4. SumFunctionOnSet(zero, MonthLedgers) =
             SumFunctionOnSet(undone, MonthLedgers) + SumFunctionOnSet(lines, MonthLedgers)
      BY <1>2, <2>2, SumAdd
    <2>5. SumFunctionOnSet(undone, MonthLedgers) \in Int
      BY <1>2, <2>2, SumIsInteger
    <2> QED
      BY <1>2, <1>4, <2>1, <2>3, <2>4, <2>5
  <1>7. BookSound'
    <2>1. ASSUME NEW e \in DOMAIN postings'
          PROVE  postings'[e].net = SumFunctionOnSet(postings'[e].lines, MonthLedgers)
      <3>1. CASE e \in DOMAIN postings
        BY <1>5, <3>1 DEF MonthInv, BookSound
      <3>2. CASE e = next
        BY <1>2, <1>4, <1>5, <3>2
      <3> QED
        BY <1>5, <3>1, <3>2
    <2>2. ASSUME NEW e \in DOMAIN postings', postings'[e].reverses # 0
          PROVE  /\ postings'[e].reverses \in DOMAIN postings' \ {e}
                 /\ postings'[postings'[e].reverses].reverses = 0
                 /\ postings'[e].net = -postings'[postings'[e].reverses].net
                 /\ \A d \in DOMAIN postings' \ {e} : postings'[d].reverses # postings'[e].reverses
      <3>1. CASE e \in DOMAIN postings
        <4> DEFINE r == postings[e].reverses
        <4>1. /\ r \in DOMAIN postings \ {e} /\ postings[r].reverses = 0 /\ postings[e].net = -postings[r].net
              /\ \A d \in DOMAIN postings \ {e} : postings[d].reverses # r
          BY <1>5, <2>2, <3>1 DEF MonthInv, BookSound
        <4>2. row.reverses # r
          BY <1>4, <2>2, <3>1, <1>5
        <4>3. postings'[e] = postings[e] /\ postings'[r] = postings[r]
          BY <1>5, <3>1, <4>1
        <4> QED
          BY <1>5, <3>1, <4>1, <4>2, <4>3
      <3>2. CASE e = next
        <4>1. postings'[e].reverses = reverses /\ reverses # 0 /\ postings'[e].net = row.net
          BY <1>4, <1>5, <2>2, <3>2
        <4>2. reverses \in DOMAIN postings /\ postings'[reverses] = postings[reverses]
          BY <1>5, <4>1
        <4> QED
          BY <1>5, <1>6, <3>2, <4>1, <4>2
      <3> QED
        BY <1>5, <3>1, <3>2
    <2> QED
      BY <1>5, <2>1, <2>2 DEF BookSound
  <1>8. \A w : WorksheetSound(w) => WorksheetSound(w)' /\ Reached(w)' = Reached(w)
    BY <1>1, PostKeepsWorksheet DEF MonthInv
  <1>9. ASSUME NEW k \in DOMAIN closes
        PROVE  MONTH!Dated(closes[k].month)' \subseteq 1 .. closes[k].through
    <2> DEFINE n == Len(closes)
    <2>1. n \in Nat /\ DOMAIN closes = 1 .. n /\ n \in DOMAIN closes /\ n \in Int /\ k \in Int /\ k <= n
      BY SequenceTyped DEF MonthInv, ClosesSound
    <2>2. closes[n].month - closes[k].month = n - k /\ closes[n].month \in Int /\ closes[k].month \in Int
      BY <2>1 DEF MonthInv, ClosesSound, WorksheetSound, MONTH!Months
    <2>3. closes # <<>> /\ MONTH!ClosedThrough = MONTH!MonthEnd(closes[n].month)
      BY <2>1 DEF MONTH!ClosedThrough, MONTH!Last
    <2>4. MONTH!MonthEnd(closes[k].month) < date /\ MONTH!MonthEnd(closes[k].month) \in Int /\ date \in Int
      <3>1. closes[k].month <= closes[n].month
        BY <2>1, <2>2
      <3>2. /\ MONTH!MonthEnd(closes[k].month) \in Int /\ MONTH!MonthEnd(closes[n].month) \in Int
            /\ MONTH!MonthEnd(closes[k].month) <= MONTH!MonthEnd(closes[n].month)
        BY <2>2, <3>1, MonthLengths
      <3>3. MONTH!ClosedThrough < date /\ date \in Int
        BY DEF MONTH!Post, MONTH!Days
      <3> QED
        BY <2>3, <3>2, <3>3
    <2>5. MONTH!Dated(closes[k].month)' = MONTH!Dated(closes[k].month)
      <3>1. ~(row.date <= MONTH!MonthEnd(closes[k].month))
        BY <1>4, <2>4
      <3> QED
        BY <1>1, <1>5, <3>1 DEF MONTH!Dated, MONTH!MonthEnd
    <2> QED
      BY <2>5 DEF MonthInv, ClosesSound
  <1>10. ClosesSound'
    BY <1>1, <1>8, <1>9 DEF MonthInv, ClosesSound, IsASequence
  <1>11. \A m \in MONTH!Months : \A s \in inForce[m] : MONTH!Foots(s)'
    BY DEF MonthInv, MONTH!Foots
  <1> QED
    BY <1>1, <1>7, <1>8, <1>10, <1>11 DEF MonthInv, MONTH!Months

LEMMA CloseKeepsMonths ==
    ASSUME MONTH!ReconciliationAssumption, MonthInv, NEW m \in MONTH!Months, MONTH!CloseMonth(m)
    PROVE  MonthInv'
  <1>1. PICK w \in prepared[m] :
           /\ w.balanced /\ \A e \in MONTH!Dated(m) : e <= w.through
           /\ closes' = Append(closes, w)
    BY DEF MONTH!CloseMonth
  <1> DEFINE n == Len(closes)
  <1>2. UNCHANGED <<postings, inForce, prepared>> /\ (closes # <<>> => m = MONTH!Last(closes).month + 1)
    BY DEF MONTH!CloseMonth
  <1>3. BookSound /\ ClosesSound /\ w.month = m /\ WorksheetSound(w)
    BY <1>1 DEF MonthInv
  <1>4. n \in Nat /\ DOMAIN closes = 1 .. n
    BY <1>3, SequenceTyped DEF ClosesSound
  <1>5. /\ IsASequence(closes)' /\ DOMAIN closes' = 1 .. n + 1 /\ closes'[n + 1] = w
        /\ \A k \in 1 .. n : closes'[k] = closes[k]
    <2>1. PICK S : closes \in Seq(S)
      BY <1>3 DEF ClosesSound, IsASequence
    <2>2. closes \in Seq(S \cup {w})
      BY <2>1
    <2>3. closes' \in Seq(S \cup {w})
      BY <1>1, <2>2
    <2> QED
      BY <1>1, <2>1, <2>3 DEF IsASequence
  <1>6. \A v : WorksheetSound(v) => WorksheetSound(v)'
    BY <1>1, <1>2, <1>3, CloseKeepsWorksheet
  <1>7. \A k : MONTH!Dated(k)' = MONTH!Dated(k)
    BY <1>2 DEF MONTH!Dated, MONTH!MonthEnd
  <1>8. MONTH!Dated(m) \subseteq 1 .. w.through
    <2>1. MONTH!Dated(m) \subseteq 1 .. Len(postings) /\ w.through \in Nat /\ Len(postings) \in Nat
      BY <1>3, BookTyped DEF MONTH!Dated, WorksheetSound
    <2> QED
      BY <1>1, <2>1
  <1>9. \A k \in 1 .. n : m - closes[k].month = n + 1 - k
    <2> SUFFICES ASSUME NEW k \in 1 .. n PROVE m - closes[k].month = n + 1 - k
      OBVIOUS
    <2>1. n \in DOMAIN closes /\ k \in DOMAIN closes
      BY <1>4
    <2>2. m = closes[n].month + 1
      BY <1>2, <1>4, <2>1 DEF MONTH!Last
    <2>3. closes[n].month - closes[k].month = n - k /\ closes[n].month \in Int /\ closes[k].month \in Int
      BY SMTT(30), <1>3, <2>1 DEF ClosesSound, WorksheetSound, MONTH!Months
    <2> QED
      BY <1>4, <2>2, <2>3
  <1>10. ASSUME NEW k \in 1 .. n + 1
         PROVE  /\ WorksheetSound(closes[k])' /\ closes'[k].balanced /\ closes'[k].after < k
                /\ MONTH!Dated(closes[k].month)' \subseteq 1 .. closes'[k].through
                /\ \A j \in 1 .. n + 1 : closes'[k].month - closes'[j].month = k - j
    <2>1. \A i \in 1 .. n + 1 : i \in 1 .. n \/ i = n + 1
      BY <1>4
    <2>2. m \in Int /\ w.after \in 0 .. n
      BY <1>3 DEF WorksheetSound, MONTH!Months
    <2>3. CASE k \in 1 .. n
      <3>1. closes'[k] = closes[k] /\ WorksheetSound(closes[k])
        BY <1>3, <1>4, <1>5, <2>3 DEF ClosesSound
      <3>2. WorksheetSound(closes[k])'
        BY <1>6, <3>1
      <3>3. /\ closes[k].balanced /\ closes[k].after < k
            /\ MONTH!Dated(closes[k].month)' \subseteq 1 .. closes[k].through
            /\ \A j \in 1 .. n : closes[k].month - closes[j].month = k - j
        BY <1>3, <1>4, <1>5, <1>7, <2>3 DEF ClosesSound
      <3>4. closes[k].month \in Int
        BY <3>1 DEF WorksheetSound, MONTH!Months
      <3>5. closes[k].month - m = k - (n + 1)
        BY <1>4, <1>9, <2>2, <2>3, <3>4
      <3> QED
        BY <1>3, <1>5, <2>1, <3>1, <3>2, <3>3, <3>5
    <2>4. CASE k = n + 1
      <3>1. closes'[k] = w /\ WorksheetSound(w)'
        BY <1>3, <1>5, <1>6, <2>4
      <3>2. WorksheetSound(closes[k])'
        BY <3>1
      <3>3. MONTH!Dated(closes[k].month)' \subseteq 1 .. closes'[k].through
        BY <1>3, <1>7, <1>8, <3>1
      <3> QED
        BY <1>1, <1>3, <1>4, <1>5, <1>9, <2>1, <2>2, <2>4, <3>1, <3>2, <3>3
    <2> QED
      BY <2>1, <2>3, <2>4
  <1>11. ClosesSound'
    BY <1>5, <1>10 DEF ClosesSound
  <1>12. BookSound'
    BY <1>2, <1>3 DEF BookSound
  <1>13. \A k \in MONTH!Months : \A s \in inForce[k] : MONTH!Foots(s)'
    BY DEF MonthInv, MONTH!Foots
  <1> QED
    BY <1>2, <1>6, <1>11, <1>12, <1>13 DEF MonthInv, MONTH!Months

LEMMA ChangeOfStatementsKeepsMonths ==
    ASSUME MonthInv, UNCHANGED <<postings, closes>>,
           DOMAIN inForce' = MONTH!Months, DOMAIN prepared' = MONTH!Months,
           \A m \in MONTH!Months :
              /\ \A s \in inForce'[m] : s \in Statements /\ MONTH!Foots(s)
              /\ \A w \in prepared'[m] : w.month = m /\ WorksheetSound(w)
    PROVE  MonthInv'
  <1>1. BookSound' /\ \A w : Reached(w)' = Reached(w) /\ MONTH!ClearedBy(w)' = MONTH!ClearedBy(w)
    BY DEF MonthInv, BookSound, Reached, MONTH!ClearedBy, MONTH!MonthEnd
  <1>2. \A w : WorksheetSound(w) => WorksheetSound(w)'
    <2>1. /\ \A S : MONTH!NetOf(S)' = MONTH!NetOf(S)
          /\ \A list : MONTH!AmountOf(list)' = MONTH!AmountOf(list)
      BY DEF MONTH!NetOf, MONTH!AmountOf, MONTH!Total
    <2>2. \A k : MONTH!ClearedThrough(k)' = MONTH!ClearedThrough(k)
      BY DEF MONTH!ClearedThrough, MONTH!ClearedBy
    <2>3. \A w, l : ReachedBalance(w, l)' = ReachedBalance(w, l)
      BY <1>1 DEF ReachedBalance
    <2>4. \A w : ClearsEachOnce(w) => ClearsEachOnce(w)'
      BY <1>1, <2>1, <2>2 DEF ClearsEachOnce, MatchesSound
    <2>5. \A w : BalancedIsTrue(w) => BalancedIsTrue(w)'
      <3>1. \A w : MONTH!NetOf(MONTH!ClearedThrough(w.after) \cup MONTH!ClearedBy(w))' =
                      MONTH!NetOf(MONTH!ClearedThrough(w.after) \cup MONTH!ClearedBy(w))
        BY <1>1, <2>2 DEF MONTH!NetOf
      <3> QED
        BY <1>1, <2>2, <2>3, <3>1 DEF BalancedIsTrue
    <2> QED
      BY <2>4, <2>5 DEF WorksheetSound, MONTH!Months, MONTH!Foots
  <1>3. ClosesSound'
    BY <1>2 DEF MonthInv, ClosesSound, IsASequence, MONTH!Dated, MONTH!MonthEnd
  <1>4. \A s : MONTH!Foots(s) => MONTH!Foots(s)'
    BY DEF MONTH!Foots
  <1> QED
    BY <1>1, <1>2, <1>3, <1>4 DEF MonthInv, MONTH!Months

LEMMA MonthsStay ==
    ASSUME MONTH!ReconciliationAssumption, MonthInv, [MONTH!Next]_(MONTH!vars)
    PROVE  MonthInv'
  <1>1. CASE UNCHANGED MONTH!vars
    BY <1>1, ChangeOfStatementsKeepsMonths DEF MonthInv, MONTH!vars
  <1>2. ASSUME NEW p \in Postings, MONTH!Post(p.date, p.lines, p.reference, 0) PROVE MonthInv'
    <2>1. p.date \in MONTH!Days /\ p.lines \in [MonthLedgers -> Int]
      BY DEF MONTH!ReconciliationAssumption
    <2> QED
      BY <1>2, <2>1, PostKeepsMonths
  <1>3. ASSUME NEW e \in DOMAIN postings, NEW p \in Postings, MONTH!Reversal(e, p.date)
        PROVE  MonthInv'
    <2> DEFINE lines == [l \in MonthLedgers |-> -postings[e].lines[l]]
    <2>1. e \in Nat /\ postings[e].lines \in [MonthLedgers -> Int] /\ p.date \in MONTH!Days
      BY BookTyped DEF MonthInv, MONTH!ReconciliationAssumption
    <2>2. lines \in [MonthLedgers -> Int]
      BY <2>1
    <2>3. /\ postings[e].reverses = 0 /\ \A r \in DOMAIN postings : postings[r].reverses # e
          /\ MONTH!Post(p.date, lines, NoReference, e)
      BY <1>3 DEF MONTH!Reversal
    <2> HIDE DEF lines
    <2> QED
      BY <2>1, <2>2, <2>3, PostKeepsMonths DEF lines
  <1>4. ASSUME NEW s \in Statements, MONTH!ImportStatement(s) PROVE MonthInv'
    <2>1. s.month \in MONTH!Months
      BY DEF MONTH!ReconciliationAssumption, MONTH!IsStatement
    <2>2. MONTH!Foots(s) /\ inForce' = [inForce EXCEPT ![s.month] = {s}] /\ UNCHANGED <<postings, prepared, closes>>
      BY <1>4 DEF MONTH!ImportStatement
    <2> QED
      BY <2>1, <2>2, ChangeOfStatementsKeepsMonths DEF MonthInv
  <1>5. ASSUME NEW m \in MONTH!Months, MONTH!Prepare(m) PROVE MonthInv'
    <2>1. PICK s \in inForce[m] : \E manual \in MONTH!ManualMatches(s, m) :
             prepared' = [prepared EXCEPT ![m] = {MONTH!Worksheet(s, m, manual)}]
      BY <1>5 DEF MONTH!Prepare
    <2>2. PICK manual \in MONTH!ManualMatches(s, m) :
             prepared' = [prepared EXCEPT ![m] = {MONTH!Worksheet(s, m, manual)}]
      BY <2>1
    <2> DEFINE w == MONTH!Worksheet(s, m, manual)
    <2>3. w.month = m /\ WorksheetSound(w)
      BY WorksheetIsSound
    <2> HIDE DEF w
    <2>4. UNCHANGED <<postings, inForce, closes>> /\ prepared' = [prepared EXCEPT ![m] = {w}]
      BY <1>5, <2>2 DEF MONTH!Prepare, w
    <2> QED
      BY <2>3, <2>4, ChangeOfStatementsKeepsMonths DEF MonthInv
  <1>6. ASSUME NEW m \in MONTH!Months, MONTH!CloseMonth(m) PROVE MonthInv'
    BY <1>6, CloseKeepsMonths
  <1> QED
    BY <1>1, <1>2, <1>3, <1>4, <1>5, <1>6 DEF MONTH!Next

\* In a worksheet that is balanced the entries its lines name, none twice, come
\* to what the statement moved.
LEMMA LinesAddUp ==
    ASSUME MONTH!ReconciliationAssumption, BookSound, NEW w, WorksheetSound(w), w.balanced,
           MONTH!ListsNoneTwice(w)
    PROVE  MONTH!NetOf(MONTH!ClearedBy(w)) = w.statement.closing - w.statement.opening
  <1> DEFINE s == w.statement
             answered == DOMAIN w.matches
             amounts == LineAmounts(s.lines)
             cited == [j \in answered |-> MONTH!Range(w.matches[j])]
             all == UNION {cited[j] : j \in answered}
  <1>1. /\ ClearsEachOnce(w) /\ BalancedIsTrue(w) /\ LinesTyped(s.lines)
        /\ s.closing \in Int /\ s.opening \in Int /\ MONTH!Foots(s)
    BY StatementLines DEF WorksheetSound
  <1>2. /\ answered \subseteq DOMAIN s.lines /\ w.passed \subseteq DOMAIN s.lines
        /\ answered \cap w.passed = {} /\ answered \cup w.passed = DOMAIN s.lines
    BY <1>1 DEF ClearsEachOnce, MatchesSound, BalancedIsTrue
  <1>3. IsFiniteSet(DOMAIN s.lines) /\ IsFiniteSet(answered) /\ IsFiniteSet(w.passed)
    <2>1. IsFiniteSet(DOMAIN s.lines)
      BY <1>1, FS_Interval DEF LinesTyped
    <2> QED
      BY <1>2, <2>1, FS_Subset
  <1>4. \A k \in DOMAIN s.lines : amounts[k] \in Int /\ amounts[k] = s.lines[k].amount
    BY <1>1 DEF LinesTyped, LineAmounts
  <1>5. s.closing = s.opening + SumFunctionOnSet(amounts, DOMAIN s.lines)
    BY <1>1, MonthSums DEF MONTH!Foots, MONTH!Total, LineAmounts
  <1> HIDE DEF answered, amounts, s
  <1>6. SumFunctionOnSet(amounts, DOMAIN s.lines) =
            SumFunctionOnSet(amounts, answered) + SumFunctionOnSet(amounts, w.passed)
    <2>1. SumFunctionOnSet(amounts, answered \cup w.passed) =
             SumFunctionOnSet(amounts, answered) + SumFunctionOnSet(amounts, w.passed)
      BY <1>2, <1>3, <1>4, SumUnion
    <2> QED
      BY <1>2, <2>1
  <1>7. SumFunctionOnSet(amounts, w.passed) = 0
    BY <1>1 DEF ClearsEachOnce, amounts, s
  <1>8. /\ Reached(w) \subseteq DOMAIN postings
        /\ \A j \in answered : cited[j] \in SUBSET DOMAIN postings
        /\ w.pairs \in SUBSET DOMAIN postings
    <2>1. Reached(w) \subseteq DOMAIN postings
      BY <1>1, ReachedIsKnown DEF WorksheetSound
    <2>2. \A j \in answered : IsList(w.matches[j], Reached(w))
      BY <1>1 DEF ClearsEachOnce, MatchesSound, answered
    <2>3. \A j \in answered : cited[j] \subseteq Reached(w)
      BY <2>1, <2>2, ListsAreSums
    <2> QED
      BY <1>1, <2>1, <2>3 DEF ClearsEachOnce
  <1>9. Apart(Nets, cited, answered)
    <2>1. \A j \in answered : IsFiniteSet(cited[j]) /\ \A x \in cited[j] : Nets[x] \in Int
      BY <1>8, NetsAreSums
    <2>2. \A j \in answered : \A i \in answered \ {j} : cited[j] \cap cited[i] = {}
      BY <1>1 DEF ClearsEachOnce, MatchesSound, answered
    <2> HIDE DEF cited
    <2> QED
      BY <2>1, <2>2 DEF Apart
  <1>10. \A j \in answered : amounts[j] = SumFunctionOnSet(Nets, cited[j])
    <2>1. ASSUME NEW j \in answered PROVE MONTH!NetOf(cited[j]) = s.lines[j].amount
      <3>1. /\ IsList(w.matches[j], Reached(w)) /\ MONTH!IsInjective(w.matches[j])
            /\ MONTH!AmountOf(w.matches[j]) = s.lines[j].amount
        BY <1>1 DEF ClearsEachOnce, MatchesSound, MONTH!ListsNoneTwice, answered, s
      <3> QED
        BY <1>1, <1>8, <3>1, ListsAreSums
    <2> HIDE DEF cited
    <2> QED
      BY <1>2, <1>4, <1>8, <2>1, NetsAreSums
  <1>11. IsFiniteSet(all) /\ SumFunctionOnSet(Nets, all) = SumFunctionOnSet(amounts, answered)
    BY <1>3, <1>9, <1>10, SumFamily
  <1>12. /\ all \in SUBSET DOMAIN postings /\ w.pairs \cap all = {}
         /\ MONTH!ClearedBy(w) = w.pairs \cup all
    <2>1. \A j \in answered : cited[j] \cap w.pairs = {}
      BY <1>1 DEF ClearsEachOnce, answered
    <2>2. all = MONTH!Named(w.matches)
      BY DEF MONTH!Named, answered
    <2> HIDE DEF cited
    <2> QED
      BY <1>8, <2>1, <2>2 DEF MONTH!ClearedBy
  <1> HIDE DEF all, cited
  <1>13. SumFunctionOnSet(Nets, w.pairs \cup all) =
             SumFunctionOnSet(Nets, w.pairs) + SumFunctionOnSet(Nets, all)
    BY <1>8, <1>12, NetsAreSums, SumUnion
  <1>14. /\ MONTH!NetOf(MONTH!ClearedBy(w)) = SumFunctionOnSet(Nets, w.pairs \cup all)
         /\ SumFunctionOnSet(Nets, w.pairs) = 0 /\ SumFunctionOnSet(Nets, all) \in Int
    <2>1. w.pairs \cup all \in SUBSET DOMAIN postings
      BY <1>8, <1>12
    <2>2. MONTH!NetOf(w.pairs) = 0
      BY <1>1 DEF ClearsEachOnce
    <2> QED
      BY <1>8, <1>12, <2>1, <2>2, NetsAreSums
  <1>15. s.closing = s.opening + SumFunctionOnSet(Nets, all) /\ s.closing \in Int /\ s.opening \in Int
    BY <1>1, <1>5, <1>6, <1>7, <1>11, <1>14 DEF s
  <1> QED
    BY <1>13, <1>14, <1>15 DEF s

LEMMA ClosedTie ==
    ASSUME MONTH!ReconciliationAssumption, MonthInv
    PROVE  MONTH!ClosedMonthsTieToTheBank /\ MONTH!EveryCentClearsOnce
  <1>1. /\ BookSound /\ ClosesSound /\ Len(closes) \in Nat /\ DOMAIN closes = 1 .. Len(closes)
    BY SequenceTyped DEF MonthInv, ClosesSound
  <1>2. ASSUME NEW k \in DOMAIN closes
        PROVE  /\ WorksheetSound(closes[k]) /\ ClearsEachOnce(closes[k]) /\ BalancedIsTrue(closes[k])
               /\ closes[k].balanced /\ Reached(closes[k]) = MONTH!Dated(closes[k].month)
               /\ closes[k].month \in Int
    <2>1. /\ WorksheetSound(closes[k]) /\ closes[k].balanced
          /\ MONTH!Dated(closes[k].month) \subseteq 1 .. closes[k].through
      BY <1>1 DEF ClosesSound
    <2>2. Reached(closes[k]) \subseteq DOMAIN postings
      BY <1>1, <2>1, ReachedIsKnown DEF WorksheetSound
    <2>3. Reached(closes[k]) = MONTH!Dated(closes[k].month)
      BY <2>1, <2>2 DEF Reached, MONTH!Dated
    <2> QED
      BY <2>1, <2>3 DEF WorksheetSound, MONTH!Months
  <1>3. ASSUME NEW j \in DOMAIN closes, NEW k \in DOMAIN closes, j <= k
        PROVE  MONTH!ClearedBy(closes[j]) \subseteq MONTH!Dated(closes[k].month)
    <2>1. MONTH!ClearedBy(closes[j]) \subseteq MONTH!Dated(closes[j].month)
      BY <1>2, ClearedIsReached
    <2>2. closes[j].month <= closes[k].month
      <3>1. closes[k].month - closes[j].month = k - j
        BY <1>1 DEF ClosesSound
      <3> QED
        BY <1>1, <1>2, <1>3, <3>1
    <2>3. /\ MONTH!MonthEnd(closes[j].month) <= MONTH!MonthEnd(closes[k].month)
          /\ MONTH!MonthEnd(closes[j].month) \in Int /\ MONTH!MonthEnd(closes[k].month) \in Int
      BY <1>2, <2>2, MonthLengths
    <2>4. \A e \in DOMAIN postings : postings[e].date \in Int
      BY <1>1, BookTyped
    <2> QED
      BY <2>1, <2>3, <2>4 DEF MONTH!Dated
  <1>4. ASSUME NEW k \in DOMAIN closes, MONTH!InOrder(k)
        PROVE  /\ MONTH!ClearedBy(closes[k]) \cap MONTH!ClearedThrough(k - 1) = {}
               /\ MONTH!ClearedThrough(k) = MONTH!ClearedThrough(k - 1) \cup MONTH!ClearedBy(closes[k])
               /\ closes[k].statement.closing = MONTH!NetOf(MONTH!ClearedThrough(k))
    <2>1. closes[k].after = k - 1
      BY <1>1, <1>4 DEF MONTH!InOrder
    <2>2. MONTH!ClearedThrough(k) = MONTH!ClearedThrough(k - 1) \cup MONTH!ClearedBy(closes[k])
      <3>1. 1 .. k = (1 .. k - 1) \cup {k}
        BY <1>1
      <3> QED
        BY <3>1 DEF MONTH!ClearedThrough
    <2>3. MONTH!ClearedThrough(k - 1) \subseteq Reached(closes[k])
      <3>1. \A j \in 1 .. k - 1 : j \in DOMAIN closes /\ j <= k
        BY <1>1
      <3>2. \A j \in 1 .. k - 1 : MONTH!ClearedBy(closes[j]) \subseteq MONTH!Dated(closes[k].month)
        BY <1>3, <3>1
      <3> QED
        BY <1>2, <3>2 DEF MONTH!ClearedThrough
    <2>4. closes[k].statement.closing =
             MONTH!NetOf(MONTH!ClearedThrough(k - 1) \cup MONTH!ClearedBy(closes[k]))
      BY <1>2, <2>1, <2>3 DEF BalancedIsTrue
    <2> QED
      BY <1>2, <2>1, <2>2, <2>4 DEF ClearsEachOnce
  <1>5. ASSUME NEW k \in DOMAIN closes, MONTH!InOrder(k), k > 1, MONTH!ListsNoneTwice(closes[k])
        PROVE  closes[k].statement.opening = closes[k - 1].statement.closing
    <2>1. k - 1 \in DOMAIN closes /\ MONTH!InOrder(k - 1)
      BY <1>1, <1>5 DEF MONTH!InOrder
    <2> DEFINE before == MONTH!ClearedThrough(k - 1)
               cleared == MONTH!ClearedBy(closes[k])
    <2>2. /\ closes[k - 1].statement.closing = MONTH!NetOf(before)
          /\ closes[k].statement.closing = MONTH!NetOf(before \cup cleared)
          /\ cleared \cap before = {}
      BY <1>4, <1>5, <2>1
    <2>3. MONTH!NetOf(cleared) = closes[k].statement.closing - closes[k].statement.opening
      BY <1>1, <1>2, <1>5, LinesAddUp
    <2>4. closes[k].statement.closing \in Int /\ closes[k].statement.opening \in Int
      BY <1>2, StatementLines DEF WorksheetSound
    <2>5. before \in SUBSET DOMAIN postings /\ cleared \in SUBSET DOMAIN postings
      <3>1. k - 1 \in 0 .. Len(closes)
        BY <1>1, <2>1
      <3>2. before \subseteq DOMAIN postings
        BY <1>1, <3>1, EarlierIsKnown
      <3>3. cleared \subseteq DOMAIN postings
        BY <1>2, ClearedIsReached DEF MONTH!Dated
      <3> QED
        BY <3>2, <3>3
    <2> HIDE DEF before, cleared
    <2>6. before \cup cleared \in SUBSET DOMAIN postings
      BY <2>5
    <2>7. MONTH!NetOf(before \cup cleared) = MONTH!NetOf(before) + MONTH!NetOf(cleared)
      <3>1. SumFunctionOnSet(Nets, before \cup cleared) =
               SumFunctionOnSet(Nets, before) + SumFunctionOnSet(Nets, cleared)
        BY <1>1, <2>2, <2>5, <2>6, NetsAreSums, SumUnion
      <3> QED
        BY <1>1, <2>5, <2>6, <3>1, NetsAreSums
    <2>8. MONTH!NetOf(before) \in Int /\ MONTH!NetOf(cleared) \in Int
      BY <1>1, <2>5, NetsAreSums
    <2>9. closes[k].statement.closing = MONTH!NetOf(before) + MONTH!NetOf(cleared)
      BY <2>2, <2>7
    <2>10. closes[k].statement.opening = MONTH!NetOf(before)
      <3> DEFINE c == closes[k].statement.closing
                 o == closes[k].statement.opening
                 a == MONTH!NetOf(cleared)
                 b == MONTH!NetOf(before)
      <3>1. c \in Int /\ o \in Int
        BY <2>4
      <3>2. a \in Int /\ b \in Int
        BY <2>8
      <3>3. a = c - o
        BY <2>3
      <3>4. c = b + a
        BY <2>9
      <3> HIDE DEF a, b, c, o
      <3>5. o = b
        BY <3>1, <3>2, <3>3, <3>4
      <3> QED
        BY <3>5 DEF o, b
    <2> QED
      BY <2>2, <2>10
  <1>6. ASSUME NEW k \in DOMAIN closes, NEW l \in MonthLedgers
        PROVE  MONTH!BalanceAt(l, closes[k].month) >= 0
    <2> DEFINE R == Reached(closes[k])
               f == [e \in DOMAIN postings |-> postings[e].lines[l]]
               g == [e \in R |-> postings[e].lines[l]]
    <2>1. ReachedBalance(closes[k], l) >= 0 /\ R \subseteq DOMAIN postings /\ IsFiniteSet(R)
      BY <1>1, <1>2, BookTyped, FS_Subset DEF BalancedIsTrue, MONTH!Dated
    <2>2. MONTH!BalanceAt(l, closes[k].month) = SumFunctionOnSet(f, R)
      BY <1>2, MonthSums DEF MONTH!BalanceAt
    <2>3. \A e \in R : g[e] \in Int /\ f[e] = g[e]
      BY <1>1, <2>1, BookTyped
    <2>4. ReachedBalance(closes[k], l) = SumFunctionOnSet(g, R)
      BY DEF ReachedBalance
    <2> HIDE DEF R, f, g
    <2>5. SumFunctionOnSet(f, R) = SumFunctionOnSet(g, R)
      BY <2>1, <2>3, SumSame
    <2> QED
      BY <2>1, <2>2, <2>4, <2>5
  <1>7. MONTH!ClosedMonthsTieToTheBank
    BY <1>4, <1>5, <1>6 DEF MONTH!ClosedMonthsTieToTheBank
  <1>8. ASSUME NEW k \in DOMAIN closes
        PROVE  LET w == closes[k]
               IN  /\ DOMAIN w.matches \cup w.passed = DOMAIN w.statement.lines
                   /\ DOMAIN w.matches \cap w.passed = {}
                   /\ \A j \in DOMAIN w.matches :
                         LET entries == MONTH!Range(w.matches[j])
                         IN  /\ MONTH!AmountOf(w.matches[j]) = w.statement.lines[j].amount
                             /\ MONTH!IsInjective(w.matches[j]) =>
                                   MONTH!NetOf(entries) = w.statement.lines[j].amount
                             /\ entries \cap w.pairs = {}
                             /\ \A i \in DOMAIN w.matches \ {j} :
                                   MONTH!Range(w.matches[i]) \cap entries = {}
                   /\ MONTH!NetOf(w.pairs) = 0
                   /\ MONTH!ClearedBy(w) \subseteq MONTH!Dated(w.month)
    <2> DEFINE w == closes[k]
    <2>1. /\ MatchesSound(w.matches, w.statement.lines, Reached(w)) /\ MONTH!NetOf(w.pairs) = 0
          /\ \A j \in DOMAIN w.matches : MONTH!Range(w.matches[j]) \cap w.pairs = {}
          /\ w.passed \subseteq DOMAIN w.statement.lines \ DOMAIN w.matches
      BY <1>2 DEF ClearsEachOnce
    <2>2. DOMAIN w.matches \cup w.passed = DOMAIN w.statement.lines
      BY <1>2 DEF BalancedIsTrue
    <2>3. MONTH!ClearedBy(w) \subseteq MONTH!Dated(w.month)
      BY <1>2, ClearedIsReached
    <2>4. Reached(w) \subseteq DOMAIN postings
      BY <1>1, <1>2, ReachedIsKnown DEF WorksheetSound
    <2> HIDE DEF w
    <2>5. DOMAIN w.matches \cap w.passed = {}
      BY <2>1
    <2>6. \A j \in DOMAIN w.matches : MONTH!IsInjective(w.matches[j]) =>
             MONTH!NetOf(MONTH!Range(w.matches[j])) = w.statement.lines[j].amount
      <3>1. \A j \in DOMAIN w.matches : /\ IsList(w.matches[j], Reached(w))
                                         /\ MONTH!AmountOf(w.matches[j]) = w.statement.lines[j].amount
        BY <2>1 DEF MatchesSound
      <3> QED
        BY <1>1, <2>4, <3>1, ListsAreSums
    <2> QED
      BY <2>1, <2>2, <2>3, <2>5, <2>6 DEF MatchesSound, w
  <1>9. MONTH!EveryCentClearsOnce
    BY <1>4, <1>8 DEF MONTH!EveryCentClearsOnce
  <1> QED
    BY <1>7, <1>9

LEMMA MonthsTie ==
    ASSUME MONTH!ReconciliationAssumption
    PROVE  MONTH!Spec => [](MONTH!ClosedMonthsTieToTheBank /\ MONTH!EveryCentClearsOnce)
  <1>1. MONTH!Init => MonthInv
    BY MonthsStart
  <1>2. MonthInv /\ [MONTH!Next]_(MONTH!vars) => MonthInv'
    BY MonthsStay
  <1>3. MonthInv => MONTH!ClosedMonthsTieToTheBank /\ MONTH!EveryCentClearsOnce
    BY ClosedTie
  <1> QED
    BY <1>1, <1>2, <1>3, PTL DEF MONTH!Spec

-----------------------------------------------------------------------------
(* What the run of MCOffice checks, for every value of its constants.  The  *)
(* components share no state there, so a step of one leaves the others as   *)
(* they are.                                                                *)

LEMMA OfficeRunsComponents ==
    OfficeSpec => /\ LIFE!Spec /\ SETUP!Spec /\ LETTER!Spec /\ CAL!Spec
                  /\ REQ!Spec /\ RIGHTS!Spec /\ PARTIES!Spec
                  /\ COURT!Init /\ [][COURT!Next]_(COURT!vars) /\ MONTH!Spec
  <1>1. OfficeInit => /\ LIFE!Init /\ SETUP!Init /\ LETTER!Init /\ CAL!Init
                      /\ REQ!Init /\ RIGHTS!Init /\ PARTIES!Init /\ COURT!Init /\ MONTH!Init
    BY DEF OfficeInit
  <1>2. [OfficeNext]_officeVars => [LIFE!Next]_(LIFE!vars)
    BY DEF OfficeNext, officeVars, lifecycleVars, LIFE!vars
  <1>3. [OfficeNext]_officeVars => [SETUP!Next]_(SETUP!vars)
    BY DEF OfficeNext, officeVars, templateVars, SETUP!vars
  <1>4. [OfficeNext]_officeVars => [LETTER!Next]_(LETTER!vars)
    BY DEF OfficeNext, officeVars, letterVars, LETTER!vars
  <1>5. [OfficeNext]_officeVars => [CAL!Next]_(CAL!vars)
    BY DEF OfficeNext, officeVars, calendarVars, CAL!vars
  <1>6. [OfficeNext]_officeVars => [REQ!Next]_(REQ!vars)
    BY DEF OfficeNext, officeVars, requestVars, REQ!vars
  <1>7. [OfficeNext]_officeVars => [RIGHTS!Next]_(RIGHTS!vars)
    BY DEF OfficeNext, officeVars, rightsVars, RIGHTS!vars
  <1>8. [OfficeNext]_officeVars => [PARTIES!Next]_(PARTIES!vars)
    BY DEF OfficeNext, officeVars, partyVars, PARTIES!vars
  <1>9. [OfficeNext]_officeVars => [COURT!Next]_(COURT!vars)
    BY DEF OfficeNext, officeVars, courtVars, COURT!vars
  <1>10. [OfficeNext]_officeVars => [MONTH!Next]_(MONTH!vars)
    BY DEF OfficeNext, officeVars, monthVars, MONTH!vars
  <1> QED
    BY <1>1, <1>2, <1>3, <1>4, <1>5, <1>6, <1>7, <1>8, <1>9, <1>10, PTL
       DEF OfficeSpec, LIFE!Spec, SETUP!Spec, LETTER!Spec, CAL!Spec, REQ!Spec, RIGHTS!Spec, PARTIES!Spec,
           MONTH!Spec

\* However moves and closings overlap: a closed matter has a closing of its
\* own for which trust was confirmed at zero and the checklist finished, a
\* matter being closed has a closing to finish or abandon, and the log of
\* stages ends where the matter is (completeClosing, startClosing).
THEOREM ClosedMattersEarnedIt == OfficeSpec => []LifecycleIsSound
  <1>1. LIFE!LifecycleIsSound => LifecycleIsSound
    BY DEF LifecycleIsSound
  <1> QED
    BY <1>1, OfficeRunsComponents, ClosedOfMatters, PTL

\* Whoever saves, activates and retires at once: one version of a setup is in
\* force at most, matters were only set up from versions somebody put in force,
\* a locked draft's retirement is not undone, and where an index covers them
\* no two versions have one number (activate, retire and save of the templates).
THEOREM SetupsStayReviewed == OfficeSpec => []SetupsAreReviewed
  <1>1. SETUP!SetupsAreReviewed => SetupsAreReviewed
    BY DEF SetupsAreReviewed
  <1> QED
    BY <1>1, OfficeRunsComponents, ReviewedOfSetups, PTL

\* However decisions, sendings and reports overlap: a letter that has not
\* reached the post or the mail is on somebody's list, and one about a
\* conflict went out only after a lawyer approved it (letterService.ts).
THEOREM LettersStayOnAList == OfficeSpec => []LettersAreSound
  <1>1. LETTER!LettersAreSound => LettersAreSound
    BY DEF LettersAreSound
  <1> QED
    BY <1>1, OfficeRunsComponents, ListedOfLetters, PTL

\* Whatever requests, uploads, acceptances and answers overlap: what is waited
\* for somebody owes, unless a lawyer closed the chase of the client who owed it,
\* what is accepted has a file, and a question about delivery stays until it is
\* settled (checklist and delivery services, recordLawyerDecision).
THEOREM RequestsStayFollowedUp == OfficeSpec => []RequestsAreFollowedUp
  <1>1. REQ!RequestsAreFollowedUp => RequestsAreFollowedUp
    BY DEF RequestsAreFollowedUp
  <1> QED
    BY <1>1, OfficeRunsComponents, FollowedUpOfRequests, PTL

\* However a firm sets its overrides, gives and takes roles and restricts a
\* matter, one change after another: the rules no override can break hold, no
\* role gets around a screen or a restriction, somebody can still manage
\* permissions, a restricted matter has somebody on its team, screened or not,
\* unless intake took it from its lawyer, and its restriction shuts out nobody of
\* that team (effectiveRights, decide, setPermissionOverride, validateRoleRevoke,
\* setMatterRestricted, removeTeamMember).
THEOREM RightsKeepTheFloor == OfficeSpec => []RightsKeepTheirFloor
  <1>1. RIGHTS!RightsAreSound => RightsKeepTheirFloor
    BY DEF RightsKeepTheirFloor
  <1>2. RIGHTS!Spec => []RIGHTS!RightsAreSound
    BY OfficeAssumption, FloorOfRights
  <1> QED
    BY <1>1, <1>2, OfficeRunsComponents, PTL

\* However merges are confirmed, made by hand and undone over one another: a
\* confirmed duplicate was merged, and whichever record of a chain of merges a
\* check looks for, the record the chain ends in is in its entry (mergeParties,
\* activeMergeMap, buildPartyEntries).
THEOREM DuplicatesStayTogether == OfficeSpec => []DuplicatesAreFoundTogether
  <1>1. PARTIES!Spec => [](PARTIES!ConfirmedWasMerged /\ MergesSound)
    BY OfficeAssumption, MergedOfParties
  <1>2. MergesSound => PARTIES!FoundInOneEntry
    <2> SUFFICES ASSUME MergesSound PROVE PARTIES!FoundInOneEntry
      OBVIOUS
    <2>1. Len(merges) \in Nat /\ DOMAIN merges = 1..Len(merges)
      BY DEF MergesSound
    <2> QED
      BY <2>1, OfficeAssumption, EntriesHoldTheSurvivor
  <1>3. PARTIES!ConfirmedWasMerged /\ PARTIES!FoundInOneEntry => DuplicatesAreFoundTogether
    BY DEF DuplicatesAreFoundTogether
  <1> QED
    BY <1>1, <1>2, <1>3, OfficeRunsComponents, PTL

\* A confirmed deadline is on a day a lawyer put their name to, the one they had
\* read unless it was moved while they confirmed it; its reminder is not later,
\* unless it was re-dated other than against that day; and what a lawyer confirmed
\* from a court's email no late rejection, second acceptance or filing takes away,
\* however people move, confirm, re-date, cancel and decide over one another
\* (planReschedule, confirmEvent, redateTask, decideSuggestion).
THEOREM ConfirmedDatesStayConfirmed == OfficeSpec => ConfirmedDatesStand
  <1>1. CAL!Spec => []CAL!ReminderNeverSlips
    BY OfficeAssumption, RemindersOfDeadlines
  <1>2. OfficeSpec => [](focus \in {"calendar", "copy"} => CAL!ReminderNeverSlips)
    <2>1. CAL!ReminderNeverSlips => (focus \in {"calendar", "copy"} => CAL!ReminderNeverSlips)
      OBVIOUS
    <2> QED
      BY <1>1, <2>1, OfficeRunsComponents, PTL
  <1>3. OfficeSpec => COURT!ConfirmedStands
    BY OfficeRunsComponents, ConfirmedOfCourtEmail
  <1> QED
    BY <1>2, <1>3 DEF ConfirmedDatesStand

\* Whatever is posted, undone, imported, matched by hand and prepared in
\* between, as long as the months are taken in order: a closed month's bank
\* balance is, to the cent, the money of the entries the bank cleared so far,
\* and stays so; its statement opens where the one before closed, unless a match
\* by hand lists an entry twice; each of its lines is explained once, and no entry
\* stands for two lines or clears in two months (reconcile, prepareReconciliation,
\* signOffReconciliation, planTransaction).
THEOREM MonthsStayTied == OfficeSpec => []MonthsTieToTheBank
  <1>1. MONTH!ClosedMonthsTieToTheBank /\ MONTH!EveryCentClearsOnce => MonthsTieToTheBank
    BY DEF MonthsTieToTheBank
  <1>2. MONTH!Spec => [](MONTH!ClosedMonthsTieToTheBank /\ MONTH!EveryCentClearsOnce)
    BY OfficeAssumption, MonthsTie
  <1> QED
    BY <1>1, <1>2, OfficeRunsComponents, PTL
=============================================================================
