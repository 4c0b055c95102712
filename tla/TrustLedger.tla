---------------------------- MODULE TrustLedger ----------------------------
(***************************************************************************)
(* One trust account as src/src/engines/billing-trust/ledger.ts rules it:  *)
(* the sub-ledgers of an account, the journal of entries that move them,   *)
(* the holds on disputed money, and the month that is closed.  Every       *)
(* action is one accepted request, taken whole: the service serialises the *)
(* requests of an account with an advisory lock (ledgerService.ts:109), so *)
(* this module is also what the concurrent service promises.               *)
(*                                                                         *)
(* A day stands for a date at which a month may end; amounts are cents.    *)
(* An entry's lines are a function from sub-ledgers to signed amounts, 0   *)
(* where the entry has no line.                                            *)
(***************************************************************************)
EXTENDS Integers, Sequences, FiniteSets, Functions

CONSTANTS
    Clients,         \* parties whose money the account holds
    ClientLedgers,   \* client-matter sub-ledgers
    ClientOf,        \* the client of each client-matter sub-ledger
    Cushion,         \* the firm's bank-fee cushion sub-ledger
    Amounts,         \* amounts a request may ask for
    Caps,            \* caps the firm may configure for the cushion
    ClientOutKinds,  \* kinds that pay out of a client-matter ledger
    CushionOutKinds, \* kinds that pay out of the cushion
    LastDay,         \* bound: the last day of a behaviour
    MaxEntries,      \* bound: length of the journal
    MaxHolds         \* bound: holds ever placed

ASSUME ClientsAssumption ==
    /\ ClientOf \in [ClientLedgers -> Clients]
    /\ Cushion \notin ClientLedgers
    /\ IsFiniteSet(ClientLedgers)
ASSUME AmountsAssumption == Amounts \subseteq Nat \ {0} /\ Caps \subseteq Nat
ASSUME KindsAssumption ==
    /\ ClientOutKinds \subseteq {"disbursement", "refund", "earned_fee_transfer"}
    /\ CushionOutKinds \subseteq {"cushion_withdrawal", "bank_fee"}
ASSUME BoundsAssumption == LastDay \in Nat /\ MaxEntries \in Nat /\ MaxHolds \in Nat

VARIABLES
    opened,         \* sub-ledgers opened so far
    balance,        \* balance of each sub-ledger
    held,           \* disputed part of each balance
    book,           \* the account's own running balance
    journal,        \* entries, in sequence order; never edited
    holds,          \* holds ever placed, in order
    released,       \* indices of the holds that were released
    closedThrough,  \* end of the latest closed month, 0 before the first
    today,          \* the firm's calendar day
    cap,            \* the cushion cap configured now
    cushionApproved \* whether the cushion rule is approved now

vars == <<opened, balance, held, book, journal, holds, released,
          closedThrough, today, cap, cushionApproved>>

Ledgers == ClientLedgers \cup {Cushion}
Days == 0 .. LastDay
Kinds == {"deposit", "transfer", "cushion_deposit", "reversal"}
            \cup ClientOutKinds \cup CushionOutKinds

\* One row of the journal; "reverses" is the row it undoes, 0 for none.
EntryType == [kind : Kinds, date : Days, lines : [Ledgers -> Int],
              net : Int, reverses : Nat]

HoldType == [ledger : ClientLedgers, amount : Amounts]

Init ==
    /\ opened = {}
    /\ balance = [l \in Ledgers |-> 0]
    /\ held = [l \in Ledgers |-> 0]
    /\ book = 0
    /\ journal = <<>>
    /\ holds = <<>>
    /\ released = {}
    /\ closedThrough = 0
    /\ today = 1
    /\ cap \in Caps
    /\ cushionApproved \in BOOLEAN

----------------------------------------------------------------------------
(* Rules an entry must pass.                                               *)

\* Money that can leave a sub-ledger now.
Available(l) == balance[l] - held[l]

\* Seeded bug: disputed money counts as available.
CanPayHeldToo(l, a) == a <= balance[l]

\* checkOutflow: neither below zero nor into disputed money.
CanPay(l, a) == a <= balance[l] /\ a <= Available(l)

\* Seeded bug: the end of the closed month itself is taken for open.
OpenPeriodOffByOne(d) == d <= today /\ d >= closedThrough

\* Not in the future, not on or before the end of a closed month.
OpenPeriod(d) == d <= today /\ d > closedThrough

\* The lines of an entry that moves amount a on sub-ledger l alone.
OneLine(l, a) == [x \in Ledgers |-> IF x = l THEN a ELSE 0]

\* The two lines of a transfer.
TransferLines(from, to, a) ==
    [x \in Ledgers |-> IF x = from THEN -a ELSE IF x = to THEN a ELSE 0]

\* The tail of planTransaction and applyPlan: the checks every kind shares,
\* then the entry, its lines and the book balance are written together.
Enter(kind, date, lines, net, reverses) ==
    /\ Len(journal) < MaxEntries
    /\ OpenPeriod(date)
    /\ \A l \in Ledgers : lines[l] # 0 => l \in opened
    /\ \A l \in Ledgers : balance[l] + lines[l] >= 0
    /\ balance' = [l \in Ledgers |-> balance[l] + lines[l]]
    /\ book' = book + net
    /\ journal' = Append(journal, [kind |-> kind, date |-> date, lines |-> lines,
                                   net |-> net, reverses |-> reverses])
    /\ UNCHANGED <<opened, held, holds, released, closedThrough, today, cap,
                   cushionApproved>>

----------------------------------------------------------------------------
(* Entries.                                                                *)

Deposit(l, a, d) == Enter("deposit", d, OneLine(l, a), a, 0)

\* Seeded bug: the book is moved by the amount, not by its sign.
PayOutUnsigned(kind, l, a, d) ==
    /\ CanPay(l, a)
    /\ Enter(kind, d, OneLine(l, -a), a, 0)

\* A disbursement, a refund or an earned fee; the three differ in paperwork.
PayOut(kind, l, a, d) ==
    /\ CanPay(l, a)
    /\ Enter(kind, d, OneLine(l, -a), -a, 0)

\* Seeded bug: the destination's client is not compared.
TransferAcrossClients(from, to, a, d) ==
    /\ from # to
    /\ CanPay(from, a)
    /\ Enter("transfer", d, TransferLines(from, to, a), 0, 0)

Transfer(from, to, a, d) ==
    /\ from # to
    /\ ClientOf[from] = ClientOf[to]
    /\ CanPay(from, a)
    /\ Enter("transfer", d, TransferLines(from, to, a), 0, 0)

CushionDeposit(a, d) ==
    /\ cushionApproved
    /\ cap > 0
    /\ balance[Cushion] + a <= cap
    /\ Enter("cushion_deposit", d, OneLine(Cushion, a), a, 0)

CushionOut(kind, a, d) ==
    /\ CanPay(Cushion, a)
    /\ Enter(kind, d, OneLine(Cushion, -a), -a, 0)

\* Seeded bug: a reversal may be reversed like any other entry.
ReverseReversal(i, d) ==
    /\ \A j \in DOMAIN journal : journal[j].reverses # i
    /\ \A l \in Ledgers : journal[i].lines[l] > 0 => CanPay(l, journal[i].lines[l])
    /\ Enter("reversal", d, [l \in Ledgers |-> -journal[i].lines[l]],
             -journal[i].net, i)

\* Undo entry i: the exact negation of its lines, once, never of a reversal.
\* Only the lines that take money out are checked; the lines that put money
\* back are not, the cushion's included.
Reverse(i, d) ==
    /\ journal[i].kind # "reversal"
    /\ \A j \in DOMAIN journal : journal[j].reverses # i
    /\ \A l \in Ledgers : journal[i].lines[l] > 0 => CanPay(l, journal[i].lines[l])
    /\ Enter("reversal", d, [l \in Ledgers |-> -journal[i].lines[l]],
             -journal[i].net, i)

----------------------------------------------------------------------------
(* Holds on disputed money.                                                *)

\* applyHold, and the table's check: what is held stays within the balance.
MoveHeld(l, delta) ==
    /\ held[l] + delta >= 0
    /\ held[l] + delta <= balance[l]
    /\ held' = [held EXCEPT ![l] = @ + delta]

PlaceHold(l, a) ==
    /\ Len(holds) < MaxHolds
    /\ l \in opened
    /\ MoveHeld(l, a)
    /\ holds' = Append(holds, [ledger |-> l, amount |-> a])
    /\ UNCHANGED <<opened, balance, book, journal, released, closedThrough,
                   today, cap, cushionApproved>>

\* Seeded bug: the row of the released hold is counted from zero.
ReleaseHoldFromZero(h) ==
    /\ h \notin released
    /\ MoveHeld(holds[h].ledger, -holds[h].amount)
    /\ released' = released \cup {h - 1}
    /\ UNCHANGED <<opened, balance, book, journal, holds, closedThrough, today,
                   cap, cushionApproved>>

ReleaseHold(h) ==
    /\ h \notin released
    /\ MoveHeld(holds[h].ledger, -holds[h].amount)
    /\ released' = released \cup {h}
    /\ UNCHANGED <<opened, balance, book, journal, holds, closedThrough, today,
                   cap, cushionApproved>>

----------------------------------------------------------------------------
(* The account's surroundings.                                             *)

\* openClientSubledger, openCushionSubledger; an opened one is returned as is.
OpenLedger(l) ==
    /\ l \notin opened
    /\ opened' = opened \cup {l}
    /\ UNCHANGED <<balance, held, book, journal, holds, released, closedThrough,
                   today, cap, cushionApproved>>

\* updateTrustAccount: the new cap is not compared with the cushion's balance.
ChangeCap(c) ==
    /\ c # cap
    /\ cap' = c
    /\ UNCHANGED <<opened, balance, held, book, journal, holds, released,
                   closedThrough, today, cushionApproved>>

\* The attorney and the accountant approve the cushion rule, or withdraw it.
ReviewCushionRule ==
    /\ cushionApproved' = ~cushionApproved
    /\ UNCHANGED <<opened, balance, held, book, journal, holds, released,
                   closedThrough, today, cap>>

\* Months close in order; the first may be any.
CloseMonth(d) ==
    /\ d > closedThrough
    /\ closedThrough > 0 => d = closedThrough + 1
    /\ closedThrough' = d
    /\ UNCHANGED <<opened, balance, held, book, journal, holds, released, today,
                   cap, cushionApproved>>

NextDay ==
    /\ today < LastDay
    /\ today' = today + 1
    /\ UNCHANGED <<opened, balance, held, book, journal, holds, released,
                   closedThrough, cap, cushionApproved>>

ClientEntry ==
    \E d \in Days, a \in Amounts, l \in ClientLedgers :
        \/ Deposit(l, a, d)
        \/ \E k \in ClientOutKinds : PayOut(k, l, a, d)
        \/ \E to \in ClientLedgers : Transfer(l, to, a, d)

CushionEntry ==
    \E d \in Days, a \in Amounts :
        \/ CushionDeposit(a, d)
        \/ \E k \in CushionOutKinds : CushionOut(k, a, d)

Correction == \E d \in Days : \E i \in DOMAIN journal : Reverse(i, d)

Dispute ==
    \/ \E l \in ClientLedgers, a \in Amounts : PlaceHold(l, a)
    \/ \E h \in DOMAIN holds : ReleaseHold(h)

Surroundings ==
    \/ \E l \in Ledgers : OpenLedger(l)
    \/ \E c \in Caps : ChangeCap(c)
    \/ ReviewCushionRule
    \/ \E d \in Days : CloseMonth(d)
    \/ NextDay

Next == ClientEntry \/ CushionEntry \/ Correction \/ Dispute \/ Surroundings

Spec == Init /\ [][Next]_vars

----------------------------------------------------------------------------
(* Properties.                                                             *)

TypeOK ==
    /\ opened \in SUBSET Ledgers
    /\ balance \in [Ledgers -> Int]
    /\ held \in [Ledgers -> Int]
    /\ book \in Int
    /\ journal \in Seq(EntryType)
    /\ holds \in Seq(HoldType)
    /\ released \in SUBSET (DOMAIN holds)
    /\ closedThrough \in Nat
    /\ today \in Nat
    /\ cap \in Nat
    /\ cushionApproved \in BOOLEAN

\* I1 and I2 of ledger.ts: no sub-ledger is ever below zero and disputed money
\* is never moved, whatever sequence of entries, corrections and holds came.
HeldMoneyBacked == \A l \in Ledgers : 0 <= held[l] /\ held[l] <= balance[l]

\* The disputed part of a sub-ledger is the sum of its holds still in force
\* (the running held_cents the triggers keep never drifts from the hold rows).
HeldIsActiveHolds ==
    \A l \in Ledgers :
        LET active == {h \in DOMAIN holds : holds[h].ledger = l /\ h \notin released}
        IN  held[l] = SumFunctionOnSet([h \in DOMAIN holds |-> holds[h].amount], active)

\* I3: the account's own balance is the sum of its sub-ledgers.
BookIsSumOfLedgers == book = SumFunctionOnSet(balance, Ledgers)

\* I4: what a client has in trust is what the entries naming that client's
\* ledgers brought in or paid out on balance; no other client's entry adds to
\* it or takes from it, and a transfer is neutral for the client it names.
ClientMoneyIsItsOwn ==
    \A c \in Clients :
        LET mine == {l \in ClientLedgers : ClientOf[l] = c}
            named == {i \in DOMAIN journal : \E l \in mine : journal[i].lines[l] # 0}
        IN  SumFunctionOnSet(balance, mine) =
                SumFunctionOnSet([i \in DOMAIN journal |-> journal[i].net], named)

\* I6: an entry is reversed at most once, a reversal is the exact negation of
\* an earlier entry and is itself never reversed.
ReversalsExactAndOnce ==
    \A j \in DOMAIN journal :
        journal[j].kind = "reversal" =>
            LET i == journal[j].reverses
            IN  /\ i \in 1 .. (j - 1)
                /\ journal[i].kind # "reversal"
                /\ \A l \in Ledgers : journal[j].lines[l] = -journal[i].lines[l]
                /\ journal[j].net = -journal[i].net
                /\ \A k \in DOMAIN journal : journal[k].reverses = i => k = j

\* The rows of a journal dated on or before day d.
RowsThrough(rows, d) ==
    [i \in {k \in DOMAIN rows : rows[k].date <= d} |-> rows[i]]

\* I7: once a month is closed the books through its end are fixed, corrections
\* included; they are dated in the open period.
ClosedBooksFrozen ==
    [][RowsThrough(journal', closedThrough) = RowsThrough(journal, closedThrough)]_vars
=============================================================================
