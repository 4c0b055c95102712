--------------------------- MODULE Reconciliation ---------------------------
(***************************************************************************)
(* What a month's three-way reconciliation of a trust account computes     *)
(* (src/src/engines/billing-trust/reconciliation.ts) and what the months   *)
(* closed on it add up to: the journal of the account, a bank statement    *)
(* per month, the matching of its lines with the entries, and the close.   *)
(*                                                                         *)
(* Every action is one request, taken whole: how requests that overlap     *)
(* read and sign is TrustClose's subject, and the sign-offs of a month are *)
(* one here, the one that closes it.  What the stored balances and the     *)
(* hash chain are compared with is TrustLedger's: the journal here is      *)
(* sound, and a reconciliation finds no difference there.                  *)
(*                                                                         *)
(* Month m is the days (m-1)*MonthLength+1 .. m*MonthLength.  An entry is  *)
(* not dated in the future: the days there are stand for those so far.     *)
(***************************************************************************)
EXTENDS Integers, Sequences, FiniteSets, SequencesExt

CONSTANTS
    Ledgers,        \* the sub-ledgers of the account
    Postings,       \* entries people may ask for, but for reversals
    Statements,     \* statements the bank may send
    NoReference,    \* stands for an entry or a line without a reference
    MonthLength,
    Early,          \* days the bank may be ahead of the book: 3 in the code
    DepositDays,    \* days after which a deposit may reach the bank
    WithdrawalDays, \* days after which a check may be paid
    MaxListed,      \* bound: entries one match by hand lists
    LastMonth,      \* bound: months
    MaxEntries      \* bound: length of the journal

VARIABLES
    journal,  \* the entries, in sequence order
    inForce,  \* per month, its statement: none or one
    prepared, \* per month, the worksheet that can be signed: none or one
    closes    \* the worksheets the closed months were closed on, in order

vars == <<journal, inForce, prepared, closes>>

Months == 1 .. LastMonth
Days == 1 .. LastMonth * MonthLength
MonthEnd(m) == m * MonthLength

\* A line of a statement as it is read in: never of nothing.
IsLine(line) ==
    line.day \in Days /\ line.amount \in Int \ {0} /\ line.iolta \in BOOLEAN
IsStatement(s) ==
    /\ s.month \in Months /\ s.opening \in Int /\ s.closing \in Int
    /\ s.lines \in Seq({s.lines[k] : k \in DOMAIN s.lines})
    /\ \A k \in DOMAIN s.lines : IsLine(s.lines[k])

ReconciliationAssumption ==
    /\ MonthLength \in Nat \ {0} /\ LastMonth \in Nat /\ IsFiniteSet(Ledgers)
    /\ Early \in Nat /\ DepositDays \in Nat /\ WithdrawalDays \in Nat /\ MaxListed \in Nat
    /\ \A p \in Postings : p.date \in Days /\ p.lines \in [Ledgers -> Int]
    /\ \A s \in Statements : IsStatement(s)

Total(f) == SumFunctionOnSet(f, DOMAIN f)
\* The sum over the entries S of what each did to the account.
NetOf(S) == SumFunctionOnSet([e \in S |-> journal[e].net], S)
\* The sum over a list of entries: one that is listed twice counts twice.
AmountOf(list) == Total([i \in DOMAIN list |-> journal[list[i]].net])

Init ==
    /\ journal = <<>> /\ closes = <<>>
    /\ inForce = [m \in Months |-> {}]
    /\ prepared = [m \in Months |-> {}]

-----------------------------------------------------------------------------
(* The book.                                                               *)

Closed(m) == \E k \in DOMAIN closes : closes[k].month = m
ClosedThrough == IF closes = <<>> THEN 0 ELSE MonthEnd(Last(closes).month)

Balance(l) == SumFunctionOnSet([e \in DOMAIN journal |-> journal[e].lines[l]], DOMAIN journal)
Dated(m) == {e \in DOMAIN journal : journal[e].date <= MonthEnd(m)}
BalanceAt(l, m) == SumFunctionOnSet([e \in DOMAIN journal |-> journal[e].lines[l]], Dated(m))

\* planTransaction's tail: an entry may be dated back as far as the last close,
\* and takes no ledger below zero as the books are now.
Post(date, lines, reference, reverses) ==
    /\ Len(journal) < MaxEntries
    /\ ClosedThrough < date
    /\ \A l \in Ledgers : Balance(l) + lines[l] >= 0
    /\ journal' = Append(journal, [date |-> date, lines |-> lines, net |-> Total(lines),
                                   reference |-> reference, reverses |-> reverses])
    /\ UNCHANGED <<inForce, prepared, closes>>

\* An entry is undone once, by its negation, and the negation never.
Reversal(e, date) ==
    /\ journal[e].reverses = 0
    /\ \A r \in DOMAIN journal : journal[r].reverses # e
    /\ Post(date, [l \in Ledgers |-> -journal[e].lines[l]], NoReference, e)

-----------------------------------------------------------------------------
(* The bank's statements.                                                  *)

\* statementProblems: the lines add up and lie in the month.
Foots(s) == s.closing = s.opening + Total([k \in DOMAIN s.lines |-> s.lines[k].amount])

\* The statement supersedes the one in force, if there is one, and is refused
\* only once its month is closed: what was prepared on the other stays.
ImportStatement(s) ==
    /\ ~Closed(s.month) /\ Foots(s)
    /\ \A k \in DOMAIN s.lines :
          MonthEnd(s.month - 1) < s.lines[k].day /\ s.lines[k].day <= MonthEnd(s.month)
    /\ inForce' = [inForce EXCEPT ![s.month] = {s}]
    /\ UNCHANGED <<journal, prepared, closes>>

-----------------------------------------------------------------------------
(* The reconciliation of month m with its statement s.                     *)

\* The entries the matches of a month's lines list.
Named(matches) == UNION {Range(matches[k]) : k \in DOMAIN matches}
\* Entries the bank cleared in a closed month.
ClearedBy(w) == w.pairs \cup Named(w.matches)
PreviouslyCleared == UNION {ClearedBy(closes[k]) : k \in DOMAIN closes}

\* Seeded bug: what an earlier month cleared may be matched again.
CandidatesOfAnyMonth(m) == {e \in Dated(m) : journal[e].net # 0}

Candidates(m) == {e \in Dated(m) : journal[e].net # 0 /\ e \notin PreviouslyCleared}

\* Lists of entries, ascending: in another order they say the same.
Lists(S) ==
    {list \in UNION {[1 .. n -> S] : n \in 1 .. MaxListed} :
        \A i, j \in DOMAIN list : i < j => list[i] <= list[j]}

\* What a bookkeeper matched by hand: to a line she lists candidates that add up
\* to it, none that a match before lists; reconcile() refuses any other.  Within
\* one match nothing is noted down before its end: an entry may repeat there.
ManualMatches(s, m) ==
    LET fitting == {list \in Lists(Candidates(m)) : \E k \in DOMAIN s.lines : AmountOf(list) = s.lines[k].amount}
    IN  {f \in UNION {[lines -> fitting] : lines \in SUBSET DOMAIN s.lines} :
            \A k \in DOMAIN f :
                /\ AmountOf(f[k]) = s.lines[k].amount
                /\ \A j \in DOMAIN f \ {k} : Range(f[j]) \cap Range(f[k]) = {}}

Lag(line, e) == line.day - journal[e].date
SameReference(line, e) ==
    line.reference # NoReference /\ line.reference = journal[e].reference

MayBe(line, e) ==
    /\ journal[e].net = line.amount
    /\ Lag(line, e) >= -Early
    /\ \/ SameReference(line, e)
       \/ Lag(line, e) <= IF journal[e].net > 0 THEN DepositDays ELSE WithdrawalDays

Distance(d) == IF d < 0 THEN -d ELSE d
Score(line, e) == IF SameReference(line, e) THEN -1 ELSE Distance(Lag(line, e))
Better(line, d, e) ==
    Score(line, d) < Score(line, e) \/ (Score(line, d) = Score(line, e) /\ d < e)

\* The entries of which a line takes its best: none is taken twice.
Untaken(S, matches) == S \ Named(matches)

\* A line takes the best entry still there.
MatchLine(lines, candidates, matches, k) ==
    LET fit == {e \in Untaken(candidates, matches) : MayBe(lines[k], e)}
        best == {e \in fit : \A d \in fit \ {e} : Better(lines[k], e, d)}
    IN  IF best = {} THEN matches
        ELSE [j \in DOMAIN matches \cup {k} |->
                IF j = k THEN <<CHOOSE e \in best : TRUE>> ELSE matches[j]]

\* The earliest of some lines, by day and number.
FirstOf(lines, left) ==
    CHOOSE k \in left : \A j \in left \ {k} :
        lines[k].day < lines[j].day \/ (lines[k].day = lines[j].day /\ k < j)

\* What the bookkeeper did not match is matched line by line.
NextMatch(s, candidates, so) ==
    IF so.left = {} THEN so
    ELSE LET k == FirstOf(s.lines, so.left)
         IN  [matches |-> MatchLine(s.lines, candidates, so.matches, k), left |-> so.left \ {k}]

Matched(s, candidates, manual) ==
    LET after[i \in 0 .. Len(s.lines)] ==
            IF i = 0 THEN [matches |-> manual, left |-> DOMAIN s.lines \ DOMAIN manual]
            ELSE NextMatch(s, candidates, after[i - 1])
    IN  after[Len(s.lines)].matches

\* An entry and its reversal that both never reached the bank.
ReversalPairs(free) ==
    UNION {{e, journal[e].reverses} : e \in {x \in free : journal[x].reverses \in free}}

\* Interest and its remittance to the foundation, when they cancel out.
PassThrough(lines, unmatched) ==
    LET iolta == {k \in unmatched : lines[k].iolta}
    IN  IF Total([k \in iolta |-> lines[k].amount]) = 0 THEN iolta ELSE {}

\* The statement opens where the one in force for the month before closed.
OpensWhereTheLastClosed(s, m) ==
    \A k \in Months : k = m - 1 => \A p \in inForce[k] : p.closing = s.opening

\* No ledger was below zero on the month's last day.  What else is asked of the
\* ledgers holds of a sound journal (see above).
LedgersCovered(m) == \A l \in Ledgers : BalanceAt(l, m) >= 0

\* The bank's closing balance and what is still on its way make the book's.
Agrees(s, m, outstanding) == s.closing + NetOf(outstanding) = NetOf(Dated(m))

\* Seeded bug: a month whose bank lines are all explained is taken for balanced.
BalancedIfMatched(s, m, outstanding, unmatched) == unmatched = {}

\* No difference that blocks: an old outstanding item only warns.
Balanced(s, m, outstanding, unmatched) ==
    /\ OpensWhereTheLastClosed(s, m) /\ LedgersCovered(m)
    /\ unmatched = {} /\ Agrees(s, m, outstanding)

Worksheet(s, m, manual) ==
    LET candidates == Candidates(m)
        matches == Matched(s, candidates, manual)
        free == Untaken(candidates, matches)
        pairs == ReversalPairs(free)
        rest == DOMAIN s.lines \ DOMAIN matches
        passed == PassThrough(s.lines, rest)
    IN  [month |-> m, statement |-> s, through |-> Len(journal),
         matches |-> matches, pairs |-> pairs, passed |-> passed, after |-> Len(closes),
         balanced |-> Balanced(s, m, free \ pairs, rest \ passed)]

\* The new worksheet supersedes the month's last one.
Prepare(m) ==
    /\ ~Closed(m)
    /\ \E s \in inForce[m] : \E manual \in ManualMatches(s, m) :
          prepared' = [prepared EXCEPT ![m] = {Worksheet(s, m, manual)}]
    /\ UNCHANGED <<journal, inForce, closes>>

-----------------------------------------------------------------------------
(* The last sign-off of a month.                                           *)

\* Months close one after another, from any first one on, and only as long as
\* nothing was posted into the month since; the statement is not asked again.
CloseMonth(m) ==
    /\ ~Closed(m)
    /\ closes # <<>> => m = Last(closes).month + 1
    /\ \E w \in prepared[m] :
          /\ w.balanced
          /\ \A e \in Dated(m) : e <= w.through
          /\ closes' = Append(closes, w)
    /\ UNCHANGED <<journal, inForce, prepared>>

-----------------------------------------------------------------------------
Next ==
    \/ \E p \in Postings : Post(p.date, p.lines, p.reference, 0)
    \/ \E e \in DOMAIN journal, date \in {p.date : p \in Postings} : Reversal(e, date)
    \/ \E s \in Statements : ImportStatement(s)
    \/ \E m \in Months : Prepare(m) \/ CloseMonth(m)

Spec == Init /\ [][Next]_vars

-----------------------------------------------------------------------------
(* Properties.                                                             *)

TypeOK ==
    /\ \A e \in DOMAIN journal : journal[e].lines \in [Ledgers -> Int] /\ journal[e].date \in Days
    /\ \A m \in Months : inForce[m] \subseteq Statements /\ Cardinality(prepared[m]) <= 1
    /\ \A k \in DOMAIN closes : closes[k].month \in Months

ClearedThrough(k) == UNION {ClearedBy(closes[j]) : j \in 1 .. k}

\* The first k closed months were each closed on a worksheet prepared once the
\* month before was closed, as a bookkeeper who takes them one by one does.
InOrder(k) == \A j \in 1 .. k : closes[j].after = j - 1

\* No match of the worksheet lists an entry twice.
ListsNoneTwice(w) == \A k \in DOMAIN w.matches : IsInjective(w.matches[k])

\* As long as the months are taken in order: once a month is closed the bank's
\* closing balance is, to the cent, the money of the entries the bank cleared so
\* far, whatever the matches by hand list, and stays so whatever is posted or
\* undone later; no client's ledger was below zero on that day; and, unless one
\* of its matches lists an entry twice, its statement opens where the one before
\* closed, also when the statement it was compared with was superseded before
\* that close.
ClosedMonthsTieToTheBank ==
    \A k \in DOMAIN closes : InOrder(k) =>
        /\ closes[k].statement.closing = NetOf(ClearedThrough(k))
        /\ \A l \in Ledgers : BalanceAt(l, closes[k].month) >= 0
        /\ k > 1 /\ ListsNoneTwice(closes[k]) =>
              closes[k].statement.opening = closes[k - 1].statement.closing

\* Each line of a closed statement is explained once, by interest passed on or by
\* a list of entries of that month or before that add up to it: each once, but
\* where a match by hand lists one twice and it counts twice.  No entry stands
\* for two lines, nor for a line and for a reversal that never reached the bank;
\* and, as long as the months are taken in order, no two months clear the same.
EveryCentClearsOnce ==
    \A k \in DOMAIN closes :
        LET w == closes[k]
        IN  /\ DOMAIN w.matches \cup w.passed = DOMAIN w.statement.lines
            /\ DOMAIN w.matches \cap w.passed = {}
            /\ \A j \in DOMAIN w.matches :
                  LET entries == Range(w.matches[j])
                  IN  /\ AmountOf(w.matches[j]) = w.statement.lines[j].amount
                      /\ IsInjective(w.matches[j]) => NetOf(entries) = w.statement.lines[j].amount
                      /\ entries \cap w.pairs = {}
                      /\ \A i \in DOMAIN w.matches \ {j} : Range(w.matches[i]) \cap entries = {}
            /\ NetOf(w.pairs) = 0
            /\ ClearedBy(w) \subseteq Dated(w.month)
            /\ InOrder(k) => ClearedBy(w) \cap ClearedThrough(k - 1) = {}

\* What a comment says of previouslyCleared and a test of reconcile(): what an
\* earlier closed month cleared is not matched again.  The last sign-off does
\* not ask whether another month closed since the worksheet was prepared.
ClearedMonthsApart ==
    \A j, k \in DOMAIN closes : j < k => ClearedBy(closes[j]) \cap ClearedBy(closes[k]) = {}
=============================================================================
