------------------------------ MODULE MonthBook ------------------------------
(***************************************************************************)
(* What closing promises about the months of a trust account: they close   *)
(* one after another, each once, and an entry is posted into an open month *)
(* only.  The first close may be of any month, with which all the earlier  *)
(* ones count as closed.                                                   *)
(*                                                                         *)
(* Preparing, signing, looking at the books and waiting for locks are no   *)
(* steps here: TrustClose shows that its transactions, however they        *)
(* interleave, do nothing else to the closes and the entries.              *)
(***************************************************************************)
EXTENDS Naturals, Sequences

CONSTANT Months

VARIABLES
    closed, \* the closes, each a month and the reconciliation it was closed on
    posted  \* the month of each posted entry, in sequence order

vars == <<closed, posted>>

\* m is open: no month from m on is closed.
Open(m) == \A c \in closed : c.month < m

Init == closed = {} /\ posted = <<>>

\* The close of an open month; none is skipped after the first.
Close ==
    \E c \in closed' \ closed :
        /\ closed' = closed \cup {c}
        /\ Open(c.month)
        /\ closed # {} => \E b \in closed : c.month = b.month + 1
        /\ UNCHANGED posted

Post(m) ==
    /\ Open(m)
    /\ posted' = Append(posted, m)
    /\ UNCHANGED closed

Next == Close \/ \E m \in Months : Post(m)

Spec == Init /\ [][Next]_vars
=============================================================================
