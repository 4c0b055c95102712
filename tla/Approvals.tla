----------------------------- MODULE Approvals -----------------------------
(***************************************************************************)
(* One approval gate (src/src/compliance): the reviewers' sign-offs, kept  *)
(* in a table, and what one process, a web server or the worker, makes of  *)
(* the snapshot of them it holds in memory.  The calls of the process,     *)
(* requests or ticks, refresh the snapshot before they do anything and may *)
(* do so at the same time; what they then do behind the gate asks the      *)
(* snapshot as it is at that moment.                                       *)
(*                                                                         *)
(* The gate has a draft, as those of wording do: a gate without one is a   *)
(* gate whose draft never changes.  Every gate of the process is decided   *)
(* from the one snapshot, and no gate depends on another.                  *)
(***************************************************************************)
EXTENDS Naturals, Sequences

CONSTANTS
    Reviewers, \* the kinds of reviewers the gate asks for
    Wordings,  \* wordings a reviewer may write down
    AsDrafted, \* stands for a sign-off without a wording of its own
    Calls,     \* requests under way at a time
    MaxAge,    \* age at which a snapshot is read anew: 60 s in the code
    MaxWrites  \* bound: sign-offs, revocations and releases

ApprovalsAssumption ==
    AsDrafted \notin Wordings /\ MaxAge \in Nat \ {0} /\ MaxWrites \in Nat

VARIABLES
    rows,    \* compliance_approvals, in the order they were recorded
    writes,  \* how often they were changed, or the code released
    draft,   \* the draft in the newest code
    process, \* the draft it runs with, whether it ticks, its snapshot and that one's age
    call     \* what each call is doing, what it has read, and when a tick began

vars == <<rows, writes, draft, process, call>>

\* "revoked" is the write that revoked the sign-off, 0 for none.
RowType == [kind : Reviewers, text : Wordings \cup {AsDrafted}, draft : Nat, at : Nat, revoked : Nat]

\* A process that has just started has read nothing: every gate is closed.
Started(ticks) == [draft |-> draft, ticks |-> ticks, snapshot |-> <<>>, age |-> MaxAge]
Idle == [step |-> "idle", read |-> <<>>, began |-> 0]

Init ==
    /\ rows = <<>> /\ writes = 0 /\ draft = 1
    /\ \E ticks \in BOOLEAN : process = Started(ticks)
    /\ call = [c \in Calls |-> Idle]

-----------------------------------------------------------------------------
(* What a snapshot says.                                                   *)

\* Seeded bug: a sign-off of an older draft goes on counting.
CountsOfAnyDraft(row) == row.revoked = 0 /\ row.kind \in Reviewers

\* approvalCounts: a reviewer who recorded no wording approved the draft she saw.
Counts(row) ==
    /\ row.revoked = 0 /\ row.kind \in Reviewers
    /\ row.text = AsDrafted => row.draft = process.draft

Valid == {i \in DOMAIN process.snapshot : Counts(process.snapshot[i])}
Pending == {k \in Reviewers : \A i \in Valid : process.snapshot[i].kind # k}
Open == Pending = {}

\* The wording shown when the gate is open: the last one recorded, or the draft.
Worded == {i \in Valid : process.snapshot[i].text # AsDrafted}
Shown ==
    IF Worded = {} THEN AsDrafted
    ELSE process.snapshot[CHOOSE i \in Worded : \A j \in Worded : j <= i].text

-----------------------------------------------------------------------------
(* The operator's CLI, and releases of the code.                           *)

\* The row takes the hash of the draft of the code the CLI runs from.
Approve(kind, text) ==
    /\ writes < MaxWrites
    /\ rows' = Append(rows, [kind |-> kind, text |-> text, draft |-> draft,
                             at |-> writes + 1, revoked |-> 0])
    /\ writes' = writes + 1
    /\ UNCHANGED <<draft, process, call>>

Revoke(kind) ==
    /\ writes < MaxWrites
    /\ rows' = [i \in DOMAIN rows |->
                   IF rows[i].kind = kind /\ rows[i].revoked = 0
                   THEN [rows[i] EXCEPT !.revoked = writes + 1] ELSE rows[i]]
    /\ rows' # rows
    /\ writes' = writes + 1
    /\ UNCHANGED <<draft, process, call>>

\* The wording proposed in the code is changed.
Release ==
    /\ writes < MaxWrites
    /\ draft' = draft + 1 /\ writes' = writes + 1
    /\ UNCHANGED <<rows, process, call>>

\* The process is started again, with the newest code.
Restart ==
    /\ process' = Started(process.ticks)
    /\ call' = [c \in Calls |-> Idle]
    /\ UNCHANGED <<rows, writes, draft>>

-----------------------------------------------------------------------------
(* The calls.                                                              *)

Install(snapshot) == process' = [process EXCEPT !.snapshot = snapshot, !.age = 0]

\* ensureServerApprovals(0) of a tick, of which there is one at a time, always
\* reads; that of a request only when the snapshot is old.
Begin(c) ==
    /\ call[c].step = "idle"
    /\ process.ticks => \A d \in Calls : call[d].step = "idle"
    /\ call' = [call EXCEPT ![c] =
          [step |-> IF ~process.ticks /\ process.age < MaxAge THEN "ready" ELSE "reading",
           read |-> <<>>, began |-> IF process.ticks THEN writes ELSE 0]]
    /\ UNCHANGED <<rows, writes, draft, process>>

Read(c) ==
    /\ call[c].step = "reading"
    /\ call' = [call EXCEPT ![c].step = "arriving", ![c].read = rows]
    /\ UNCHANGED <<rows, writes, draft, process>>

\* What was read becomes the snapshot, whatever others have put there since.
Arrive(c) ==
    /\ call[c].step = "arriving"
    /\ Install(call[c].read)
    /\ call' = [call EXCEPT ![c].step = "ready", ![c].read = <<>>]
    /\ UNCHANGED <<rows, writes, draft>>

\* Seeded bug: the call goes on with the snapshot that is there.
LoadFailsQuietly(c) ==
    /\ call[c].step \in {"reading", "arriving"}
    /\ call' = [call EXCEPT ![c].step = "ready", ![c].read = <<>>]
    /\ UNCHANGED <<rows, writes, draft, process>>

\* The table cannot be read: nothing is approved, until the snapshot is old.
LoadFails(c) ==
    /\ call[c].step \in {"reading", "arriving"}
    /\ Install(<<>>)
    /\ call' = [call EXCEPT ![c].step = "ready", ![c].read = <<>>]
    /\ UNCHANGED <<rows, writes, draft>>

\* requireApproval and legalCopy ask Open and Shown as often as the call likes,
\* and change nothing.
Finish(c) ==
    /\ call[c].step = "ready"
    /\ call' = [call EXCEPT ![c] = Idle]
    /\ UNCHANGED <<rows, writes, draft, process>>

TimePasses ==
    /\ process.age < MaxAge
    /\ process' = [process EXCEPT !.age = @ + 1]
    /\ UNCHANGED <<rows, writes, draft, call>>

-----------------------------------------------------------------------------
Next ==
    \/ \E k \in Reviewers, text \in Wordings \cup {AsDrafted} : Approve(k, text)
    \/ \E k \in Reviewers : Revoke(k)
    \/ Release \/ Restart \/ TimePasses
    \/ \E c \in Calls : Begin(c) \/ Read(c) \/ Arrive(c) \/ LoadFails(c) \/ Finish(c)

Spec == Init /\ [][Next]_vars

\* The database answers or the load fails, calls end, and time passes.  No one
\* has to begin a call, to sign anything off or to release anything.
Fairness ==
    /\ \A c \in Calls : WF_vars(Read(c) \/ Arrive(c) \/ LoadFails(c)) /\ WF_vars(Finish(c))
    /\ WF_vars(TimePasses)

-----------------------------------------------------------------------------
(* Properties.                                                             *)

TypeOK ==
    /\ rows \in Seq(RowType) /\ writes \in 0 .. MaxWrites /\ draft \in 1 .. MaxWrites + 1
    /\ process \in [draft : 1 .. draft, ticks : BOOLEAN, snapshot : Seq(RowType), age : 0 .. MaxAge]
    /\ call \in [Calls -> [step : {"idle", "reading", "arriving", "ready"},
                           read : Seq(RowType), began : 0 .. writes]]

\* The sign-offs that stood after the first t writes.
StoodAt(t) == {i \in DOMAIN rows : rows[i].at <= t /\ rows[i].revoked \notin 1 .. t}

\* A gate is open only if at one moment every reviewer it asks for had signed
\* off what this very code proposes or a wording of her own, not revoked then;
\* and what is shown is a wording one of them wrote down, or the proposal when
\* all of them had signed that off.
SignedOffAtOnce ==
    Open => \E t \in 0 .. writes :
        /\ \A k \in Reviewers : \E i \in StoodAt(t) :
              /\ rows[i].kind = k
              /\ rows[i].text # AsDrafted \/ rows[i].draft = process.draft
              /\ Shown = AsDrafted => rows[i].draft = process.draft
        /\ Shown # AsDrafted => \E i \in StoodAt(t) : rows[i].text = Shown

\* What was revoked before a tick began is revoked for everything the tick does,
\* also when the table could not be read.
TicksSeeRevocations ==
    \A c \in Calls : process.ticks /\ call[c].step = "ready" =>
        \A i \in DOMAIN process.snapshot :
            rows[i].revoked \in 1 .. call[c].began => process.snapshot[i].revoked # 0

Stands == \A k \in Reviewers : \E i \in DOMAIN rows : rows[i].kind = k /\ Counts(rows[i])

\* As long as a process is used at all, it does not hold a gate open for ever on
\* a sign-off that was revoked, or that is of another draft than it runs with:
\* not even though an older snapshot may replace a newer one.
ClosesForGood ==
    <>[]~Stands /\ []<>(\E c \in Calls : call[c].step # "idle") => <>[]~Open
=============================================================================
