----------------------------- MODULE PartyIndex -----------------------------
(***************************************************************************)
(* The index of every party the firm has dealt with, its duplicate         *)
(* records and the merges that fold them                                   *)
(* (src/src/engines/conflict-check/partyIndex.ts, dedupe.ts).              *)
(*                                                                         *)
(* Nothing leaves the index, and a merge moves nothing: it is a row that a *)
(* search follows.  A person confirming one reads the suggestion and the   *)
(* active merges without a lock and writes later in the same transaction,  *)
(* so two may overlap.                                                     *)
(***************************************************************************)
EXTENDS Naturals, FiniteSets, Sequences

CONSTANTS
    Parties,   \* the party records that may be added to the index, in the order of their ids
    Alike,     \* the pairs <<a, b>>, a < b, that scorePair takes for one party
    People,    \* the people with the conflicts role
    MaxMerges, \* bound: the merge rows ever written
    Hops       \* how far activeMergeMap follows a chain (10 in the code)

PartyAssumption ==
    /\ Parties \subseteq Nat /\ IsFiniteSet(Parties)
    /\ Alike \subseteq {pair \in Parties \X Parties : pair[1] < pair[2]}
    /\ MaxMerges \in Nat /\ Hops \in Nat \ {0}

VARIABLES
    indexed,     \* the records in the index
    merges,      \* the merge rows in the order they were written
    suggestions, \* per pair of records: none, open, confirmed or rejected
    confirming   \* per person, the merge being confirmed and what was read for it

vars == <<indexed, merges, suggestions, confirming>>

Pairs == {pair \in Parties \X Parties : pair[1] < pair[2]}
PairKey(a, b) == IF a < b THEN <<a, b>> ELSE <<b, a>>
SuggestionStates == {"none", "open", "confirmed", "rejected"}
Merge(survivor, merged) == [survivor |-> survivor, merged |-> merged, undone |-> FALSE]
\* scorePair: an email address, a phone number or a name in common, or a date of
\* birth and like names; never two dates of birth.
LooksAlike(pair) == pair \in Alike
Idle == [on |-> FALSE]

Init ==
    /\ indexed = {}
    /\ merges = <<>>
    /\ suggestions = [pair \in Pairs |-> "none"]
    /\ confirming = [u \in People |-> Idle]

-----------------------------------------------------------------------------
(* Folding merged records into their survivor.                             *)

ActiveMerges == {i \in DOMAIN merges : ~merges[i].undone}
Direct == [m \in {merges[i].merged : i \in ActiveMerges} |->
              merges[CHOOSE i \in ActiveMerges : merges[i].merged = m].survivor]
NextOf(direct, p) == IF p \in DOMAIN direct THEN direct[p] ELSE p

\* activeMergeMap: where a chain of merges ends.
Survivor(p) ==
    LET direct == Direct
        at[i \in 0..Hops] == IF i = 0 THEN p ELSE NextOf(direct, at[i - 1])
    IN  at[Hops]

\* buildPartyEntries goes through the map once, in the order of its rows: a
\* merged record seen before its survivor was pulled in stays out.
PulledIn(matched) ==
    LET after[i \in 0..Len(merges)] ==
            IF i = 0 THEN matched
            ELSE LET ids == after[i - 1]
                     ends == {merges[i].merged, Survivor(merges[i].merged)}
                 IN  IF ~merges[i].undone /\ ends \cap ids # {} THEN ids \cup ends ELSE ids
    IN  after[Len(merges)]

\* The entries a check compares: per survivor the records folded into it.
Entries(matched) ==
    LET all == PulledIn(matched)
    IN  {{p \in all : Survivor(p) = s} : s \in {Survivor(p) : p \in all}}

-----------------------------------------------------------------------------
(* Adding records, links and suggestions.                                  *)

\* suggestDuplicatesFor: the names, addresses and numbers of the record find
\* entries; their survivors, never the records folded into them, are compared.
DuplicatesOf(p, known) ==
    LET found == {q \in known \ {p} : LooksAlike(PairKey(p, q))}
        others == {Survivor(q) : q \in PulledIn(found \cup {p})} \ {p}
    IN  {pair \in Pairs : LooksAlike(pair) /\ \E q \in others : pair = PairKey(p, q)}

\* skipPairs: a pair suggested before, whatever became of it, or merged now.
Skipped == {pair \in Pairs : suggestions[pair] # "none"}
               \cup {PairKey(merges[i].merged, merges[i].survivor) : i \in ActiveMerges}

Suggest(pairs) ==
    suggestions' = [pair \in Pairs |-> IF pair \in pairs \ Skipped THEN "open" ELSE suggestions[pair]]

\* indexParty: a new record with its link, and the duplicates it looks like.
IndexParty(p) ==
    /\ p \notin indexed
    /\ indexed' = indexed \cup {p}
    /\ Suggest(DuplicatesOf(p, indexed \cup {p}))
    /\ UNCHANGED <<merges, confirming>>

\* runDedupeScan compares every record, merged ones too.
DedupeScan ==
    /\ Suggest({pair \in Pairs : LooksAlike(pair) /\ {pair[1], pair[2]} \subseteq indexed})
    /\ suggestions' # suggestions
    /\ UNCHANGED <<indexed, merges, confirming>>

-----------------------------------------------------------------------------
(* Merges.                                                                 *)

\* mergeParties, its reads: no loop as far as the active merges say.
\* A pair of <<>> is a merge no suggestion asked for.
ReadForMerge(u, survivor, merged, pair) ==
    /\ ~confirming[u].on
    /\ {survivor, merged} \subseteq indexed /\ survivor # merged
    /\ Survivor(survivor) # merged
    /\ confirming' = [confirming EXCEPT ![u] =
           [on |-> TRUE, survivor |-> survivor, merged |-> merged, pair |-> pair]]
    /\ UNCHANGED <<indexed, merges, suggestions>>

MergeByHand(u) == \E s, m \in indexed : ReadForMerge(u, s, m, <<>>)

ConfirmSuggestion(u) ==
    \E pair \in Pairs :
        /\ suggestions[pair] = "open"
        /\ \/ ReadForMerge(u, pair[1], pair[2], pair)
           \/ ReadForMerge(u, pair[2], pair[1], pair)

Confirmed(pair) == [suggestions EXCEPT ![pair] = "confirmed"]

\* Its writes.  One active merge of a record is all the unique index allows:
\* the second fails, and its transaction with it.
\* Seeded bug: the insert skips a conflict, and the suggestion is confirmed all the same.
CommitMergeSkippingConflicts(u) ==
    LET c == confirming[u]
    IN  /\ c.on /\ Len(merges) < MaxMerges
        /\ confirming' = [confirming EXCEPT ![u] = Idle]
        /\ merges' = IF c.merged \in DOMAIN Direct THEN merges
                     ELSE Append(merges, Merge(c.survivor, c.merged))
        /\ suggestions' = IF c.pair = <<>> THEN suggestions ELSE Confirmed(c.pair)
        /\ UNCHANGED indexed

CommitMerge(u) ==
    LET c == confirming[u]
    IN  /\ c.on /\ Len(merges) < MaxMerges
        /\ confirming' = [confirming EXCEPT ![u] = Idle]
        /\ IF c.merged \in DOMAIN Direct THEN UNCHANGED <<merges, suggestions>>
           ELSE /\ merges' = Append(merges, Merge(c.survivor, c.merged))
                /\ suggestions' = IF c.pair = <<>> THEN suggestions ELSE Confirmed(c.pair)
        /\ UNCHANGED indexed

UndoMerge(i) ==
    /\ i \in ActiveMerges
    /\ merges' = [merges EXCEPT ![i].undone = TRUE]
    /\ UNCHANGED <<indexed, suggestions, confirming>>

RejectSuggestion(pair) ==
    /\ suggestions[pair] = "open"
    /\ suggestions' = [suggestions EXCEPT ![pair] = "rejected"]
    /\ UNCHANGED <<indexed, merges, confirming>>

Next ==
    \/ \E p \in Parties : IndexParty(p)
    \/ DedupeScan
    \/ \E u \in People : MergeByHand(u) \/ ConfirmSuggestion(u) \/ CommitMerge(u)
    \/ \E i \in DOMAIN merges : UndoMerge(i)
    \/ \E pair \in Pairs : RejectSuggestion(pair)

Spec == Init /\ [][Next]_vars

-----------------------------------------------------------------------------
TypeOK ==
    /\ indexed \subseteq Parties
    /\ \A i \in DOMAIN merges : {merges[i].survivor, merges[i].merged} \subseteq indexed
    /\ suggestions \in [Pairs -> SuggestionStates]
    /\ \A u \in People : confirming[u].on => {confirming[u].survivor, confirming[u].merged} \subseteq indexed

\* A suggestion is confirmed only with a merge of its two records, even when
\* two people confirm overlapping suggestions at once or one confirms what
\* the other has just merged by hand (mergeParties).
ConfirmedWasMerged ==
    \A pair \in Pairs : suggestions[pair] = "confirmed" =>
        \E i \in DOMAIN merges : PairKey(merges[i].survivor, merges[i].merged) = pair

\* However merges are chained, raced or undone, a check that finds a record
\* compares it in one entry with the record its chain of merges ends in; only
\* where racing merges made a loop does no chain end (buildPartyEntries).
FoundInOneEntry ==
    \A p \in indexed : Survivor(p) \notin DOMAIN Direct =>
        \E e \in Entries({p}) : {p, Survivor(p)} \subseteq e

\* What the code says of the entries a check compares: "Pull in survivors and
\* everything merged into them so the folded entry is complete."
\* (partyIndex.ts:515): every record folded into the same survivor is in the
\* entry of a record that was found.
FoldedEntryIsComplete ==
    \A p \in indexed : \A e \in Entries({p}) : p \in e =>
        {q \in indexed : Survivor(q) = Survivor(p)} \subseteq e
=============================================================================
