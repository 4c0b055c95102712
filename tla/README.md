# TLA+ models of the legal intake engine

The repository is a multi-tenant practice system for law firms: intake of
prospective clients, consultations, conflict checks, documents, calendars and
limitation dates, alerts, billing and trust money.  It is TypeScript over one
PostgreSQL database.  Every request, and every hook of the worker, runs in one
READ COMMITTED transaction of one firm (`src/src/tenancy/withTenant.ts`), so
the hard behaviour is not in the single operation, which the repository's tests
cover well, but in what two transactions do to each other, in what a later
operation finds that a long legal sequence left behind, and in what the worker
does between people's requests.  The models are about those.

All modules are of one firm.  Row-level security separates firms, and no module
tries to show that it does.

## Inventory

| Part | State it keeps | Operations | How it meets the others | What makes it correct |
|---|---|---|---|---|
| Trust ledger (`billing-trust/ledger.ts`, `ledgerService.ts`) | accounts, sub-ledgers, journal, lines, holds | nine kinds of entry, correction, hold, release, open a ledger, change the cap | account's advisory lock; journal triggers; month closes | no client's money pays another's bill, disputed money stays, the book is the sum of its ledgers, closed books are fixed |
| Trust reconciliation (`reconciliation.ts`, `reconciliationService.ts`) | statements, reconciliations, sign-offs, closes, flags | import, match, prepare, sign off (and close), overdue check | reads the journal; close trigger and journal trigger meet on the book's row | a month closes once, in order, on what every required role signed, and holds what was reconciled; no entry clears twice, and the bank's balance is the cleared money |
| Consultation booking (`intake/booking`) | consultations, calendar entries, staff tasks, scheduled timers | hold, confirm, cancel, move, no-show, complete, put on hold, expire | worker tick runs its timers; conflict checks; pipeline stage | one person per slot, calendar, tasks and reminders follow the status |
| Limitation dates (`calendar-core/limitations`) | dates, verifications, changes, reminders, matter profile | enter, verify, change, close, applicability, two daily scans | tasks, flags, calendar entries; intake risk flags | a date counts as verified only if a second person worked it out; none goes unwatched |
| Worker (`worker/tick.ts`, `hooks.ts`) | scheduled tasks | claim, handle, fail, commit; hooks | runs every engine's timers and scans | each due timer is handled, once, and failures do not stop the rest |
| Notifications (`core/notify.ts`, `calendar-alerts/delivery`) | outbox | enqueue, hold, drain, delivery report | flags and reminders enqueue; providers report back | sent once, in spite of crashes and quiet hours |
| Flags and tasks (`core/flags.ts`, `core/tasks.ts`) | flags, tasks | raise, acknowledge, resolve; create, complete, cancel, re-date | every engine | one open flag per key; none cleared silently |
| Emergency alerts (`intake/emergency`) | alerts, rota, pages | raise, page, escalate, acknowledge, downgrade | timers; pauses the conversation | somebody is paged until somebody answers |
| Acceptance and opening (`intake/acceptance`, `intake/opening`) | decisions, openings, gates, hand-offs | decide, gate evidence, open, hand off, retry | conflict checks, engagement, every engine receives a hand-off | a matter opens once, only through all its gates |
| Pipeline, channels, assignment, follow-up (`intake/*`) | sessions, stages, offers, sequences | stage moves, offers, timers | row lock on the session | one owner, no message after the person said no |
| Reply clocks, ladders (`calendar-alerts/replyClock`, `ladder`) | clocks, ladder steps | start, stop, change tier, alert; step, pause, resume, decide | tasks, flags, timers | an unanswered client is noticed; a ladder that was ended stays ended |
| Overdue, stall, health, updates, court notices (`calendar-alerts/*`) | watches, drafts, notices | daily scans, drafts approved by people | tasks and flags | an alert stands while its cause does |
| Conflict checks (`conflict-check`) | party index, checks, decisions, screens, letters | index, check, decide, supersede, screen, import | opening, booking and ledgers ask for its answer | nobody surely the same is missed; a decision is about what was checked |
| Documents (`document`) | groups, versions, folders, checklists, reviews, objects | upload, version, approve, share, retain | object storage; engagement | versions are numbered without gap, no row without its object |
| Calendar, deadlines, templates (`calendar-core`) | events, sync links, deadlines | confirm, move, cancel; synchronise; compute | outside calendars | a deadline is confirmed by a lawyer only |
| Invoices, time, costs, collections (`billing-trust`) | none (pure) | calculations | - | arithmetic |
| Compliance gates (`compliance`) | reviewers' sign-offs; a snapshot of them per process | approve, revoke, load, ask | every call of a process loads, every engine asks | an open gate had every sign-off at one moment; a revoked one closes |
| Core services, tenancy, authentication | settings, sessions, audit | reads, lookups, business hours | every engine | - |
| Rights and roles (`core/permissions.ts`, `all-engines/permissions`) | overrides, grants, restrictions, teams | override, grant, revoke, restrict, add and remove, decide | every engine asks for a right; screens; intake's assignment | no override gets around the fixed rules, no role around a screen; somebody can manage them |
| Platform, demo, language model, intake form, pages, widget | views, fixtures | reads | call the engines | - |

`PROJECT.json` lists each part with its status, and under `hazards` each place
where the code is exposed to an order of events a test would hardly produce.

## Modules

A component module has the component's state as VARIABLES, its bounds and sets
as CONSTANTS with their assumption, one action per step of a request, and its
properties at the end.  A request that reads before it writes is two actions,
and what it has read is a record it carries from one to the other (`tx`,
`request`, `call`, `asks`, `caller`, `writer`, `sweep`): this is where other
transactions come between.  A request whose first statement takes the lock
everybody else needs is one action.

| Module | Component | Proofs in |
|---|---|---|
| `TrustLedger` | one trust account: entries, corrections, holds, month ends | `OfficeProofs` |
| `TrustClose` | reconciliation and close of its months, as overlapping transactions | `TrustCloseProofs` |
| `MonthBook` | what `TrustClose` implements: months close once, in order; no entry gets into a closed one | `TrustCloseProofs` |
| `Reconciliation` | what a month's worksheet computes, and what closed months add up to | `OfficeProofs` |
| `ConsultBooking` | consultations, their timers and tasks | `ConsultBookingProofs` |
| `LimitationDates` | limitation dates and the two daily scans | `LimitationDatesProofs` |
| `FollowUp` | the follow-up messages of an inquiry and the STOP that ends them | `WorkerProofs` |
| `ConflictGate` | conflict checks, decisions, consents, screens and the stored gate of a matter | `ConflictGateProofs`, `MatterProofs` |
| `IntakeConversation` | messages, disclosures, names, consents and case details of one person | `MatterProofs` |
| `CaseAcceptance` | evaluations of an inquiry and the lawyer's decisions | `MatterProofs` |
| `EmergencyEscalation` | alerts, pages, acknowledgement and the escalation chain | `WorkerProofs` |
| `ReplyClock` | business hours; the clock of a client's unanswered message | `WorkerProofs` |
| `TaskListRuns` | a task list whose items wait for one another | `WorkerProofs` |
| `Assignment` | the lawyer of a matter: runs, overrides, screens | `MatterProofs` |
| `MatterLifecycle` | stages and closing of a matter | `OfficeProofs` |
| `FirmTemplates` | versions of a folder template, checklist, task list, stages or rule set | `OfficeProofs` |
| `NonEngagementLetter` | the letter to a declined prospect | `OfficeProofs` |
| `MatterCalendar` | a deadline, the days a court's rules compute, its reminder and its copy in an outside calendar | `OfficeProofs` |
| `CourtNotice` | a court email until somebody has taken it | `OfficeProofs` (safety) |
| `DocumentRequests` | documents a matter needs; whether a file has gone out | `OfficeProofs` |
| `Permissions` | rights, overrides, roles, a matter's team, restriction and screens; the decision | `OfficeProofs` |
| `NotificationOutbox` | emails, their drains, delivery reports, the delivery watch | `WorkerProofs` (safety) |
| `DocumentVersions` | versions of a file, sign-offs, the indexing of texts | `WorkerProofs` (safety) |
| `Approvals` | the sign-offs behind a gate, and the snapshot a process decides it from | `WorkerProofs` (safety) |
| `ConflictSync` | how new parties and reopened matters come to the conflict check | `WorkerProofs` (safety) |
| `PartyIndex` | duplicate records, merges, the entries a check compares | `OfficeProofs` |
| `ConflictSearch` | what a conflict check finds in an index of parties, and what it makes of it | - (a pure algorithm) |
| `SpeedToLead` | the first response to an inquiry | - (liveness) |
| `ChaseLadder` | the chase of what a client owes | - (liveness) |
| `OverdueTasks` | a firm task from the time it is due | - (liveness) |
| `StallWatch` | stalled work and check-back dates | - (liveness) |
| `MatterOpening` | gates, opening, hand-offs and retries | - (liveness) |
| `AssignmentScoring` | which lawyer a run picks; a pure algorithm over a stepwise history | `MatterProofs` (ties) |
| `MCIntake`, `MCClocks`, `MCRecords`, `MCMatters`, `MCOffice` | instances for TLC | |
| `CommonLemmas` | least and greatest numbers, minimal subsets, sums over finite sets, over disjoint unions and families of them | itself |

`MCIntake`, `MCClocks`, `MCRecords`, `MCMatters` and `MCOffice` each hold one
instance of several components.  The components of one such module share no
state, so a behaviour is one component's: the variable `focus` is chosen in the
initial state and never changes.  This is disjoint union, not composition; what
another component does to one of them is an action of the latter (a screen
recorded for a lawyer is an action of `Assignment`, a STOP one of `FollowUp`).
The runs `trust_close`, `booking`, `limitation`, `trust_close_skew` and
`recheck_refused` are of a component module as it stands.

Definitions named in a comment as a *seeded bug* are not part of any
specification: each is a plausible mistake in one definition, kept so that the
properties can be shown to notice it.

### TrustLedger

`balance` and `held` are `trust_subledgers.balance_cents` and `held_cents`,
`book` the account's own running balance, `journal` the rows of
`trust_transactions` with their lines folded in, `holds`/`released` the rows of
`trust_holds`, `closedThrough` the end of the last closed month.  An action is
one request that `planTransaction` or `planHold` accepts, with what `applyPlan`
and the triggers write.  A day is a date on which a month may end.  Requests of
one account are serialised by an advisory lock (`ledgerService.ts:109`), which
is why one step per request is faithful.  The kinds that differ in paperwork
alone (disbursement, refund, earned fee) share `PayOut`.

### TrustClose

The rows are the variables; `tx[p]` holds what the code of a request in
progress keeps in its locals.  A step that reads puts it there, and the step
that writes does so from there, under the unique indexes and triggers of
migration 0005.  The sign-off that completes the required roles is four steps:
what `signOffReconciliation` reads, its look for later entries, the trigger's
look at the reconciliation, and the trigger's second half once it has the
book's row.  Only postings take the advisory lock; a preparation takes no lock.
Whether a reconciliation balances is an input here; `Reconciliation` computes
it.

### Reconciliation

`journal` is the book's entries, `inForce` the statement of each month,
`prepared` the worksheet that can be signed, `closes` what months were closed
on.  A request is one step: `Post` and `Reversal` are what is left of
`planTransaction`, `ImportStatement` is `statementProblems` and the insert,
`Prepare` is `reconcile` over what the bookkeeper matched by hand and what
`matchLine` takes for the other lines, one by one, and `CloseMonth` the last
sign-off.  A match by hand is a list of entries, as it comes in, and may name one
twice; it then counts twice.  Amounts are integers of cents; a worksheet remembers how far into the
journal and the closes it was made (`through`, `after`), which is what the
sign-off's look for later entries goes by, and what it does not look for.

### ConsultBooking

A request asks (reads the consultation and the clock), locks the lawyer's
calendar if it takes a slot, marks the row (an UPDATE that names the status it
read), silences the timers (which waits for those the worker has claimed), and
commits.  The worker's tick claims due timers, runs each handler in a
savepoint, and commits all of it; `TickHandlerFails` is a savepoint rolled
back.  `expireSlotHolds` is one step per row, with the clock of the tick that
started it.  `event` is the entry on the lawyer's calendar.

### LimitationDates

From the UPDATE of a date's row to the commit, a request holds the row's lock,
and every writer of that date's tasks and calendar entry holds it too, so that
part is one step; what was read before it is `tx[p].was` and may be stale, which
is where this code is delicate: a match checks the version it read but not the
status, a mismatch and a close check neither.  `scan` is the worker's
transaction: `ScanRead` takes the open rows in one query, `ScanCommit` writes
the flags and reminders that snapshot asks for.  A flag's key is reduced to
what tells two flags apart (a day, a version, a threshold).

### Intake: IntakeConversation, CaseAcceptance, EmergencyEscalation, FollowUp, SpeedToLead, Assignment, AssignmentScoring, MatterOpening

`sessions` of `IntakeConversation` are the intake sessions of one person's
thread; `caller[p]` is a message or web request that read a session and will
write to it.  `CaseAcceptance` keeps the `evaluations` with their review tasks;
a rule is reduced to what `decideFit` looks at.  A decision looks at the evaluation
and then writes it by its id alone, so the later of two lawyers' replaces the
earlier.  `EmergencyEscalation` has
`alerts` with their recipients and a timer each; `tick[w]` is a timer the worker
has locked, and where the code's lock order can deadlock PostgreSQL ends one of
the two sides.  `FollowUp` is one inquiry's sequence; a STOP waits for the timer
a tick has locked.  `SpeedToLead` orders the checks of a response task and
leaves business hours out; `contacts` is whom the firm has, and its managers fall
back on its owners and these on its administrators, as in the code.  `Assignment` keeps the assignment `rows` and
`matters.assigned_user_id` (`assigned`), which different statements write;
`AssignmentScoring` is the arithmetic of the choice in hundredths.
`MatterOpening` has the gates' evidence, the hand-off rows, their timer and the
runs of tick and staff side by side.

### Gates: Approvals

`rows` are the reviewers' sign-offs of one gate in the order they were recorded,
`writes` counts their changes and the releases of code, `draft` is the draft in
the newest code; `process` is one web server or worker with the snapshot it
holds and that one's age, `call` what each of its requests or ticks is doing.
A call begins, reads the table if the snapshot is too old (or it is a tick),
puts what it read in the process's place, and asks; a load may fail, and a
release restarts the process.  Every gate is decided from the one snapshot, so
one gate stands for the list of them.

### Conflicts and records: ConflictGate, ConflictSearch, ConflictSync, PartyIndex, NonEngagementLetter, DocumentVersions, DocumentRequests, FirmTemplates, TaskListRuns

`ConflictGate` computes the gate from what a transaction reads and its own
writes and stores it at the commit, as `refreshMatterGate` does; checks of a
person are left out.  `behind` are the transactions under way that have not seen
the last commit, and `crossed` says that one of them was committed since the last
gate stored by one that saw everything; both only state the property.
`ConflictSync` is the keyset cursor on `(added_at, id)`; a row's `added_at` is when
its transaction began, in units finer than those the cursor keeps (`PerMilli` to
one), since a JavaScript `Date` cuts microseconds off.  In `PartyIndex` a merge is a
row that a search follows.  `ConflictSearch` is what a check makes of such an
index: the candidates the database is asked for, by letters, stored keys, first
telephone number and email address, cut at a limit in no order; comparison of
names part by part, contact details, linked
organisations, the strength of a hit in hundredths and what the hits amount to
under the firm's rules.  A name is a sequence of parts, and which parts are a
nickname, an initial, a typing error or the sound of one another is given, since
it is a matter of letters.  Its actions make the index grow, by the engine itself
or by another that stores no keys, which the worker adds later, and merge and link.
`DocumentVersions` holds the group row's lock for uploads, and nothing for
sign-offs; a file has the type its bytes and its name say, which decides whether
the upload is refused and how its extraction ends.  `DocumentRequests` has two steps for every
handler, load and commit, and the lawyer's decision that ends a client's chase,
which closes the request's task and leaves the item (`closed` remembers it).  `FirmTemplates` is the scheme five services share,
with `locks` telling whether the draft is locked when it is put in force.

### Time: ReplyClock, ChaseLadder, OverdueTasks, StallWatch, CourtNotice, MatterCalendar, MatterLifecycle

Each has an action by which time comes to the next point that matters (a
checkpoint, a due date, an hour) rather than a clock of minutes.  `sweep`,
`scan` and `taskScan` are what the worker's transaction has read.  `ReplyClock`
begins with the arithmetic of business hours, in whole hours, with a week,
holidays and one change of the clocks; `MatterCalendar` with the days a court's
rules compute, save steps of months and years.  Both walk over the calendar by
recursive functions, which TLC compares with plain counting, over a firm's weeks
with a clock change and over three weeks of a court (`BusinessTimeIsCounted`,
`QuietTimeEnds`, `CourtDaysAreCounted`, assumed in `MCClocks` and `MCOffice`).
In `MatterCalendar` confirming, moving, cancelling and re-dating the task are a
read and a write each: a lawyer may confirm a day that was changed meanwhile
(`overtaken`), and a task re-dated while its deadline was not confirmed may be
late (`loose`); the property says what holds all the same.

### Around all: NotificationOutbox, Permissions

`NotificationOutbox` splits a drain into claim, provider call and commit:
`copies` counts what the provider took, `lost` the takings a rollback made the
outbox forget.  Its delivery watch reads the oldest undelivered rows, passes over
those that are no failure (email turned off, a disabled account) and records the
others, with a flag where the firm has somebody to tell (`onDuty`, `told`).  `Permissions` has nine rights that stand for the rules the
catalogue of forty-odd rights tells apart, the overrides, roles and grants, and
one matter with its team, restriction, lawyer and ethical screens; deciding a
right is an operator over them, which the properties quantify over all rights,
resources and people.

## Runs

| Run | Asks | Bounds |
|---|---|---|
| `trust_close` | does a month close only on what every required role signed, and is every step one of `MonthBook` | two requests at a time, two months, two statements, two reconciliations, one entry |
| `booking` | may two people or the worker double-book, lose or split a consultation, or write to a person about one that is over | two requests (or a tick) at a time, three overlapping slots, two consultations, holds that run out |
| `limitation` | is verification independent, is history complete | two requests, two lawyers and a trained person, two versions, one verification, two days |
| `intake` | follow-up order, alerts that climb, holds given back, mail seen through, gates that follow their sign-offs | two requests, two ticks, two messages; two alerts; one slot; one email, two attempts, one lost copy; two emails before a watch that reads one; two reviewers, two calls, three writes |
| `clocks` | does what nobody acts on come before the people it must come before | two requests and a tick each; a firm with managers and one with owners alone; two or three points in time; a calendar of four-hour days |
| `records` | parties synchronised, versions numbered and indexed, set-up finished, task lists in order, dates that come near flagged | batches of two of three links, two instants to a millisecond; two versions, two uploads, three kinds of file; two attempts and one retry; four items; scans over two days |
| `matters` | is the gate deserved, decided once; details after the check; the search; review, assignment, scoring | two requests at a time everywhere; the gate once with one check and two decisions, once with two checks and one decision; two evaluations, two lawyers (three scored); three records, two merges, one link, a limit of two records, four searches |
| `office` | are the firm's own records, client money first, sound when two people change them over one another | three ledgers of two clients, amount 1, three entries, one hold; two months of two days, three statements, four postings, three entries, matches of two; two people, three records and two merges; two days with two people at the entry and no copy, or with a copy and one person; the checklist or the question of delivery; three users with their roles, three versions, two closings |
| `trust_close_skew` | (violated) two sign-offs at once leave a fully signed month open | one month |
| `recheck_refused` | (violated) the re-check a refused opening announces is rolled back with it | one item |
| `folded_entry` | (violated) the entry of a check leaves out a record folded in at second hand | three records, two merges |
| `cleared_twice` | (violated) two closed months clear one entry | two months |

Why these bounds are enough.  Every rule of these components compares at most
two requests, two rows or two dates: a lost update, a stale read and a write
skew each need two transactions and one row, a slot conflict two consultations,
"in order" two months, a correction of a correction three entries.  What is
proved (below) holds for every value of the bounds; where a property is only
checked, the bounds are one more than the number of things the rule relates
wherever TLC's time allows.  Deadlock is not checked where the bounds or the
code let a behaviour stop (no more consultations, dates or statements may be
made).

`InTimeNeverDoubleBooked` speaks of the consultations whose holds did not run
out under their own confirmation.  Without that condition the property fails:
`confirmConsultation` compares the clock it read with the hold's end
(`booking/service.ts:367`), the sweep may give the slot away before the
confirmation commits, and the confirmation's UPDATE names the status only.

`GateIsDeserved` is checked and proved for overlapping transactions.  It cannot
say that the stored gate is always deserved: `refreshMatterGate` reads what is
committed (`conflict-check/checks.ts:404`), and of two that cross each misses the
other's rows, so the second to commit may store a gate its checks do not allow.
It says that nothing else does, and that the next refresh which saw every commit
puts it right; without the condition on `crossed` TLC finds the two refreshes.

`NothingBehindTheBatchIsLost` leaves out what is behind a full batch of one
millisecond, where the code stands still; `FailuresAreFollowedUp` what is behind a
full watch of mail nobody wants; `NothingKnownIsMissed` who is behind the limit of
the search or cannot be searched for; `ReminderNeverSlips` a task re-dated while
its deadline was not confirmed; `RequestedIsOwed` an item whose chase a lawyer
closed; `ClosedMonthsTieToTheBank` asks one of its equations only of worksheets
that list no entry twice.  Each exception is a state the models reach and the code
has; they are among the disagreements below.


## Disagreements of the code with its own text

Four runs are expected to find a violation of what the repository says of
itself; the sentence is quoted in `PROJECT.json` under `findings`:

- `trust_close_skew`: a balanced reconciliation "closes the month once every
  required sign-off is recorded", but two sign-offs of different roles in
  concurrent transactions each find the other missing, and nobody is left to
  sign (`reconciliationService.ts:520`).
- `recheck_refused`: an opening that is refused says "A re-check has been
  requested"; the request is in the transaction that the refusal rolls back
  (`opening/service.ts:249`).
- `folded_entry`: "so the folded entry is complete", but one pass over the
  merges misses a record folded in at second hand (`partyIndex.ts:516`).
- `cleared_twice`: a preparation leaves out "transactions the bank already
  cleared in an earlier CLOSED reconciliation"; one prepared before the month
  before was closed, and signed after, does not (`reconciliationService.ts:520`).

More were met while modelling.  Where the module can state one, the property is
kept beside the others and no run lists it (names in parentheses).  Most of
these are behaviours of the models; none is ruled out by a property.

| Where | What the code may do |
|---|---|
| Trust close | an entry may commit between the sign-off's look and the close (`CloseCoversTheMonth`, `reconciliationService.ts:540`); the statement may be replaced between preparation and sign-off; a flag raised by a transaction that still saw the month open survives its close |
| Reconciliation | a match by hand that names a transaction twice counts it twice, though its refusal says "(or is used twice)" (`reconciliation.ts:349`): the lists are compared with those of other matches only, and nothing before them takes repeats out (`http.ts:156`); a statement replaced between preparation and the last sign-off leaves a month closed on the old one; the first closed month balances from an opening of nothing, whatever the bank had before |
| Gates | the wording shown may be one reviewer's own while another signed off the draft; a load that began earlier may put an older snapshot in the place of a newer one, for a minute at most |
| Trust ledger | a correction of a cushion withdrawal is compared with neither cap nor approval (`ledger.ts:389`, against `:16`); the cap is changed without the account's lock (`ledgerService.ts:178`, not modelled as a race) |
| Booking | a hold confirmed at its very end may be sold twice (`service.ts:367`); `previousWasNoShow` is never set, so every missed consultation sends an offer (`OneRebookOffer`, `service.ts:612`) |
| Limitation dates | a stale verification reopens a closed date (`service.ts:356`); "not applicable" may be said while a date is entered (`:132`) |
| Outbox | the delivery watch reads the oldest 200 rows without a record, and gives mail nobody wants none: behind 200 of those no failure is noticed until they are a month old (`delivery/service.ts:33`); in a firm with nobody to tell a failure is recorded and never told, also when somebody comes (`:46`); quiet hours are looked at on enqueue only; rows held for their wording are claimed again at every tick; a report that overtakes the drain's commit finds no row; an address the client changed is not looked up again (`SentToCurrentAddress`) |
| Emergency alerts | c66 section 4, "Intake questions pause", does not hold after two downgrades race or one races a raise (`SafetyPausesIntake`); two messages at once make two alerts; acknowledging one alert clears the flag of another; an alert with nobody to page has no timer; acknowledgement and tick lock in opposite orders |
| First response | two concurrent starts open two tasks; a message whose task was closed meanwhile fails; `contacted` may be overwritten; a tick may leave a task open or a flag up on one just closed |
| Reply clocks | re-tagging a message resolves the safety alert nobody saw (`UnseenAlertStaysOpen`, c44); a close by hand overwrites `replied`; the second of two concurrent first messages fails |
| Business hours | adding business days "agrees with addBusinessHours(start, days × hoursPerDay)" (`businessHours.ts:343`), but not from a start exactly at an opening: the one gives the day's opening, the other the close before |
| Chase ladder | reminders after an extension reuse the key of those sent (`RemindersReachTheClient`, c42); a stale resume or pause revives a stopped ladder; the decision task stays open when the client answers |
| Follow-up | safety is looked at before a sequence starts, not again when the message is delivered (`SafetyIsHeeded`) |
| Conversation | STOP ends the follow-up, not texting (`StopEndsTexting`, c65 rule 7); two first messages make two sessions; two answers at once lose one; changed names keep the old clear result |
| Conflict gate | lifting a screen does not refresh the gate; two refreshes that cross may leave it open wrongly until the next (`checks.ts:404`); two corrections at once both stand; a superseded decline does not restore the stage; a send that races a signature writes over it |
| Conflict sync | "Keyset cursor on (added_at, id): rows inserted in one transaction share added_at" (`sync.ts:239`), but the cursor went through a `Date` of milliseconds (`sync.ts:304`) and `added_at` has microseconds (`schema.ts:217`): the last rows of a batch are read again at the next tick, and a full batch of one millisecond is read for ever and holds up all behind it; a party whose row commits behind the cursor is never checked (`EveryNewPartyIsChecked`, c58); a matter closed and reopened between two ticks is not seen |
| Party index | merges of A into B and of B into A at once make a loop; a rejection that races a confirmation is overwritten |
| Conflict search | further telephone numbers are not searched for, further email addresses only as spelt in small letters (`partyIndex.ts:418`); 5000 candidates are read in no order and the rest left out (`:455`); a record of another engine is found by nickname or sound only once the worker has stored its keys (`:201`); parts of names are paired off greedily, which may spend the one part a nickname needed; links between organisations are kept by record and a merge hides them; an address or a date of birth alone brings up no candidate; a merge that brings another date of birth may turn a definite match into a possible one; the date of birth with the surname fixes 85 hundredths where the name with its 15 would be more |
| Acceptance, opening | two lawyers may decide one inquiry at once: the update asks for the id alone (`acceptance/service.ts:327`), so the later decision replaces the earlier, and an acceptance may follow a decline that was sent; a fee changed while a matter opens leaves the trust hand-off out; retry and tick at once make two hand-off tasks |
| Assignment | a run that finds nobody ends the assignment another run made and leaves the matter's lawyer set; a screen recorded during a run leaves the screened lawyer assigned; an assignment asks for intake's own blocks and not for ethical screens; `unassigned` flags are never resolved |
| Documents | the old approval request is not withdrawn on a new version (c41 section 4 step 4, `store/service.ts:229`); a sign-off that read the version earlier writes over `superseded`; two requests at once make two tasks |
| Requested documents | an upload that races an acceptance writes `received` over `accepted`; an acceptance that races a second upload accepts a file nobody saw; an item removed from a template is seeded again; a lawyer who ends the chase of a requested document closes its task (`ladder/service.ts:437`) while the item stays `requested`, which cannot be requested again |
| Templates | the kinds without a lock put a version retired meanwhile back in force; folder and checklist versions may share a number |
| Task lists | a release that races a cancel leaves a task on a skipped item |
| Lifecycle | an abandonment that races a completion leaves a closed matter with an open lifecycle; a stale one reopens while another closing runs |
| Calendar | a confirmation asks for the status alone (`calendar/service.ts:155`) and so confirms a day the entry was moved to meanwhile; "may not be moved past its linked court deadline" (`overdue/plan.ts:130`, c45 rule 10), but a task re-dated while its deadline was not confirmed, or over a move or a confirmation, is late when the deadline is confirmed; a stale reschedule revives a cancelled entry without its task; a clerk's stale cancellation ends a confirmed deadline; an outbound copy may show a date nobody stood behind without its mark (`PlainDatesAreConfirmed`, `sync.ts:16`); held links are not tried again |
| Court mail | concurrent filings leave the alert with the first matter's lawyer; a filing that races a dismissal revives the notice with its alert closed; two acceptances make two entries |
| Overdue, stall | a scan that races a hand-over, new date or closing leaves a stale flag; a stale check-back revives a cleared episode |
| Letters | a stale approval writes `approved` over `sent`; decision and sync may start two letters; a late bounce overwrites a posted letter's status |
| Rights | two owners who revoke each other at once leave none (`Permissions` takes one change after another, see its header); a restricted matter keeps a team "or nobody could open it" (`permissions/service.ts:434`), yet intake's block of its last lawyer leaves nobody, and a team of screened people is counted as one (`:434`, `:488`), though a screen keeps each of them out |
| Worker | a tick takes the oldest due rows up to a batch; rows that always fail stay oldest and starve the rest (`tick.ts:54`; not modelled) |
## Fairness

Safety properties assume none.  Each liveness property is under its component's
`Fairness`, which assumes of the program only what its worker does:

- the worker ticks every minute and runs every hook at every tick
  (`worker/tick.ts`, `hooks.ts`), so what is due and stays free is taken (weak
  fairness), and what is free now and then is taken in the end (strong fairness,
  where the claim is `FOR UPDATE SKIP LOCKED`, or the UPDATE queues for a row);
- a transaction begun ends (each statement returns), with a commit or a failure;
- a handler does not fail for ever: `<>[]~Fails`, or strong fairness of its
  success.  Without it nothing retried can be shown to happen;
- time passes, up to the model's last point in time;
- a load of sign-offs that began ends, and so does the call it is for; nobody has
  to begin one (`Approvals`).

Nothing is assumed of people: no request is ever bound to be made; one that was
begun ends.  In the modules with several components the fairness is stated per
component under its `focus`, which changes nothing (`focus` is constant) and
spares TLC from asking about the others.


## Proofs

TLC settles a property for the bounds above; the theorems hold for every value
of the constants.  What they assume is the named assumption of the component
(`...Assumption`: bounds are natural numbers, a finite staff, days that may end
a month, and the like), which TLC evaluates in a run on the instance it checks.
Where a theorem needs no assumption it has none: most components' bounds are
only guards.  Each theorem is `Spec => []P` or `Spec => [][A]_vars`, from an
inductive invariant; the last step joins initial states, steps and conclusion.
The invariants carry what a request in progress has read and what the rows may
have become since; that is where these proofs have their weight.

| Module | Theorem | Inductive invariant, and why it is needed |
|---|---|---|
| `OfficeProofs` | `TypeCorrect`, `HeldMoneyStaysBacked` | `TypeOK` with the property: an entry checks the balance after it and, for money out, what is held; a hold checks the balance; a release only lowers `held` |
| | `ReversalsStayExact` | `ReversalInv`: that an entry which names a reversed one is a reversal, and names an earlier row |
| | `ClosedBooksStayFrozen` | an action property: the journal only grows, by entries dated after the last closed day |
| | `BookStaysSumOfLedgers`, `ClientMoneyStaysItsOwn` | `SumInv`: besides, that the lines of every entry add up to what it says it moved.  The sums are folds; the lemmas on them (adding an element, changing one value) are in `CommonLemmas` |
| | `ClosedMattersEarnedIt` | `LifeInv`: a closing somebody read stays in the table, and one found complete stays so, as no confirmation or finished checklist is taken back |
| | `SetupsStayReviewed` | `SetupInv`: a locked draft is a draft until its activation commits, no two activations have the same draft, and what was in force was activated |
| | `LettersStayOnAList` | `LetterInv`: whoever sends or posts found the letter approved, and no approval is taken back |
| | `ConfirmedDatesStayConfirmed` | `CalInv`: also a deadline still to be confirmed has its reminder on that day or earlier, unless it is `loose`, or confirming it would put one late; what a lawyer who is confirming has read is the entry's day unless it was moved since, and a re-dating that read a confirmed day asks for none later.  `CourtInv`: types, and that nobody decides before the email is there |
| | `RequestsStayFollowedUp` | `ReqInv`: requesting an item opens a task, and whatever closes the last one takes the item out of `requested` or is the lawyer's decision; received and accepted rows have their file, files stay with their rows, and so what an acceptance found still has one when it commits |
| | `RightsKeepTheFloor` | `RightsInv`: with the roles well typed the floor of owners and rights is inductive, the staff being finite.  `AccessInv`: a restricted matter has somebody on its team, unless intake took its lawyer away; restricting asks for a member, and the last one is not removed.  That the restriction shuts out nobody of the team follows from the rules of the decision |
| | `MonthsStayTied` | `MonthInv`: a worksheet, however old, says what is true of the entries it reached (its matches add up, its pairs cancel, what it cleared is apart from what was cleared before it), and a closed month's knew every entry of the month, for entries are dated after the last close.  Journal and statement are sums over disjoint families (`CommonLemmas`); a line that is matched twice would have a least one.  That one month's opening balance is the closing of the one before follows from these sums, the code compares them nowhere, and where a match lists an entry twice they do not give it |
| | `DuplicatesStayTogether` | `PartyInv`: a confirmation in progress names the two records of its suggestion, in either order.  That a check finds every record of a chain in one entry is no induction over the length of the chain but a least counterexample: the chain and the pass over the merges are functions on 0 .. n, the least step at which they part is not the first, and at the one before they agree |
| `TrustCloseProofs` | `MonthsCloseFullySigned` | `SignedInv`: roles that signed stay, so a set that a read found complete is complete at the commit, whatever committed in between |
| | `CloseImplementsMonthBook` | `BookInv`: one transaction at a time has the book's row, from its look at the closes to its commit, so what it saw of them is still true.  Each step is then one of `MonthBook` or leaves its variables alone |
| `ConsultBookingProofs` | `BookingsStayConsistent` | `BookInv`: one request at a time has a consultation's row, and from its UPDATE to its commit the status is the one it read; `TimerInv`: what a tick has claimed is pending, claimed by it alone and of no consultation a request has silenced, so a claimed timer keeps its consultation booked until the tick commits |
| | `InTimeIsNeverDoubleBooked` | `TimeInv`: nothing that takes up time clashes, nor with the slot a request that has the calendar found free; one request has a lawyer's calendar; the clock it read is not later than the clock |
| `LimitationDatesProofs` | `VerificationIsIndependent` | `ReadInv`: what a request read is the row or an older version of it, and a version has one date |
| | `ChangesStayTheHistory` | `HistoryInv`: the changes lead, one from each version to the next, to the row's version and date |
| `ConflictGateProofs` | `GateInvariant`, `OneDecisionGetsThrough` | `GateInv`: a check has an open task just until it is decided; whoever completes the task decides |
| | `GateIsDeservedUnlessCrossed` | `DeservedInv`: a transaction that is not `behind` stores the gate of what is committed with what it writes itself, or writes what closes no gate; what one that is `behind` commits is `crossed` |
| `MatterProofs` | `TheStoredGateIsDeserved` | the same, of the two instances the run checks |
| | `BorderlineStaysBeforeALawyer` | `FitInv`: a decision in progress is about an evaluation that is there and borderline; that a decision is recorded in the step that takes its review off the list does the rest, whoever decided before |
| | `DetailsStayBehindTheCheck` | `TalkInv`: a request that will write details was let through, and what let it through (disclosures, a clear result about names given) is remembered for good |
| | `AssigneesStayOfRecord` | `AssignInv`: the property itself with what a request has read; it is inductive because the rows and `matters.assigned_user_id` are written in an order that keeps it |
| | `NobodyIsPassedOverButOnATie` | none: the winner is what the lawyers' numbers make it.  Rounding and the cadence only ever move with the numbers, so whoever is as good in each has no smaller total, and a total that is no smaller loses only by what breaks a tie |
| `WorkerProofs` | `MessagesGoOutOnce`, `StopEndsTheSequence` | `SeqInv`: a tick that takes a step has its timer, alone, and the step is still the next one; one taken after a STOP finds the person not to be written to |
| | `TaskListsKeepTheirOrder` | `ListInv`: what the worker has read and will release has no task yet, and what it depends on is finished; an item the run lost to a cancellation stays out of it |
| | `UnansweredMessagesAreWatched` | `ReplyInv`: who locks a clock has the open one and has it alone; a sweep's clock is open; a stopped clock is quiet |
| | `EmergenciesAreFollowedUp` | `EmgInv`: a tick holds the timer of an alert that is as it read it, alone, and against acknowledgement and downgrade |
| | `CopiesStayAccountedFor`, `ReportsStayWritten` | `OutInv`: a drain holds rows still to be sent, alone, and whatever it will not write as sent has no copy unaccounted for |
| | `NobodyIsPassedOver` | `SyncInv`: what a running sync has read is there and stays, and whoever was there in time and is not in the batch comes after all of it |
| | `VersionsStayConsecutive` | `DocInv`: at most one upload has the group, and it appends to the versions it read |
| | `OpenGatesWereSignedOff` | `GateInv`: what a call has read, and what the process goes by, is the table of one moment, for a tick none earlier than the tick; writes made later leave the past as it was |

`CommonLemmas` has what stands in for induction: a set of natural numbers has a
least element, a bounded one a greatest, and a nonempty family of finite sets a
minimal one; a claim about all sums is proved from a smallest counterexample.
Sums over a disjoint union, and over a disjoint family of sets, are what a
statement's lines and a month's entries need.

The theorems of `MatterProofs` and `OfficeProofs` are about the very properties
and specifications the runs `matters` and `office` check (`MatterSpec => []P`,
`OfficeSpec => []P`), with every bound and every set of people left open.  A
component's invariant is proved for the component, and lifted: a step of the
joint specification is a step of the component in `focus` and leaves the
variables of the others alone, and outside its `focus` a component stays in its
initial state.  `WorkerProofs` states its components' own properties: the
runs' properties (`AlertsClimbUntilTaken`, say) join them with liveness, which
is not proved.  `OpenGatesWereSignedOff` is likewise the safety of
`ApprovalsAreFollowed`.  Two of the theorems state what no run lists:
`StopEndsTheSequence` (`FollowUp`'s property of that name) and `ReportsStayWritten`
(`NotificationOutbox`'s `ReportsAreKept`).

### Only model-checked

- Liveness, everywhere: `AlertsClimbUntilTaken`, `HoldsAreGivenBack`,
  `MailIsSeenThrough`, `ApprovalsAreFollowed` (`ClosesForGood`), `RepliesAreWatched`
  (`MissedPromiseIsTold`), `UnansweredReachesOwners`, `ChaseComesToALawyer`,
  `ForgottenWorkIsTold` (`LapsedTasksReachAnAdmin`, `StuckWorkIsTold`),
  `CourtMailReachesOwners`, `DocumentsSettle` (`IndexingSettles`),
  `HandedOnWorkGoesOn` (`SetupSettles`, `ReadyIsReleased`) and `ScansSeeThrough`;
  where one joins safety with liveness, the safety is proved in `WorkerProofs`.
  The prover has no rule for `ENABLED`.
- `NobodyBetterIsPassedOver` of `AssignmentScoring`: that the winner over a
  lawyer as good in everything is as good in return.  It holds of the small
  numbers of the run only: scores are rounded, and large ones may tie two
  lawyers who differ.  What holds of all numbers is proved: such a lawyer is
  passed over only when everything that is compared is tied.
- `NothingKnownIsMissed` of `ConflictSearch`, which the run checks under the same
  name: what a check must find is said of given pairs of parts and an index that
  has grown, and the search compares names by walking along them.
- What the walks over business hours and court days compute (recursive functions
  over unbounded time), compared with counting by assumption.
- That the close covers the month and the other
  sentences of the table of disagreements are not true of the code, so there is
  nothing to prove.

## Not modelled

The parts marked `not_modelled` in `PROJECT.json`: arithmetic without state
(invoices, report hashes), parsing (the text of statements and feeds), generated
or declarative code, the pages, and authentication.  Within modelled parts:
descriptive fields, audit rows, texts; what single letters make of two parts of a
name (given); rule steps of months and years; retainer floors of the ledger (no
caller sets one); laterals' attestations and the import of a firm's history, of
which two at once may lose a matter's current status; changes made in an outside
calendar; practice-area packs; legal holds; who may call an operation, save where
it is the point.  PostgreSQL is taken as documented (READ COMMITTED, unique
indexes, row and advisory locks), and so are clocks.

## Plan

1. Laterals: an entry added while its list is being attested, and two refreshes
   at once, as a module of its own beside `ConflictGate`.
2. `TrustPosting`: postings, holds and cap changes as transactions with the
   account's lock and triggers, shown to implement `TrustLedger`.
3. `WorkerTick`: the batch that starves, with `FollowUp` and `ConsultBooking`
   as its handlers.
4. The chain of report hashes over the months of `Reconciliation`.
5. Proofs: safety of `SpeedToLead`, `OverdueTasks` and `StallWatch` (what a
   stale scan may leave behind).
