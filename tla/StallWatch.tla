----------------------------- MODULE StallWatch -----------------------------
(***************************************************************************)
(* The hourly sweep that finds work nothing else watches and nobody moved: *)
(* the episode it opens, the check-back date a person gives, and the flag  *)
(* that returns (src/src/engines/calendar-alerts/stall/service.ts,         *)
(* plan.ts).                                                               *)
(*                                                                         *)
(* The sweep reads items and episodes without a lock and writes later; so  *)
(* does the person who sets a check-back date, and their writes have no    *)
(* guard on what the episode has become.                                   *)
(***************************************************************************)
EXTENDS Naturals, Sequences

CONSTANTS
    Stages,      \* the stages of the item
    People,      \* who may set a check-back date
    Expected,    \* stallDurationFor: how long a stage may take
    MaxDays,     \* how far ahead a check-back date may lie
    MaxEpisodes, \* bound: the episodes ever opened for the item
    LastHour     \* bound: the last hour of the clock

StallAssumption ==
    /\ Stages # {} /\ Expected \in Nat \ {0} /\ MaxDays \in Nat \ {0}
    /\ MaxEpisodes \in Nat \ {0} /\ LastHour \in Nat

VARIABLES
    hour,
    item,    \* the item: waiting or not, its stage, its last activity, an open task on it
    watches, \* the stall_watches rows of the item
    open,    \* its stalled flag is open
    sweep,   \* what the running sweep read and decided
    asks     \* per person, the check-back date being set and the episode as read

vars == <<hour, item, watches, open, sweep, asks>>

None == 0
Idle == [on |-> FALSE]

Init ==
    /\ hour = 0
    /\ item \in [waiting: {TRUE}, stage: Stages, activity: {0}, elsewhere: BOOLEAN]
    /\ watches = <<>>
    /\ open = FALSE
    /\ sweep = Idle /\ asks = [u \in People |-> Idle]

HourPasses ==
    /\ hour < LastHour
    /\ hour' = hour + 1
    /\ UNCHANGED <<item, watches, open, sweep, asks>>

-----------------------------------------------------------------------------
(* The item, as loadStallCandidates sees it.                               *)

Touch(to) ==
    /\ item' = to
    /\ UNCHANGED <<hour, watches, open, sweep, asks>>

MoveItem(stage) == item.waiting /\ stage # item.stage /\ Touch([item EXCEPT !.stage = stage, !.activity = hour])
NewActivity == item.waiting /\ item.activity < hour /\ Touch([item EXCEPT !.activity = hour])
FinishItem == item.waiting /\ Touch([item EXCEPT !.waiting = FALSE])
\* A task on the item is opened or closed: another rule watches it, or no more.
TaskComesOrGoes == item.waiting /\ Touch([item EXCEPT !.elsewhere = ~@])

Stuck(i) == hour - i.activity >= Expected

-----------------------------------------------------------------------------
(* The sweep.                                                              *)

\* stall_watches_one_live_per_item.
LiveWatches == {i \in DOMAIN watches : watches[i].status # "cleared"}
LiveWatch == IF LiveWatches = {} THEN None ELSE CHOOSE i \in LiveWatches : TRUE

\* Seeded bug: a check-back date is never looked at again.
DecideStallOnce(i, w) ==
    IF w = None
    THEN IF i.waiting /\ ~i.elsewhere /\ Stuck(i) THEN "flag" ELSE "none"
    ELSE IF ~i.waiting \/ i.stage # watches[w].stage \/ i.activity > watches[w].activity THEN "clear"
         ELSE "none"

DecideStall(i, w) ==
    IF w = None
    THEN IF i.waiting /\ ~i.elsewhere /\ Stuck(i) THEN "flag" ELSE "none"
    ELSE CASE ~i.waiting \/ i.stage # watches[w].stage \/ i.activity > watches[w].activity -> "clear"
           [] watches[w].status = "check_back" /\ hour >= watches[w].checkBack -> "reflag"
           [] OTHER -> "none"

SweepReads ==
    LET decision == DecideStall(item, LiveWatch)
    IN  /\ ~sweep.on /\ decision # "none"
        /\ decision = "flag" => Len(watches) < MaxEpisodes
        /\ sweep' = [on |-> TRUE, item |-> item, watch |-> LiveWatch, decision |-> decision]
        /\ UNCHANGED <<hour, item, watches, open, asks>>

\* clearWatch; a flag a person resolved already is left alone.
ClearWatch ==
    /\ sweep.on /\ sweep.decision = "clear"
    /\ watches' = [watches EXCEPT ![sweep.watch].status = "cleared"]
    /\ open' = (open /\ ~watches[sweep.watch].flagged)
    /\ sweep' = Idle
    /\ UNCHANGED <<hour, item, asks>>

\* raiseAlert finds the item's open flag by its key; an episode that is live
\* meanwhile takes the place of the new one.
FlagItem ==
    /\ sweep.on /\ sweep.decision = "flag"
    /\ open' = TRUE
    /\ watches' = IF LiveWatches # {} THEN watches
                  ELSE Append(watches, [status |-> "flagged", stage |-> sweep.item.stage,
                                        activity |-> sweep.item.activity, checkBack |-> None, flagged |-> TRUE])
    /\ sweep' = Idle
    /\ UNCHANGED <<hour, item, asks>>

ReflagAfterCheckBack ==
    /\ sweep.on /\ sweep.decision = "reflag"
    /\ open' = TRUE
    /\ watches' = [watches EXCEPT ![sweep.watch].status = "flagged", ![sweep.watch].checkBack = None,
                                  ![sweep.watch].flagged = TRUE]
    /\ sweep' = Idle
    /\ UNCHANGED <<hour, item, asks>>

-----------------------------------------------------------------------------
(* "Waiting on the court until Oct 10."                                    *)

\* setCheckBack and its validateCheckBack: a later date within the horizon.
ReadToCheckBack(u, date) ==
    /\ ~asks[u].on /\ LiveWatch # None
    /\ date > hour /\ date - hour <= MaxDays
    /\ asks' = [asks EXCEPT ![u] = [on |-> TRUE, watch |-> LiveWatch, date |-> date]]
    /\ UNCHANGED <<hour, item, watches, open, sweep>>

\* Its update would make a second live episode of the item: the unique index refuses it.
SetCheckBack(u) ==
    /\ asks[u].on
    /\ asks' = [asks EXCEPT ![u] = Idle]
    /\ LET w == asks[u].watch
       IN  IF LiveWatches \subseteq {w}
           THEN /\ watches' = [watches EXCEPT ![w].status = "check_back", ![w].checkBack = asks[u].date,
                                              ![w].flagged = FALSE]
                /\ open' = (open /\ ~watches[w].flagged)
           ELSE UNCHANGED <<watches, open>>
    /\ UNCHANGED <<hour, item, sweep>>

Next ==
    \/ HourPasses
    \/ \E stage \in Stages : MoveItem(stage)
    \/ NewActivity \/ FinishItem \/ TaskComesOrGoes
    \/ SweepReads \/ ClearWatch \/ FlagItem \/ ReflagAfterCheckBack
    \/ \E u \in People, date \in 1..LastHour : ReadToCheckBack(u, date)
    \/ \E u \in People : SetCheckBack(u)

\* The clock goes on, the sweep comes every hour and ends, and a request ends.
Fairness ==
    /\ WF_vars(HourPasses) /\ WF_vars(SweepReads)
    /\ WF_vars(ClearWatch) /\ WF_vars(FlagItem) /\ WF_vars(ReflagAfterCheckBack)
    /\ \A u \in People : WF_vars(SetCheckBack(u))

Spec == Init /\ [][Next]_vars /\ Fairness

-----------------------------------------------------------------------------
TypeOK ==
    /\ hour \in 0..LastHour
    /\ item.stage \in Stages /\ item.activity \in 0..LastHour
    /\ \A i \in DOMAIN watches :
           /\ watches[i].status \in {"flagged", "check_back", "cleared"}
           /\ watches[i].checkBack \in 0..LastHour
    /\ \A i, j \in LiveWatches : i = j

\* However sweeps and check-back dates overlap, work that stays stuck and that
\* no other rule watches is before the owner in the end, while there is an
\* episode left to open: a check-back date puts it off and does not put it
\* away (decideStall, setCheckBack).
StuckWorkIsTold ==
    <>[](item.waiting /\ ~item.elsewhere /\ Stuck(item)) =>
        <>[](open \/ (LiveWatch = None /\ Len(watches) = MaxEpisodes))
=============================================================================
