---------------------------- MODULE DropReports ----------------------------
(***************************************************************************)
(* What OnError is told of dropped records (sender.go, errors.go): the     *)
(* summaries the sender makes when it looks at the counters, the ticker    *)
(* that paces them, and the totals Close ends with. Anybody may drop a     *)
(* record at any time, also while a callback runs, Close's own included.   *)
(*                                                                         *)
(* Time is in ticks, and relative: `since` is time.Since(lastDropReport),  *)
(* `left` the time to the ticker's next fire. A sender that waits serves   *)
(* what is ready before time passes; when it works, or runs a callback,    *)
(* any time may pass.                                                      *)
(***************************************************************************)
EXTENDS Integers

CONSTANTS
    Reasons,   \* the DropReasons that are summarised
    Leftover,  \* the reason of the records still queued when Close counts them
    Interval,  \* dropReportInterval
    Setup,     \* bounds the time newSender takes between the ticker and its clock reading
    MaxDrops   \* bounds each counter

ASSUME DropReportsAssumption ==
    /\ Leftover \in Reasons
    /\ Interval \in Nat \ {0} /\ Setup \in 0..(Interval - 1)
    /\ MaxDrops \in Nat

VARIABLES
    spc,       \* the sender: in a select, at work, in a callback, or gone
    back,      \* where it goes on after a report
    since, left,
    fired,     \* the ticker's channel holds a value
    dropped,   \* [Reasons -> Nat], the counters of Stats
    reported,  \* [Reasons -> Nat], the sender's snapshot of its last report
    cur,       \* [Reasons -> Nat], the snapshot of the report being made
    untold,    \* reasons whose summary is still to be delivered
    queued,    \* some record is left in the queue
    cpc,       \* Close: still to read the totals, telling of them, or returned
    final,     \* [Reasons -> Nat], the totals of the closing summary
    owed,      \* reasons whose total is still to be delivered
    \* history, for the properties only
    told,      \* [Reasons -> records in the summaries delivered]
    first      \* no report has been made yet

clockVars == <<since, left, fired>>
reportVars == <<reported, cur, untold, told, first>>
closeVars == <<queued, cpc, final, owed>>
vars == <<spc, back, clockVars, dropped, reportVars, closeVars>>

Waiting == {"select", "handOff"}
Counts == [Reasons -> Nat]
Zero == [r \in Reasons |-> 0]

Init ==
    /\ spc = "select" /\ back = "select"
    /\ since = 0 /\ left \in (Interval - Setup)..Interval /\ fired = FALSE
    /\ dropped = Zero /\ reported = Zero /\ cur = Zero /\ untold = {}
    /\ queued \in BOOLEAN /\ cpc = "open" /\ final = Zero /\ owed = {}
    /\ told = Zero /\ first = TRUE

\* A record is dropped, by whoever.
Drop(r) ==
    /\ dropped[r] < MaxDrops
    /\ dropped' = [dropped EXCEPT ![r] = @ + 1]
    /\ UNCHANGED <<spc, back, clockVars, reportVars, closeVars>>

\* Time passes. A fire into a full channel is lost.
Tick ==
    /\ spc # "gone" /\ ~(spc \in Waiting /\ fired)
    /\ since' = IF since < 2 * Interval THEN since + 1 ELSE since
    /\ left' = IF left = 1 THEN Interval ELSE left - 1
    /\ fired' = (fired \/ left = 1)
    /\ UNCHANGED <<spc, back, dropped, reportVars, closeVars>>

-----------------------------------------------------------------------------
(* maybeReportDrops and its three callers.                                 *)

\* The ticker after a report, and the one that is left in its old phase.
Phased == left
Rephased == Interval

\* The look at the counters, with a value left in the channel or not: Reset
\* drops a stale one or not, as the runtime's version has it.
MaybeReportDrops(ready, next) ==
    \/ /\ since < Interval
       /\ spc' = next /\ fired' = ready
       /\ UNCHANGED <<back, since, left, reportVars>>
    \/ /\ since >= Interval
       /\ since' = 0 /\ left' = Rephased /\ fired' \in {ready, FALSE}
       /\ cur' = dropped
       /\ untold' = {r \in Reasons : dropped[r] > reported[r]}
       /\ first' = FALSE
       /\ spc' = "report" /\ back' = next
       /\ UNCHANGED <<reported, told>>

\* The states of the sender in which it receives from the ticker.
ServedIdle == {"select"}
Served == Waiting

TickServed ==
    /\ spc \in Served /\ fired
    /\ MaybeReportDrops(FALSE, spc)
    /\ UNCHANGED <<dropped, closeVars>>

\* One summary is delivered. The callback returns when it likes: time may
\* pass, and records be dropped, before the next step.
Tell(r) ==
    /\ spc = "report" /\ r \in untold
    /\ untold' = untold \ {r}
    /\ told' = [told EXCEPT ![r] = @ + (cur[r] - reported[r])]
    /\ UNCHANGED <<spc, back, clockVars, dropped, reported, cur, first, closeVars>>

\* What the next report is counted from.
Reloaded == dropped
Snapshot == cur

ReportEnds ==
    /\ spc = "report" /\ untold = {}
    /\ reported' = Snapshot
    /\ spc' = back
    /\ UNCHANGED <<back, clockVars, dropped, cur, untold, told, first, closeVars>>

-----------------------------------------------------------------------------
(* The sender between its reports.                                         *)

Work ==
    /\ spc = "select"
    /\ spc' = "work"
    /\ UNCHANGED <<back, clockVars, dropped, reportVars, closeVars>>

\* A flush that dispatched its batch ends with a look, and a drain goes on with
\* the next batch.
FlushEnds ==
    /\ spc = "work"
    /\ \E next \in {"select", "work"} : MaybeReportDrops(fired, next)
    /\ UNCHANGED <<dropped, closeVars>>

\* One that had nothing to dispatch, or failed to pack it, does not look.
FlushWithoutLook ==
    /\ spc = "work"
    /\ spc' = "select"
    /\ UNCHANGED <<back, clockVars, dropped, reportVars, closeVars>>

HandOffWaits ==
    /\ spc = "work"
    /\ spc' = "handOff"
    /\ UNCHANGED <<back, clockVars, dropped, reportVars, closeVars>>

HandOffEnds ==
    /\ spc = "handOff"
    /\ spc' = "work"
    /\ UNCHANGED <<back, clockVars, dropped, reportVars, closeVars>>

\* run returns: the sender is gone, with whatever its last look left untold.
Exit ==
    /\ spc \in {"select", "work"}
    /\ spc' = "gone"
    /\ UNCHANGED <<back, clockVars, dropped, reportVars, closeVars>>

-----------------------------------------------------------------------------
(* Close, once the sender is gone.                                         *)

\* It counts the records it still finds in the queue ...
CountLeftover ==
    /\ spc = "gone" /\ cpc = "open" /\ queued
    /\ queued' = FALSE
    /\ dropped' = [dropped EXCEPT ![Leftover] = @ + 1]
    /\ UNCHANGED <<spc, back, clockVars, reportVars, cpc, final, owed>>

\* ... reads the totals ...
ReportFinalDrops ==
    /\ spc = "gone" /\ cpc = "open" /\ ~queued
    /\ cpc' = "telling"
    /\ final' = dropped
    /\ owed' = {r \in Reasons : dropped[r] > 0}
    /\ UNCHANGED <<spc, back, clockVars, dropped, reportVars, queued>>

\* ... delivers them one by one, while Enqueue goes on refusing records ...
TellFinal(r) ==
    /\ cpc = "telling" /\ r \in owed
    /\ owed' = owed \ {r}
    /\ UNCHANGED <<spc, back, clockVars, dropped, reportVars, queued, cpc, final>>

\* ... and returns.
FinalEnds ==
    /\ cpc = "telling" /\ owed = {}
    /\ cpc' = "closed"
    /\ UNCHANGED <<spc, back, clockVars, dropped, reportVars, queued, final, owed>>

-----------------------------------------------------------------------------
Next ==
    \/ \E r \in Reasons : Drop(r) \/ Tell(r) \/ TellFinal(r)
    \/ Tick \/ TickServed \/ ReportEnds
    \/ Work \/ FlushEnds \/ FlushWithoutLook \/ HandOffWaits \/ HandOffEnds \/ Exit
    \/ CountLeftover \/ ReportFinalDrops \/ FinalEnds

\* Time passes; callbacks return; a select that finds the ticker ready
\* again and again takes it some time, and not every flush of an endless drain
\* fails to pack. Nothing says that a hand-off ends,
\* that records arrive, or that the client is ever closed.
Fairness ==
    /\ WF_vars(Tick) /\ SF_vars(TickServed)
    /\ \A r \in Reasons : WF_vars(Tell(r)) /\ WF_vars(TellFinal(r))
    /\ WF_vars(ReportEnds)
    /\ SF_vars(FlushEnds)
    /\ WF_vars(CountLeftover) /\ WF_vars(ReportFinalDrops) /\ WF_vars(FinalEnds)

Spec == Init /\ [][Next]_vars
FairSpec == Spec /\ Fairness

-----------------------------------------------------------------------------
(* Properties.                                                             *)

\* Every variable keeps its shape (sender.go:36-58).
TypeOK ==
    /\ spc \in {"select", "work", "handOff", "report", "gone"}
    /\ back \in {"select", "work", "handOff"}
    /\ since \in 0..(2 * Interval) /\ left \in 1..Interval
    /\ fired \in BOOLEAN
    /\ dropped \in Counts /\ reported \in Counts /\ cur \in Counts
    /\ untold \subseteq Reasons
    /\ queued \in BOOLEAN /\ cpc \in {"open", "telling", "closed"}
    /\ final \in Counts /\ owed \subseteq Reasons
    /\ told \in Counts /\ first \in BOOLEAN

\* A sender that waits, with no tick to serve, has looked at the counters within
\* the interval
\* (client.go:64-71), however flush-driven reports, stale ticks and ticks that
\* come too early to report follow each other (sender.go:307-325). Only the
\* first interval may be stretched, to less than two: newSender starts the
\* ticker before it reads the clock, so the first tick comes too early.
Fresh ==
    spc \in Waiting /\ ~fired =>
        IF first THEN since < 2 * Interval ELSE since < Interval

\* The summaries of a reason add up to its counter as of the last report: no
\* drop is summarised twice, and none that was counted while a callback ran is
\* skipped (sender.go:330-355).
ToldOnce ==
    \A r \in Reasons :
        /\ told[r] <= dropped[r]
        /\ spc # "report" => told[r] = reported[r]
        /\ spc = "report" => told[r] = IF r \in untold THEN reported[r] ELSE cur[r]

\* Every record dropped before Close reads the totals is told of: in a summary,
\* also when nothing flushes or the sender is wedged in a hand-off for good, or in
\* a total that Close delivers (sender.go:49-54, 511-529). The exception is a record
\* that Enqueue refuses after the totals are read, Close still in its callbacks:
\* Stats counts it and OnError is told of it nowhere (client.go:694-701).
DropsSurface ==
    \A r \in Reasons : \A k \in 1..MaxDrops :
        dropped[r] >= k /\ cpc = "open" ~>
            told[r] >= k \/ (final[r] >= k /\ r \notin owed)
=============================================================================
