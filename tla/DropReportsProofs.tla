------------------------- MODULE DropReportsProofs -------------------------
(***************************************************************************)
(* Type correctness of the drop summaries, and the two safety properties   *)
(* of them, Fresh and ToldOnce, for any set of reasons, any interval and   *)
(* any number of drops.                                                    *)
(***************************************************************************)
EXTENDS DropReports, TLAPS

\* The ticker keeps the phase of the last report: it fires as the interval ends,
\* and only a served tick takes the fire away. Before the first report it may
\* run ahead of the clock by Setup, and a tick be wasted.
Paced ==
    /\ first /\ ~fired => since + left < 2 * Interval
    /\ ~first /\ since < Interval => since + left = Interval
    /\ ~first /\ since >= Interval => fired

\* A report under way tells of no more than was dropped.
Reporting == spc = "report" => \A r \in Reasons : cur[r] <= dropped[r]

IInv == TypeOK /\ Paced /\ Reporting /\ ToldOnce

LEMMA IntervalType == Interval \in Nat /\ Interval > 0 /\ Setup \in 0..(Interval - 1)
BY DropReportsAssumption

LEMMA InitHolds == Init => IInv
<1> SUFFICES ASSUME Init PROVE IInv
  OBVIOUS
<1>1. Zero \in Counts /\ \A r \in Reasons : Zero[r] = 0
  BY DEF Zero, Counts
<1>2. TypeOK
  <2>1. since \in 0..(2 * Interval) /\ left \in 1..Interval
    BY IntervalType DEF Init
  <2> QED BY <1>1, <2>1 DEF Init, TypeOK
<1>3. Paced
  BY IntervalType DEF Init, Paced
<1>4. Reporting /\ ToldOnce
  BY <1>1 DEF Init, Reporting, ToldOnce
<1> QED BY <1>2, <1>3, <1>4 DEF IInv

-----------------------------------------------------------------------------
(* The counters and the clock.                                             *)

LEMMA DropStep ==
    ASSUME IInv, NEW k \in Reasons, Drop(k) PROVE IInv'
<1>1. /\ dropped' \in Counts
      /\ \A r \in Reasons : dropped[r] <= dropped'[r]
  BY DEF Drop, IInv, TypeOK, Counts
<1>2. TypeOK'
  BY <1>1 DEF Drop, IInv, TypeOK, clockVars, reportVars, closeVars
<1>3. Paced'
  BY DEF Drop, IInv, Paced, clockVars, reportVars
<1>4. Reporting' /\ ToldOnce'
  BY <1>1 DEF Drop, IInv, TypeOK, Counts, Reporting, ToldOnce, reportVars
<1> QED BY <1>2, <1>3, <1>4 DEF IInv

LEMMA CountLeftoverStep ==
    ASSUME IInv, CountLeftover PROVE IInv'
<1>1. /\ dropped' \in Counts
      /\ \A r \in Reasons : dropped[r] <= dropped'[r]
  BY DropReportsAssumption DEF CountLeftover, IInv, TypeOK, Counts
<1>2. TypeOK'
  BY <1>1 DEF CountLeftover, IInv, TypeOK, clockVars, reportVars
<1>3. Paced'
  BY DEF CountLeftover, IInv, Paced, clockVars, reportVars
<1>4. Reporting' /\ ToldOnce'
  BY <1>1 DEF CountLeftover, IInv, TypeOK, Counts, Reporting, ToldOnce, reportVars
<1> QED BY <1>2, <1>3, <1>4 DEF IInv

LEMMA TickStep ==
    ASSUME IInv, Tick PROVE IInv'
<1>1. since' \in 0..(2 * Interval) /\ left' \in 1..Interval /\ fired' \in BOOLEAN
  BY IntervalType DEF Tick, IInv, TypeOK
<1>2. TypeOK'
  BY <1>1 DEF Tick, IInv, TypeOK, reportVars, closeVars
<1>3. Paced'
  <2>1. first' = first
    BY DEF Tick, reportVars
  <2>2. CASE left = 1
    <3>1. fired' /\ left' = Interval /\ since \in Nat
      <4>1. fired'
        BY <2>2, Zenon DEF Tick
      <4>2. left' = Interval
        BY <2>2 DEF Tick
      <4>3. since \in Nat
        BY IntervalType DEF IInv, TypeOK
      <4> QED BY <4>1, <4>2, <4>3
    <3>2. since' = since + 1 \/ (since' = since /\ since >= 2 * Interval)
      BY <3>1, IntervalType DEF Tick
    <3>3. ~first /\ since < Interval => since = Interval - 1
      BY <2>2, <3>1, IntervalType DEF IInv, Paced
    <3> QED BY <2>1, <3>1, <3>2, <3>3, IntervalType DEF Paced
  <2>3. CASE left # 1
    BY <2>1, <2>3, IntervalType DEF Tick, IInv, TypeOK, Paced
  <2> QED BY <2>2, <2>3
<1>4. Reporting' /\ ToldOnce'
  BY DEF Tick, IInv, Reporting, ToldOnce, reportVars
<1> QED BY <1>2, <1>3, <1>4 DEF IInv

-----------------------------------------------------------------------------
(* The reports.                                                            *)

\* A look at the counters, from wherever it is made.
LEMMA LookStep ==
    ASSUME IInv, spc # "report",
           NEW ready \in BOOLEAN, ready \in {fired, FALSE},
           NEW next \in {"select", "work", "handOff"},
           MaybeReportDrops(ready, next), UNCHANGED <<dropped, closeVars>>
    PROVE  IInv'
<1>1. CASE /\ since < Interval
           /\ spc' = next /\ fired' = ready
           /\ UNCHANGED <<back, since, left, reportVars>>
  <2>1. TypeOK'
    BY <1>1 DEF IInv, TypeOK, reportVars, closeVars
  <2>2. Paced'
    BY <1>1, IntervalType DEF IInv, TypeOK, Paced, reportVars
  <2>3. Reporting' /\ ToldOnce'
    BY <1>1 DEF IInv, Reporting, ToldOnce, reportVars
  <2> QED BY <2>1, <2>2, <2>3 DEF IInv
<1>2. CASE /\ since >= Interval
           /\ since' = 0 /\ left' = Rephased /\ fired' \in {ready, FALSE}
           /\ cur' = dropped
           /\ untold' = {r \in Reasons : dropped[r] > reported[r]}
           /\ first' = FALSE
           /\ spc' = "report" /\ back' = next
           /\ UNCHANGED <<reported, told>>
  <2>1. TypeOK'
    <3>1. since' \in 0..(2 * Interval) /\ left' \in 1..Interval
      BY <1>2, IntervalType DEF Rephased
    <3>2. fired' \in BOOLEAN
      BY <1>2
    <3> QED BY <1>2, <3>1, <3>2 DEF IInv, TypeOK, closeVars
  <2>2. Paced'
    BY <1>2, IntervalType DEF Paced, Rephased
  <2>3. Reporting'
    BY <1>2 DEF IInv, TypeOK, Counts, Reporting
  <2>4. ToldOnce'
    <3> SUFFICES ASSUME NEW r \in Reasons
                 PROVE  /\ told'[r] <= dropped'[r]
                        /\ told'[r] = IF r \in untold' THEN reported'[r] ELSE cur'[r]
      BY <1>2 DEF ToldOnce
    <3>1. told[r] = reported[r] /\ told[r] <= dropped[r]
      BY DEF IInv, ToldOnce
    <3>2. dropped[r] \in Nat /\ reported[r] \in Nat
      BY DEF IInv, TypeOK, Counts
    <3> QED BY <1>2, <3>1, <3>2
  <2> QED BY <2>1, <2>2, <2>3, <2>4 DEF IInv
<1> QED BY <1>1, <1>2 DEF MaybeReportDrops

LEMMA TellStep ==
    ASSUME IInv, NEW k \in Reasons, Tell(k) PROVE IInv'
<1>1. told[k] = reported[k] /\ cur[k] <= dropped[k]
  BY DEF Tell, IInv, ToldOnce, Reporting
<1>2. cur[k] \in Nat /\ reported[k] \in Nat /\ told \in Counts
  BY DEF IInv, TypeOK, Counts
<1>3. told' = [told EXCEPT ![k] = cur[k]]
  <2>1. told[k] + (cur[k] - reported[k]) = cur[k]
    BY <1>1, <1>2
  <2> QED BY <2>1 DEF Tell
<1>4. TypeOK'
  BY <1>2, <1>3 DEF Tell, IInv, TypeOK, Counts, clockVars, closeVars
<1>5. Paced'
  BY DEF Tell, IInv, Paced, clockVars
<1>6. Reporting' /\ ToldOnce'
  BY <1>1, <1>2, <1>3 DEF Tell, IInv, TypeOK, Counts, Reporting, ToldOnce
<1> QED BY <1>4, <1>5, <1>6 DEF IInv

LEMMA ReportEndsStep ==
    ASSUME IInv, ReportEnds PROVE IInv'
<1>1. spc' \in {"select", "work", "handOff"}
  BY DEF ReportEnds, IInv, TypeOK
<1>2. TypeOK'
  BY <1>1 DEF ReportEnds, Snapshot, IInv, TypeOK, clockVars, closeVars
<1>3. Paced'
  BY DEF ReportEnds, IInv, Paced, clockVars
<1>4. Reporting' /\ ToldOnce'
  BY <1>1 DEF ReportEnds, Snapshot, IInv, Reporting, ToldOnce
<1> QED BY <1>2, <1>3, <1>4 DEF IInv

-----------------------------------------------------------------------------
(* The steps that only move the sender, and Close's.                       *)

LEMMA MoveStep ==
    ASSUME IInv,
           \/ Work \/ FlushWithoutLook \/ HandOffWaits \/ HandOffEnds \/ Exit
           \/ ReportFinalDrops \/ FinalEnds \/ \E r \in Reasons : TellFinal(r)
    PROVE  IInv'
<1>1. /\ UNCHANGED <<back, clockVars, dropped, reportVars>>
      /\ spc' = spc \/ (spc # "report" /\ spc' \in {"select", "work", "handOff", "gone"})
      /\ queued' = queued /\ cpc' \in {"open", "telling", "closed"}
      /\ final' \in Counts /\ owed' \subseteq Reasons
  BY DEF IInv, TypeOK, Work, FlushWithoutLook, HandOffWaits, HandOffEnds, Exit,
         ReportFinalDrops, TellFinal, FinalEnds, closeVars
<1>2. TypeOK'
  BY <1>1 DEF IInv, TypeOK, clockVars, reportVars
<1>3. Paced'
  BY <1>1 DEF IInv, Paced, clockVars, reportVars
<1>4. Reporting' /\ ToldOnce'
  BY <1>1 DEF IInv, Reporting, ToldOnce, reportVars
<1> QED BY <1>2, <1>3, <1>4 DEF IInv

LEMMA StepHolds == ASSUME IInv, [Next]_vars PROVE IInv'
<1>1. CASE UNCHANGED vars
  BY <1>1 DEF IInv, TypeOK, Paced, Reporting, ToldOnce, vars, clockVars, reportVars, closeVars
<1>2. CASE TickServed
  <2>1. spc \in {"select", "handOff"}
    BY <1>2 DEF TickServed, Served, Waiting
  <2> QED BY <1>2, <2>1, LookStep DEF TickServed
<1>3. CASE FlushEnds
  <2>1. fired \in BOOLEAN
    BY DEF IInv, TypeOK
  <2> QED BY <1>3, <2>1, LookStep DEF FlushEnds
<1>4. CASE Next /\ ~TickServed /\ ~FlushEnds
  BY <1>4, DropStep, TellStep, TickStep, ReportEndsStep, MoveStep, CountLeftoverStep DEF Next
<1> QED BY <1>1, <1>2, <1>3, <1>4

LEMMA InvHolds == Spec => []IInv
BY InitHolds, StepHolds, PTL DEF Spec

-----------------------------------------------------------------------------
(* The theorems.                                                           *)

\* Counters, snapshots and the clock keep their types (sender.go:36-58).
THEOREM TypeCorrect == Spec => []TypeOK
<1>1. IInv => TypeOK
  BY DEF IInv
<1> QED BY <1>1, InvHolds, PTL

\* However reports by flush and by ticker follow each other, a waiting sender has
\* looked within the interval, within two before its first report
\* (sender.go, maybeReportDrops; client.go:64-71).
THEOREM FreshHolds == Spec => []Fresh
<1>1. IInv => Fresh
  BY IntervalType DEF IInv, TypeOK, Paced, Fresh
<1> QED BY <1>1, InvHolds, PTL

\* The summaries of a reason add up to its counter as of the last report
\* (sender.go, reportDrops).
THEOREM ToldOnceHolds == Spec => []ToldOnce
<1>1. IInv => ToldOnce
  BY DEF IInv
<1> QED BY <1>1, InvHolds, PTL
=============================================================================
