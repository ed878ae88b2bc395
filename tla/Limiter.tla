------------------------------- MODULE Limiter ------------------------------
(***************************************************************************)
(* Burst protection: concurrent calls of allow around one atomic word      *)
(* (limiter.go). The word is the theoretical arrival time; a call reads    *)
(* the clock, then loads the word, decides, and swaps it if nobody else    *)
(* has, on the clock reading it started with.                              *)
(***************************************************************************)
EXTENDS Integers, FiniteSets

CONSTANTS
    Calls,      \* the calls of allow, one record each
    MaxRecords, \* WithBurstProtection's maximum
    Window,     \* and its window, in ticks
    MaxTime,    \* the last instant an int64 can hold
    Horizon     \* the last instant of a model

ASSUME LimiterAssumption ==
    /\ IsFiniteSet(Calls)
    /\ MaxRecords \in Nat \ {0} /\ Window \in Nat \ {0}
    /\ MaxTime \in Nat /\ Window <= MaxTime
    /\ Horizon \in 0 .. MaxTime

\* newLimiter: the sustained spacing, 0 for a limit finer than the clock.
Interval == Window \div MaxRecords

VARIABLES
    clock,      \* nanoseconds since the limiter was built, monotonic
    tat,        \* the theoretical arrival time
    pc,         \* [Calls -> "idle", "load", "swap", "admitted", "refused"]
    reading,    \* [Calls -> the clock as the call read it]
    old         \* [Calls -> tat as the call loaded it]

vars == <<clock, tat, pc, reading, old>>
callVars == <<pc, reading, old>>

Init ==
    /\ clock = 0 /\ tat = 0
    /\ pc = [c \in Calls |-> "idle"]
    /\ reading = [c \in Calls |-> 0]
    /\ old = [c \in Calls |-> 0]

-----------------------------------------------------------------------------
Later(a, b) == IF a >= b THEN a ELSE b

\* From when the next record is counted: an idle client owes nothing.
Start(t, now) == Later(t, now)

\* The bucket is empty: the arrival time is a window ahead of the reading.
EmptyEarly(t, now) == Start(t, now) - now >= Window - Interval
Empty(t, now) == Start(t, now) - now > Window - Interval

\* The arrival time after one more record, saturating at the end of the clock.
\* The sum wraps around in the code; `next < t` is how it notices.
Wrapped(n) == IF n > MaxTime THEN n - 2 * (MaxTime + 1) ELSE n
AfterWrapping(t, now) == Wrapped(Start(t, now) + Interval)
After(t, now) ==
    LET next == Wrapped(Start(t, now) + Interval)
    IN  IF next < Start(t, now) THEN MaxTime ELSE next

ReadClock(c) ==
    /\ pc[c] = "idle"
    /\ reading' = [reading EXCEPT ![c] = clock]
    /\ pc' = [pc EXCEPT ![c] = "load"]
    /\ UNCHANGED <<clock, tat, old>>

\* The refusal path does not write.
Refuse(c) ==
    /\ pc[c] = "load"
    /\ Empty(tat, reading[c])
    /\ pc' = [pc EXCEPT ![c] = "refused"]
    /\ UNCHANGED <<clock, tat, reading, old>>

Load(c) ==
    /\ pc[c] = "load"
    /\ ~Empty(tat, reading[c])
    /\ old' = [old EXCEPT ![c] = tat]
    /\ pc' = [pc EXCEPT ![c] = "swap"]
    /\ UNCHANGED <<clock, tat, reading>>

\* CompareAndSwap.
StoreAnyway(c) == TRUE
Unchanged(c) == tat = old[c]

Admit(c) ==
    /\ pc[c] = "swap" /\ Unchanged(c)
    /\ tat' = After(old[c], reading[c])
    /\ pc' = [pc EXCEPT ![c] = "admitted"]
    /\ UNCHANGED <<clock, reading, old>>

\* Another call took the slot: recompute, on the same reading.
SwapAgain == "swap"
LoadAgain == "load"

LoseRace(c) ==
    /\ pc[c] = "swap" /\ ~Unchanged(c)
    /\ pc' = [pc EXCEPT ![c] = LoadAgain]
    /\ UNCHANGED <<clock, tat, reading, old>>

Allow(c) == ReadClock(c) \/ Refuse(c) \/ Load(c) \/ Admit(c) \/ LoseRace(c)

Tick == clock < Horizon /\ clock' = clock + 1 /\ UNCHANGED <<tat, callVars>>

\* The end of a model: nobody is left inside allow.
Over ==
    /\ clock = Horizon /\ \A c \in Calls : pc[c] \in {"admitted", "refused"}
    /\ UNCHANGED vars

Next == (\E c \in Calls : Allow(c)) \/ Tick \/ Over

Spec == Init /\ [][Next]_vars
\* A call that can go on does; nobody has to make one.
FairSpec == Spec /\ \A c \in Calls : WF_vars(pc[c] # "idle" /\ Allow(c))

-----------------------------------------------------------------------------
(* Properties.                                                             *)

Admitted == {c \in Calls : pc[c] = "admitted"}
Finished(c) == pc[c] \in {"admitted", "refused"}

\* Near the end of the clock the arrival time saturates and the limit is lost;
\* the bounds on admissions are claimed for the time before (allow).
InRange == clock + Window <= MaxTime

\* The type invariant: the arrival time never wraps to a negative (allow).
TypeOK ==
    /\ clock \in 0 .. Horizon /\ tat \in 0 .. MaxTime
    /\ pc \in [Calls -> {"idle", "load", "swap", "admitted", "refused"}]
    /\ reading \in [Calls -> 0 .. Horizon]
    /\ old \in [Calls -> 0 .. MaxTime]

\* Whatever the interleaving, the calls that read the clock at a or later are
\* admitted at the sustained rate with one window's allowance on top: no slot is
\* sold twice and idle time banks no credit (allow).
RateBound ==
    InRange => \A a \in 0 .. clock :
      Cardinality({c \in Admitted : reading[c] >= a}) * Interval <= clock - a + Window

\* Exact under contention: calls that all read the same clock admit a full
\* window's worth between them, neither more nor fewer.
ExactBurst ==
    (InRange /\ Interval > 0 /\ \A c, d \in Calls : Finished(c) /\ reading[c] = reading[d])
      => \/ Admitted = Calls
         \/ Cardinality(Admitted) = Window \div Interval

\* The arrival time only moves forward: the swap has no ABA hazard (limiter).
MovesForward == [][tat' >= tat]_vars

\* No call is starved by losing the race: a lost swap is another call's success,
\* and what it retries on is fresh (allow).
CallReturns == \A c \in Calls : pc[c] # "idle" ~> Finished(c)

-----------------------------------------------------------------------------
(* Refinement: the calls are decided one at a time.                        *)

\* What a call has to show for it: inside the loop it is being decided.
Verdicts == [c \in Calls |-> IF pc[c] = "idle" THEN "none"
                             ELSE IF pc[c] \in {"load", "swap"} THEN "deciding" ELSE pc[c]]
OneAtATime == INSTANCE Gate WITH verdict <- Verdicts

\* A load, a decision on it and a swap that succeeds are one decision: whatever
\* other calls do in between, none is decided on an arrival time that was never
\* the word's, and a lost swap has decided nothing (limiter, allow).
GateSpec == OneAtATime!Spec
=============================================================================
