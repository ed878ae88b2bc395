---------------------------- MODULE LimiterProofs ---------------------------
(***************************************************************************)
(* The limiter keeps its rate for any number of concurrent calls, any      *)
(* limit and any window, until the clock nears its end.                    *)
(***************************************************************************)
EXTENDS Limiter, FiniteSetTheorems, TLAPS

\* The spacing is a number of ticks, and at most the window.
LEMMA IntervalFits == Interval \in 0 .. Window
<1>1. Window \in Nat /\ MaxRecords \in Nat \ {0}
  BY LimiterAssumption
<1> QED
  BY <1>1, SMTT(30) DEF Interval

\* TypeOK needs only itself: After saturates (allow).
THEOREM TypeCorrect == Spec => []TypeOK
<1>1. Init => TypeOK
  BY LimiterAssumption DEF Init, TypeOK
<1>2. TypeOK /\ [Next]_vars => TypeOK'
  <2> SUFFICES ASSUME TypeOK, [Next]_vars PROVE TypeOK'
    OBVIOUS
  <2> USE LimiterAssumption DEF TypeOK
  <2>1. ASSUME NEW c \in Calls, ReadClock(c) PROVE TypeOK'
    BY <2>1 DEF ReadClock
  <2>2. ASSUME NEW c \in Calls, Refuse(c) PROVE TypeOK'
    BY <2>2 DEF Refuse
  <2>3. ASSUME NEW c \in Calls, Load(c) PROVE TypeOK'
    BY <2>3 DEF Load
  <2>4. ASSUME NEW c \in Calls, Admit(c) PROVE TypeOK'
    <3>1. After(old[c], reading[c]) \in 0 .. MaxTime
      BY IntervalFits DEF After, Wrapped, Start, Later
    <3> QED
      BY <2>4, <3>1 DEF Admit
  <2>5. ASSUME NEW c \in Calls, LoseRace(c) PROVE TypeOK'
    BY <2>5 DEF LoseRace, LoadAgain
  <2>6. CASE Tick
    BY <2>6 DEF Tick, callVars
  <2>7. CASE UNCHANGED vars
    BY <2>7 DEF vars
  <2> QED
    BY <2>1, <2>2, <2>3, <2>4, <2>5, <2>6, <2>7 DEF Next, Allow, Over
<1> QED
  BY <1>1, <1>2, PTL DEF Spec

\* The arrival time only moves forward, to the end of the clock: a value that
\* compares equal is the value that was loaded (allow).
THEOREM NoABA == Spec => MovesForward
<1>1. TypeOK /\ [Next]_vars => [tat' >= tat]_vars
  <2> SUFFICES ASSUME TypeOK, Next PROVE tat' >= tat
    BY DEF vars
  <2>1. tat \in Nat /\ tat <= MaxTime
    BY LimiterAssumption DEF TypeOK
  <2>2. ASSUME NEW c \in Calls, Admit(c) PROVE tat' >= tat
    BY <2>1, <2>2, IntervalFits, LimiterAssumption
    DEF Admit, Unchanged, After, Wrapped, Start, Later, TypeOK
  <2>3. tat' = tat \/ \E c \in Calls : Admit(c)
    BY DEF Next, Allow, ReadClock, Refuse, Load, LoseRace, Tick, Over, vars
  <2> QED
    BY <2>1, <2>2, <2>3
<1> QED
  BY <1>1, TypeCorrect, PTL DEF Spec, MovesForward

-----------------------------------------------------------------------------
(* The rate.                                                               *)

\* The calls admitted on a reading of a or later.
Since(a) == {c \in Admitted : reading[c] >= a}

\* A call about to swap has found room, for its reading (allow).
Justified ==
    \A c \in Calls : /\ reading[c] <= clock
                     /\ pc[c] = "swap" => ~Empty(old[c], reading[c])

\* Every admission since a has moved the arrival time an interval past a, and it
\* never runs more than a window ahead of the clock.
Paid ==
    InRange => /\ tat <= clock + Window
               /\ \A a \in Nat : Since(a) # {} => Cardinality(Since(a)) * Interval <= tat - a

RateInv == TypeOK /\ Justified /\ Paid

\* One more admission costs one more interval.
LEMMA OneMore ==
    ASSUME NEW k \in Nat, NEW i \in Nat
    PROVE  (k + 1) * i = k * i + i
  BY SMT

\* The calls counted are finitely many.
LEMMA SinceFinite ==
    ASSUME NEW a
    PROVE  IsFiniteSet(Since(a)) /\ Cardinality(Since(a)) \in Nat
<1>1. Since(a) \subseteq Calls
  BY DEF Since, Admitted
<1> QED
  BY <1>1, LimiterAssumption, FS_Subset, FS_CardinalityType

\* An admitted call moves the arrival time by an interval, from its reading or
\* from the arrival time it has just compared, whichever is later (allow).
LEMMA AdmitMoves ==
    ASSUME RateInv, InRange, NEW c \in Calls, Admit(c)
    PROVE  /\ tat' = Later(tat, reading[c]) + Interval
           /\ tat' <= clock + Window
<1>1. /\ clock \in Nat /\ tat \in Nat /\ reading[c] \in Nat /\ Window \in Nat /\ MaxTime \in Nat
      /\ Interval \in 0 .. Window
  BY IntervalFits, LimiterAssumption DEF RateInv, TypeOK
<1>2. /\ old[c] = tat /\ reading[c] <= clock
      /\ ~(Later(tat, reading[c]) - reading[c] > Window - Interval)
  BY DEF Admit, Unchanged, RateInv, Justified, Empty, Start
<1>3. Later(tat, reading[c]) + Interval <= clock + Window /\ clock + Window <= MaxTime
  BY <1>1, <1>2 DEF Later, InRange
<1>4. After(old[c], reading[c]) = Later(tat, reading[c]) + Interval
  BY <1>1, <1>2, <1>3 DEF After, Wrapped, Start, Later
<1> QED
  BY <1>3, <1>4 DEF Admit

\* The bound outlives every step but an admission and a tick.
LEMMA PaidWhenStill ==
    ASSUME RateInv, clock' = clock, tat' = tat,
           \A a \in Nat : Since(a)' = Since(a)
    PROVE  Paid'
  BY DEF RateInv, Paid, InRange

\* An admission is paid for: one more call, one interval further (allow).
LEMMA PaidOnAdmit ==
    ASSUME RateInv, NEW c \in Calls, Admit(c)
    PROVE  Paid'
<1> SUFFICES ASSUME InRange
             PROVE  /\ tat' <= clock' + Window
                    /\ \A a \in Nat : Since(a)' # {} => Cardinality(Since(a)') * Interval <= tat' - a
  BY DEF Admit, Paid, InRange
<1>1. /\ clock' = clock /\ reading' = reading /\ Admitted' = Admitted \cup {c} /\ c \notin Admitted
  BY DEF Admit, Admitted, RateInv, TypeOK
<1>2. /\ tat \in Nat /\ tat' \in Int /\ reading[c] \in Nat /\ Interval \in Nat
      /\ tat' = Later(tat, reading[c]) + Interval
  BY AdmitMoves, IntervalFits, LimiterAssumption DEF RateInv, TypeOK, Later
<1>3. ASSUME NEW a \in Nat, Since(a)' # {}
      PROVE  Cardinality(Since(a)') * Interval <= tat' - a
  <2>1. Since(a) # {} => Cardinality(Since(a)) * Interval <= tat - a
    BY DEF RateInv, Paid
  <2>2. CASE reading[c] < a
    <3>1. Since(a)' = Since(a)
      BY <1>1, <2>2, <1>2 DEF Since
    <3>2. Cardinality(Since(a)) * Interval <= tat - a
      BY <3>1, <2>1, <1>3
    <3>3. tat' >= tat
      BY <1>2 DEF Later
    <3>4. Cardinality(Since(a)) * Interval \in Int
      BY SinceFinite, <1>2
    <3> QED
      BY <3>1, <3>2, <3>3, <3>4, <1>2
  <2>3. CASE reading[c] >= a
    <3>1. Since(a)' = Since(a) \cup {c} /\ c \notin Since(a)
      BY <1>1, <2>3 DEF Since
    <3>2. Cardinality(Since(a)') = Cardinality(Since(a)) + 1
      BY <3>1, SinceFinite, FS_AddElement
    <3>3. Cardinality(Since(a)') * Interval = Cardinality(Since(a)) * Interval + Interval
      BY <3>2, OneMore, SinceFinite, <1>2
    <3>4. Cardinality(Since(a)) * Interval \in Nat
      BY SinceFinite, <1>2
    <3>5. CASE Since(a) = {}
      <4>1. Cardinality(Since(a)) * Interval = 0
        BY <3>5, FS_EmptySet, <1>2
      <4> QED
        BY <4>1, <3>3, <1>2, <2>3 DEF Later
    <3>6. CASE Since(a) # {}
      BY <3>6, <2>1, <3>3, <3>4, <1>2 DEF Later
    <3> QED
      BY <3>5, <3>6
  <2> QED
    BY <2>2, <2>3, <1>2
<1> QED
  BY <1>1, <1>3, AdmitMoves

\* The passing of time forgives debt and grants no credit.
LEMMA PaidOnTick ==
    ASSUME RateInv, Tick
    PROVE  Paid'
<1>1. \A a \in Nat : Since(a)' = Since(a)
  BY DEF Tick, callVars, Since, Admitted
<1>2. /\ clock \in Nat /\ clock' = clock + 1 /\ tat' = tat /\ tat \in Nat
      /\ Window \in Nat /\ MaxTime \in Nat
  BY LimiterAssumption DEF Tick, RateInv, TypeOK
<1>3. InRange' => InRange
  BY <1>2 DEF InRange
<1> QED
  BY <1>1, <1>2, <1>3 DEF RateInv, Paid

\* RateInv is inductive.
LEMMA RateHolds == Spec => []RateInv
<1>1. Init => RateInv
  <2> SUFFICES ASSUME Init PROVE RateInv
    OBVIOUS
  <2>1. TypeOK
    BY LimiterAssumption DEF Init, TypeOK
  <2>2. Justified
    BY DEF Init, Justified
  <2>3. Admitted = {}
    BY DEF Init, Admitted
  <2>4. Paid
    BY <2>3, LimiterAssumption DEF Paid, Since, Init
  <2> QED
    BY <2>1, <2>2, <2>4 DEF RateInv
<1>2. TypeOK /\ RateInv /\ TypeOK' /\ [Next]_vars => RateInv'
  <2> SUFFICES ASSUME RateInv, TypeOK', [Next]_vars PROVE Justified' /\ Paid'
    BY DEF RateInv
  <2>1. ASSUME NEW c \in Calls, ReadClock(c) PROVE Justified' /\ Paid'
    <3>1. Justified'
      BY <2>1 DEF ReadClock, RateInv, TypeOK, Justified, Empty, Start
    <3>2. Admitted' = Admitted /\ \A d \in Admitted : reading'[d] = reading[d]
      BY <2>1 DEF ReadClock, RateInv, TypeOK, Admitted
    <3>3. \A a \in Nat : Since(a)' = Since(a)
      BY <3>2 DEF Since
    <3> QED
      BY <2>1, <3>1, <3>3, PaidWhenStill DEF ReadClock
  <2>2. ASSUME NEW c \in Calls, Refuse(c) \/ Load(c) \/ LoseRace(c) PROVE Justified' /\ Paid'
    <3>1. Justified'
      BY <2>2 DEF Refuse, Load, LoseRace, LoadAgain, RateInv, TypeOK, Justified, Empty, Start
    <3>2. Admitted' = Admitted /\ reading' = reading /\ clock' = clock /\ tat' = tat
      BY <2>2 DEF Refuse, Load, LoseRace, LoadAgain, RateInv, TypeOK, Admitted
    <3> QED
      BY <3>1, <3>2, PaidWhenStill DEF Since
  <2>3. ASSUME NEW c \in Calls, Admit(c) PROVE Justified' /\ Paid'
    <3>1. Justified'
      BY <2>3 DEF Admit, RateInv, TypeOK, Justified, Empty, Start
    <3> QED
      BY <2>3, <3>1, PaidOnAdmit
  <2>4. CASE Tick
    <3>1. Justified'
      BY <2>4 DEF Tick, callVars, RateInv, TypeOK, Justified, Empty, Start
    <3> QED
      BY <2>4, <3>1, PaidOnTick
  <2>5. CASE UNCHANGED vars
    BY <2>5 DEF vars, RateInv, Justified, Paid, InRange, Since, Admitted, Empty, Start
  <2> QED
    BY <2>1, <2>2, <2>3, <2>4, <2>5 DEF Next, Allow, Over
<1> QED
  BY <1>1, <1>2, TypeCorrect, PTL DEF Spec

\* However the calls interleave between reading the clock, loading the arrival time
\* and swapping it, no slot is sold twice and idle time banks no credit (allow).
THEOREM RateKept == Spec => []RateBound
<1>1. RateInv => RateBound
  <2> SUFFICES ASSUME RateInv, InRange, NEW a \in 0 .. clock
               PROVE  Cardinality(Since(a)) * Interval <= clock - a + Window
    BY DEF RateBound, Since
  <2>1. /\ a \in Nat /\ clock \in Nat /\ tat \in Nat /\ Window \in Nat /\ Interval \in Nat
    BY IntervalFits, LimiterAssumption DEF RateInv, TypeOK
  <2>2. Cardinality(Since(a)) * Interval \in Nat
    BY SinceFinite, <2>1
  <2>3. CASE Since(a) = {}
    <3>1. Cardinality(Since(a)) * Interval = 0
      BY <2>3, FS_EmptySet, <2>1
    <3> QED
      BY <3>1, <2>1
  <2>4. CASE Since(a) # {}
    BY <2>4, <2>1, <2>2 DEF RateInv, Paid
  <2> QED
    BY <2>3, <2>4
<1> QED
  BY <1>1, RateHolds, PTL

-----------------------------------------------------------------------------
(* The burst.                                                              *)

Arrived == {c \in Calls : pc[c] # "idle"}

\* The calls made so far have all read the same clock.
OneReading == \A c, d \in Arrived : reading[c] = reading[d]

\* The arrival time of k admissions on a reading now.
ArrivalAfter(k, now) == now + k * Interval

\* As long as all calls read the same clock, the arrival time counts the admissions,
\* which fit the window, and a refusal has found no room for another.
Exact ==
    InRange /\ OneReading =>
        /\ Admitted = {} => tat = 0
        /\ \A c \in Arrived : Admitted # {} => tat = ArrivalAfter(Cardinality(Admitted), reading[c])
        /\ Cardinality(Admitted) * Interval <= Window
        /\ \A c \in Calls : pc[c] = "refused" => Cardinality(Admitted) * Interval + Interval > Window

LEMMA AdmittedFinite == IsFiniteSet(Admitted) /\ Cardinality(Admitted) \in Nat
<1>1. Admitted \subseteq Calls
  BY DEF Admitted
<1> QED
  BY <1>1, LimiterAssumption, FS_Subset, FS_CardinalityType

\* How many intervals fit the window (allow, newLimiter).
LEMMA FitsExactly ==
    ASSUME NEW w \in Nat, NEW i \in Nat \ {0}, NEW k \in Nat, k * i <= w, k * i + i > w
    PROVE  k = w \div i
<1>1. \A j \in Nat : j * i <= w /\ w < j * i + i => j = w \div i
  BY SMTT(30)
<1> QED
  BY <1>1

\* Exact outlives the steps that admit nobody and refuse nobody.
LEMMA ExactWhenStill ==
    ASSUME RateInv, Exact, tat' = tat, Admitted' = Admitted, InRange' => InRange,
           OneReading' => OneReading,
           \A c \in Calls : pc'[c] = "refused" <=> pc[c] = "refused",
           OneReading' => \A c \in Arrived' : Admitted # {} =>
              \E d \in Arrived : reading'[c] = reading[d]
    PROVE  Exact'
<1> SUFFICES ASSUME InRange', OneReading'
             PROVE  /\ Admitted' = {} => tat' = 0
                    /\ \A c \in Arrived' : Admitted' # {} =>
                         tat' = ArrivalAfter(Cardinality(Admitted'), reading'[c])
                    /\ Cardinality(Admitted') * Interval <= Window
                    /\ \A c \in Calls : pc'[c] = "refused" =>
                         Cardinality(Admitted') * Interval + Interval > Window
  BY DEF Exact, ArrivalAfter
<1> QED
  BY DEF Exact

\* One more call reads the clock.
LEMMA ExactOnRead ==
    ASSUME RateInv, Exact, NEW c \in Calls, ReadClock(c)
    PROVE  Exact'
<1>1. /\ tat' = tat /\ Admitted' = Admitted /\ Arrived' = Arrived \cup {c}
      /\ c \notin Arrived /\ Admitted \subseteq Arrived
      /\ \A d \in Arrived : reading'[d] = reading[d]
      /\ \A d \in Calls : pc'[d] = "refused" <=> pc[d] = "refused"
  BY DEF ReadClock, Admitted, Arrived, RateInv, TypeOK
<1>2. (OneReading' => OneReading) /\ (InRange' => InRange)
  BY <1>1 DEF OneReading, ReadClock, InRange
<1>3. ASSUME OneReading', NEW d \in Arrived', Admitted # {}
      PROVE  \E e \in Arrived : reading'[d] = reading[e]
  BY <1>1, <1>3 DEF OneReading
<1> QED
  BY <1>1, <1>2, <1>3, ExactWhenStill

\* A refusal finds the bucket empty: there is no room for another (allow).
LEMMA ExactOnRefuse ==
    ASSUME RateInv, Exact, NEW c \in Calls, Refuse(c)
    PROVE  Exact'
<1>1. /\ tat' = tat /\ reading' = reading /\ clock' = clock
      /\ Admitted' = Admitted /\ Arrived' = Arrived /\ c \in Arrived
      /\ \A d \in Calls : pc'[d] = "refused" <=> d = c \/ pc[d] = "refused"
  BY DEF Refuse, Admitted, Arrived, RateInv, TypeOK
<1>2. /\ tat \in Nat /\ reading[c] \in Nat /\ Window \in Nat /\ Interval \in 0 .. Window
      /\ Cardinality(Admitted) \in Nat /\ Cardinality(Admitted) * Interval \in Nat
  BY IntervalFits, LimiterAssumption, AdmittedFinite DEF RateInv, TypeOK
<1>3. Later(tat, reading[c]) - reading[c] > Window - Interval
  BY DEF Refuse, Empty, Start
<1>4. (InRange' <=> InRange) /\ (OneReading' <=> OneReading)
  BY <1>1 DEF InRange, OneReading
<1>5. ASSUME InRange, OneReading PROVE Cardinality(Admitted) * Interval + Interval > Window
  <2>1. CASE Admitted = {}
    <3>1. tat = 0
      BY <1>5, <2>1 DEF Exact
    <3> QED
      BY <3>1, <1>2, <1>3 DEF Later
  <2>2. CASE Admitted # {}
    <3>1. tat = reading[c] + Cardinality(Admitted) * Interval
      BY <1>1, <1>5, <2>2 DEF Exact, ArrivalAfter
    <3> QED
      BY <3>1, <1>2, <1>3 DEF Later
  <2> QED
    BY <2>1, <2>2
<1> QED
  BY <1>1, <1>4, <1>5 DEF Exact, ArrivalAfter

\* An admission finds room, takes an interval of it, and leaves the others short of
\* as much (allow).
LEMMA ExactOnAdmit ==
    ASSUME RateInv, Exact, NEW c \in Calls, Admit(c)
    PROVE  Exact'
<1>1. /\ reading' = reading /\ clock' = clock /\ Arrived' = Arrived /\ c \in Arrived
      /\ Admitted' = Admitted \cup {c} /\ c \notin Admitted
      /\ \A d \in Calls : pc'[d] = "refused" <=> pc[d] = "refused"
  BY DEF Admit, Admitted, Arrived, RateInv, TypeOK
<1> DEFINE k == Cardinality(Admitted)
<1>2. k \in Nat /\ Cardinality(Admitted') = k + 1
  BY <1>1, AdmittedFinite, FS_AddElement
<1> HIDE DEF k
<1>3. /\ tat \in Nat /\ reading[c] \in Nat /\ Window \in Nat /\ Interval \in Nat
      /\ k * Interval \in Nat /\ (k + 1) * Interval = k * Interval + Interval
  BY <1>2, IntervalFits, LimiterAssumption, OneMore DEF RateInv, TypeOK
<1>4. ~(Later(tat, reading[c]) - reading[c] > Window - Interval)
  BY DEF Admit, Unchanged, RateInv, Justified, Empty, Start
<1> SUFFICES ASSUME InRange, OneReading
             PROVE  /\ \A d \in Arrived : tat' = reading[d] + (k * Interval + Interval)
                    /\ k * Interval + Interval <= Window
                    /\ \A d \in Calls : pc[d] = "refused" =>
                         k * Interval + Interval + Interval > Window
  <2>1. (InRange' <=> InRange) /\ (OneReading' <=> OneReading)
    BY <1>1 DEF InRange, OneReading
  <2>2. Admitted' # {}
    BY <1>1
  <2> QED
    BY <1>1, <1>2, <1>3, <2>1, <2>2 DEF Exact, ArrivalAfter
<1>5. tat' = Later(tat, reading[c]) + Interval
  BY AdmitMoves
<1>6. Later(tat, reading[c]) = reading[c] + k * Interval
  <2>1. CASE Admitted = {}
    <3>1. tat = 0 /\ k = 0
      BY <2>1, FS_EmptySet DEF Exact, k
    <3>2. k * Interval = 0
      BY <3>1, <1>3
    <3> QED
      BY <3>1, <3>2, <1>3 DEF Later
  <2>2. CASE Admitted # {}
    <3>1. tat = reading[c] + k * Interval
      BY <1>1, <2>2 DEF Exact, ArrivalAfter, k
    <3> QED
      BY <3>1, <1>3 DEF Later
  <2> QED
    BY <2>1, <2>2
<1>7. \A d \in Arrived : reading[d] = reading[c]
  BY <1>1 DEF OneReading
<1>8. \A d \in Calls : pc[d] = "refused" => k * Interval + Interval > Window
  BY DEF Exact, k
<1> QED
  BY <1>3, <1>4, <1>5, <1>6, <1>7, <1>8

LEMMA ExactStep ==
    ASSUME RateInv, Exact, [Next]_vars
    PROVE  Exact'
<1>1. ASSUME NEW c \in Calls, Load(c) \/ LoseRace(c) PROVE Exact'
  <2>1. /\ tat' = tat /\ reading' = reading /\ clock' = clock
        /\ Admitted' = Admitted /\ Arrived' = Arrived
        /\ \A d \in Calls : pc'[d] = "refused" <=> pc[d] = "refused"
    BY <1>1 DEF Load, LoseRace, LoadAgain, Admitted, Arrived, RateInv, TypeOK
  <2> QED
    BY <2>1 DEF Exact, InRange, OneReading, ArrivalAfter
<1>2. CASE Tick
  <2>1. /\ tat' = tat /\ reading' = reading /\ pc' = pc
        /\ Admitted' = Admitted /\ Arrived' = Arrived
    BY <1>2 DEF Tick, callVars, Admitted, Arrived
  <2>2. InRange' => InRange
    BY <1>2, LimiterAssumption DEF InRange, Tick, RateInv, TypeOK
  <2> QED
    BY <2>1, <2>2 DEF Exact, OneReading, ArrivalAfter
<1>3. CASE UNCHANGED vars
  BY <1>3 DEF vars, Exact, InRange, OneReading, ArrivalAfter, Admitted, Arrived
<1> QED
  BY <1>1, <1>2, <1>3, ExactOnRead, ExactOnRefuse, ExactOnAdmit DEF Next, Allow, Over

\* For any number of calls that contend for one clock reading, any limit and any
\* window: together they are admitted a full window's worth, no call too many and,
\* for all the lost swaps, none too few (allow).
THEOREM BurstIsExact == Spec => []ExactBurst
<1>1. Init => Exact
  <2> SUFFICES ASSUME Init PROVE Exact
    OBVIOUS
  <2>1. Admitted = {} /\ Arrived = {} /\ tat = 0 /\ \A c \in Calls : pc[c] # "refused"
    BY DEF Init, Admitted, Arrived
  <2>2. Cardinality(Admitted) * Interval = 0
    BY <2>1, FS_EmptySet, IntervalFits, LimiterAssumption
  <2> QED
    BY <2>1, <2>2, LimiterAssumption DEF Exact
<1>2. RateInv /\ Exact /\ [Next]_vars => Exact'
  BY ExactStep
<1>3. RateInv /\ Exact => ExactBurst
  <2> SUFFICES ASSUME Exact, InRange, Interval > 0,
                      \A c, d \in Calls : Finished(c) /\ reading[c] = reading[d],
                      Admitted # Calls
               PROVE  Cardinality(Admitted) = Window \div Interval
    BY DEF ExactBurst
  <2>1. OneReading
    BY DEF OneReading, Arrived
  <2>2. PICK c \in Calls : pc[c] = "refused"
    BY DEF Admitted, Finished
  <2>3. /\ Cardinality(Admitted) * Interval <= Window
        /\ Cardinality(Admitted) * Interval + Interval > Window
    BY <2>1, <2>2 DEF Exact
  <2>4. Window \in Nat /\ Interval \in Nat \ {0} /\ Cardinality(Admitted) \in Nat
    BY IntervalFits, LimiterAssumption, AdmittedFinite
  <2> QED
    BY <2>3, <2>4, FitsExactly
<1> QED
  BY <1>1, <1>2, <1>3, RateHolds, PTL DEF Spec

-----------------------------------------------------------------------------
(* One decision at a time.                                                 *)

\* A call that returns has a verdict of its own, and the others keep theirs.
LEMMA VerdictMoves ==
    ASSUME TypeOK, NEW c \in Calls, NEW s \in {"load", "swap", "admitted", "refused"},
           pc' = [pc EXCEPT ![c] = s]
    PROVE  Verdicts' = [Verdicts EXCEPT ![c] = IF s \in {"load", "swap"} THEN "deciding" ELSE s]
<1>1. pc \in [Calls -> {"idle", "load", "swap", "admitted", "refused"}]
  BY DEF TypeOK
<1>2. \A d \in Calls : pc'[d] = IF d = c THEN s ELSE pc[d]
  BY <1>1
<1> QED
  BY <1>1, <1>2 DEF Verdicts

\* The arithmetic of the code, wrap-around and its detection included, is the
\* gate's exact one.
LEMMA SameArithmetic ==
    ASSUME TypeOK, NEW c \in Calls
    PROVE  /\ Empty(tat, reading[c]) <=> ~OneAtATime!HasRoom(c)
           /\ After(tat, reading[c]) = IF OneAtATime!Due(c) + OneAtATime!Spacing > MaxTime
                                       THEN MaxTime ELSE OneAtATime!Due(c) + OneAtATime!Spacing
<1>1. /\ tat \in 0 .. MaxTime /\ reading[c] \in 0 .. MaxTime /\ MaxTime \in Nat /\ Window \in Nat
      /\ Interval \in 0 .. Window /\ Window <= MaxTime
  BY IntervalFits, LimiterAssumption DEF TypeOK
<1>2. OneAtATime!Spacing = Interval /\ OneAtATime!Due(c) = Start(tat, reading[c])
  BY DEF OneAtATime!Spacing, OneAtATime!Due, Interval, Start, Later
<1>3. Start(tat, reading[c]) \in 0 .. MaxTime
  BY <1>1 DEF Start, Later
<1>4. Empty(tat, reading[c]) <=> ~OneAtATime!HasRoom(c)
  BY <1>1, <1>2, <1>3 DEF Empty, OneAtATime!HasRoom
<1>5. After(tat, reading[c]) = IF Start(tat, reading[c]) + Interval > MaxTime
                               THEN MaxTime ELSE Start(tat, reading[c]) + Interval
  BY <1>1, <1>3 DEF After, Wrapped
<1> QED
  BY <1>2, <1>4, <1>5

\* Loading, deciding and swapping take three steps in which other calls run; what
\* comes of them is decided at one instant, for each call on what the last admission
\* before it left (allow).
THEOREM DecidedOneAtATime == Spec => GateSpec
<1>1. Init => OneAtATime!Init
  BY DEF Init, OneAtATime!Init, Verdicts
<1>2. RateInv /\ [Next]_vars => [OneAtATime!Next]_OneAtATime!vars
  <2> SUFFICES ASSUME RateInv, [Next]_vars
               PROVE  OneAtATime!Next \/ UNCHANGED OneAtATime!vars
    OBVIOUS
  <2> USE DEF OneAtATime!vars
  <2>0. TypeOK /\ pc \in [Calls -> {"idle", "load", "swap", "admitted", "refused"}]
    BY DEF RateInv, TypeOK
  <2>1. ASSUME NEW c \in Calls, ReadClock(c) PROVE OneAtATime!Next
    <3>1. Verdicts[c] = "none" /\ Verdicts' = [Verdicts EXCEPT ![c] = "deciding"]
      BY <2>0, <2>1, VerdictMoves DEF ReadClock, Verdicts
    <3> QED
      BY <2>1, <3>1 DEF ReadClock, OneAtATime!Next, OneAtATime!Arrive
  <2>2. ASSUME NEW c \in Calls, Refuse(c) PROVE OneAtATime!Next
    <3>1. Verdicts[c] = "deciding" /\ Verdicts' = [Verdicts EXCEPT ![c] = "refused"]
      BY <2>0, <2>2, VerdictMoves DEF Refuse, Verdicts
    <3>2. ~OneAtATime!HasRoom(c)
      BY <2>0, <2>2, SameArithmetic DEF Refuse
    <3> QED
      BY <2>2, <3>1, <3>2 DEF Refuse, OneAtATime!Next, OneAtATime!Refuse
  <2>3. ASSUME NEW c \in Calls, Load(c) \/ LoseRace(c) PROVE UNCHANGED OneAtATime!vars
    <3>1. Verdicts' = Verdicts
      <4>1. pc[c] \in {"load", "swap"} /\ pc' = [pc EXCEPT ![c] = pc'[c]] /\ pc'[c] \in {"load", "swap"}
        BY <2>0, <2>3 DEF Load, LoseRace, LoadAgain
      <4> QED
        BY <2>0, <4>1 DEF Verdicts
    <3> QED
      BY <2>3, <3>1 DEF Load, LoseRace
  <2>4. ASSUME NEW c \in Calls, Admit(c) PROVE OneAtATime!Next
    <3>1. Verdicts[c] = "deciding" /\ Verdicts' = [Verdicts EXCEPT ![c] = "admitted"]
      BY <2>0, <2>4, VerdictMoves DEF Admit, Verdicts
    <3>2. old[c] = tat /\ ~Empty(old[c], reading[c])
      BY <2>4 DEF Admit, Unchanged, RateInv, Justified
    <3>3. OneAtATime!HasRoom(c)
      BY <2>0, <3>2, SameArithmetic
    <3>4. tat' = IF OneAtATime!Due(c) + OneAtATime!Spacing > MaxTime
                 THEN MaxTime ELSE OneAtATime!Due(c) + OneAtATime!Spacing
      BY <2>0, <2>4, <3>2, SameArithmetic DEF Admit
    <3> QED
      BY <2>4, <3>1, <3>3, <3>4 DEF Admit, OneAtATime!Next, OneAtATime!Admit
  <2>5. CASE Tick
    BY <2>5 DEF Tick, callVars, OneAtATime!Next, OneAtATime!Tick, Verdicts
  <2>6. CASE UNCHANGED vars
    BY <2>6 DEF vars, Verdicts
  <2> QED
    BY <2>1, <2>2, <2>3, <2>4, <2>5, <2>6 DEF Next, Allow, Over
<1> QED
  BY <1>1, <1>2, RateHolds, PTL DEF Spec, GateSpec, OneAtATime!Spec
=============================================================================
