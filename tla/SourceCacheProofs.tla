------------------------- MODULE SourceCacheProofs -------------------------
(***************************************************************************)
(* Type correctness of the call-site cache, SecondChance, NeverEvicted and *)
(* HeldOnce, for any number of goroutines, call sites and generations. The *)
(* first two rest on what the mutex is for: the three steps that publish a *)
(* rotation are taken by its holder only, and find hot and cold as the     *)
(* holder left them. The last two need what each lookup may still rely on  *)
(* (Current), what a full count says of the entries (Due, Kept), and that  *)
(* a generation somebody still points to is not handed out again.          *)
(***************************************************************************)
EXTENDS SourceCache, TLAPS

Lookups == [phase : Phases, site : Sites \cup {Nil},
            map : Maps \cup {Nil}, from : Maps \cup {Nil}]

\* A lookup under way is a lookup of a site.
Busy == \A g \in Goroutines : at[g].phase # "idle" => at[g].site \in Sites

\* The holder of the mutex, and what each of its steps finds.
Locked ==
    \A g \in Goroutines :
        /\ at[g].phase \in {"publishCold", "publishHot", "resetCount"} => rotating = g
        /\ at[g].phase = "publishCold" => at[g].map = hot
        /\ at[g].phase = "publishHot" => cold = hot

IInv == TypeOK /\ Busy /\ Locked

-----------------------------------------------------------------------------
(* Type correctness.                                                       *)

\* The collector leaves a heap of generations (Heap).
LEMMA HeapType ==
    ASSUME NEW c \in [Maps -> SUBSET Sites], Heap(c)
    PROVE  content' \in [Maps -> SUBSET Sites]
BY DEF Heap

\* A step of a lookup leaves its site, and the other lookups, as they are.
LEMMA StepType ==
    ASSUME TypeOK, Busy, NEW g \in Goroutines, at[g].phase # "idle",
           NEW p \in Phases \ {"idle"}, NEW m \in Maps \cup {Nil},
           \/ Goto(g, p)
           \/ GotoWith(g, p, m)
           \/ at' = [at EXCEPT ![g].phase = p, ![g].from = m]
    PROVE  at' \in [Goroutines -> Lookups] /\ Busy'
BY DEF TypeOK, Busy, Goto, GotoWith, Lookups, Phases

LEMMA IdleType == Idle \in Lookups /\ Idle.phase = "idle"
BY DEF Idle, Lookups, Phases

\* So does its return, which counts its site as used.
LEMMA ReturnType ==
    ASSUME TypeOK, Busy, NEW g \in Goroutines,
           NEW m \in [Sites -> 0..Max], ReturnHaving(g, m)
    PROVE  at' \in [Goroutines -> Lookups] /\ Busy' /\ met' \in [Sites -> 0..Max]
<1>1. at' \in [Goroutines -> Lookups] /\ Busy'
  BY IdleType DEF TypeOK, Busy, ReturnHaving, Lookups
<1>2. met' \in [Sites -> 0..Max]
  <2>1. 0 \in 0..Max
    BY SourceCacheAssumption
  <2>2. met' = m \/ met' = [m EXCEPT ![at[g].site] = 0]
    BY DEF ReturnHaving
  <2> QED BY <2>1, <2>2
<1> QED BY <1>1, <1>2

-----------------------------------------------------------------------------
(* Each step keeps the types and the sites of the lookups.                 *)

LEMMA InitHolds == Init => IInv
<1> SUFFICES ASSUME Init PROVE IInv
  OBVIOUS
<1>1. met \in [Sites -> 0..Max]
  BY SourceCacheAssumption DEF Init
<1>2. TypeOK
  BY <1>1, IdleType, SourceCacheAssumption DEF Init, TypeOK, Lookups
<1>3. Busy /\ Locked
  BY IdleType DEF Init, Busy, Locked
<1> QED BY <1>2, <1>3 DEF IInv

LEMMA LookupStep ==
    ASSUME TypeOK, Busy, NEW g \in Goroutines, NEW s \in Sites, Lookup(g, s)
    PROVE  TypeOK' /\ Busy'
<1>1. [phase |-> "readHot", site |-> s, map |-> hot, from |-> Nil] \in Lookups
  BY DEF TypeOK, Lookups, Phases
<1>2. at' \in [Goroutines -> Lookups] /\ Busy'
  BY <1>1 DEF Lookup, TypeOK, Busy, Lookups
<1>3. met' \in [Sites -> 0..Max] /\ crossed' \subseteq Sites /\ slipped' \in BOOLEAN
  <2>1. Max \in 0..Max
    BY SourceCacheAssumption
  <2> QED BY <2>1 DEF Lookup, TypeOK, history
<1> QED BY <1>2, <1>3 DEF Lookup, TypeOK, Lookups

LEMMA ReadStep ==
    ASSUME TypeOK, Busy, NEW g \in Goroutines,
           \/ ReadHot(g) \/ LoadCold(g) \/ ReadCold(g) \/ Resolve(g)
           \/ PromoteLoadHot(g) \/ Carry(g)
    PROVE  TypeOK' /\ Busy'
<1>1. CASE ReadHot(g)
  <2>1. content' \in [Maps -> SUBSET Sites]
    BY <1>1, HeapType DEF ReadHot, TypeOK
  <2>2. at' \in [Goroutines -> Lookups] /\ Busy' /\ met' \in [Sites -> 0..Max]
    <3>1. CASE Return(g)
      BY <3>1, ReturnType DEF TypeOK, Return
    <3>2. CASE Goto(g, "loadCold") /\ UNCHANGED met
      BY <1>1, <3>2, StepType DEF ReadHot, TypeOK, Phases
    <3> QED BY <1>1, <3>1, <3>2 DEF ReadHot
  <2> QED BY <1>1, <2>1, <2>2 DEF ReadHot, TypeOK, Lookups
<1>2. CASE LoadCold(g)
  <2>1. content' \in [Maps -> SUBSET Sites]
    BY <1>2, HeapType DEF LoadCold, TypeOK
  <2>2. at' \in [Goroutines -> Lookups] /\ Busy'
    BY <1>2, StepType DEF LoadCold, TypeOK, Phases
  <2> QED BY <1>2, <2>1, <2>2 DEF LoadCold, TypeOK, Lookups, history
<1>3. CASE ReadCold(g)
  <2>1. at' \in [Goroutines -> Lookups] /\ Busy'
    <3>1. CASE Goto(g, "resolve")
      BY <1>3, <3>1, StepType DEF ReadCold, TypeOK, Phases
    <3>2. CASE at' = [at EXCEPT ![g].phase = "promote", ![g].from = at[g].map]
      <4>1. at[g].map \in Maps \cup {Nil}
        BY DEF TypeOK
      <4> QED BY <1>3, <3>2, <4>1, StepType DEF ReadCold, Phases
    <3> QED BY <1>3, <3>1, <3>2 DEF ReadCold
  <2> QED BY <1>3, <2>1 DEF ReadCold, TypeOK, Lookups, history
<1>4. CASE Resolve(g)
  <2>1. content' \in [Maps -> SUBSET Sites]
    BY <1>4, HeapType DEF Resolve, TypeOK
  <2>2. at' \in [Goroutines -> Lookups] /\ Busy'
    BY <1>4, StepType DEF Resolve, TypeOK, Phases
  <2> QED BY <1>4, <2>1, <2>2 DEF Resolve, TypeOK, Lookups, history
<1>5. CASE PromoteLoadHot(g)
  <2>1. at' \in [Goroutines -> Lookups] /\ Busy'
    BY <1>5, StepType DEF PromoteLoadHot, TypeOK, Phases
  <2> QED BY <1>5, <2>1 DEF PromoteLoadHot, TypeOK, Lookups, history
<1>6. CASE Carry(g)
  <2>1. at' \in [Goroutines -> Lookups] /\ Busy'
    BY <1>6, StepType DEF Carry, TypeOK, Phases
  <2>2. at[g].site \in Sites
    BY <1>6 DEF Carry, Busy
  <2>3. content' \in [Maps -> SUBSET Sites]
    BY <1>6, <2>2 DEF Carry, TypeOK
  <2> QED BY <1>6, <2>1, <2>3 DEF Carry, TypeOK, Lookups, history
<1> QED BY <1>1, <1>2, <1>3, <1>4, <1>5, <1>6

LEMMA EndStep ==
    ASSUME TypeOK, Busy, NEW g \in Goroutines,
           Drop(g) \/ Store(g) \/ RotateLock(g) \/ ResetCount(g)
    PROVE  TypeOK' /\ Busy'
<1>1. CASE Drop(g)
  <2>1. at' \in [Goroutines -> Lookups] /\ Busy' /\ met' \in [Sites -> 0..Max]
    BY <1>1, ReturnType DEF Drop, Return, TypeOK
  <2>2. [content EXCEPT ![at[g].from] = WithoutPromoted(@, at[g].site)] \in [Maps -> SUBSET Sites]
    BY DEF TypeOK, WithoutPromoted
  <2>3. content' \in [Maps -> SUBSET Sites]
    BY <1>1, <2>2, HeapType DEF Drop
  <2> QED BY <1>1, <2>1, <2>3 DEF Drop, TypeOK, Lookups
<1>2. CASE Store(g)
  <2>1. at' \in [Goroutines -> Lookups] /\ Busy' /\ met' \in [Sites -> 0..Max]
    <3>1. CASE Return(g)
      BY <3>1, ReturnType DEF TypeOK, Return
    <3>2. CASE Goto(g, "count") /\ UNCHANGED met
      BY <1>2, <3>2, StepType DEF Store, TypeOK, Phases
    <3> QED BY <1>2, <3>1, <3>2 DEF Store
  <2>2. [content EXCEPT ![at[g].map] = @ \cup {at[g].site}] \in [Maps -> SUBSET Sites]
    BY <1>2 DEF TypeOK, Busy, Store
  <2>3. content' \in [Maps -> SUBSET Sites]
    BY <1>2, <2>2, HeapType DEF Store
  <2> QED BY <1>2, <2>1, <2>3 DEF Store, TypeOK, Lookups
<1>3. CASE RotateLock(g)
  <2>1. content' \in [Maps -> SUBSET Sites]
    BY <1>3, HeapType DEF RotateLock, TypeOK
  <2>2. at' \in [Goroutines -> Lookups] /\ Busy' /\ met' \in [Sites -> 0..Max]
    <3>1. CASE Return(g)
      BY <3>1, ReturnType DEF TypeOK, Return
    <3>2. CASE Goto(g, "publishCold") /\ UNCHANGED met
      BY <1>3, <3>2, StepType DEF RotateLock, TypeOK, Phases
    <3> QED BY <1>3, <3>1, <3>2 DEF RotateLock
  <2>3. rotating' \in Goroutines \cup {Nobody}
    BY <1>3 DEF RotateLock, TypeOK
  <2> QED BY <1>3, <2>1, <2>2, <2>3 DEF RotateLock, TypeOK, Lookups
<1>4. CASE ResetCount(g)
  <2>1. content' \in [Maps -> SUBSET Sites]
    BY <1>4, HeapType DEF ResetCount, TypeOK
  <2>2. at' \in [Goroutines -> Lookups] /\ Busy' /\ met' \in [Sites -> 0..Max]
    BY <1>4, ReturnType DEF ResetCount, Return, TypeOK
  <2> QED BY <1>4, <2>1, <2>2 DEF ResetCount, TypeOK, Lookups
<1> QED BY <1>1, <1>2, <1>3, <1>4

LEMMA CountStep ==
    ASSUME TypeOK, Busy, NEW g \in Goroutines, Count(g)
    PROVE  TypeOK' /\ Busy'
<1> DEFINE after == [s \in Sites |-> IF met[s] < Max THEN met[s] + 1 ELSE Max]
<1>1. after \in [Sites -> 0..Max]
  BY SourceCacheAssumption DEF TypeOK
<1>2. at' \in [Goroutines -> Lookups] /\ Busy' /\ met' \in [Sites -> 0..Max]
  <2>1. CASE Goto(g, "rotate") /\ met' = after
    BY <1>1, <2>1, StepType DEF Count, TypeOK, Phases
  <2>2. CASE ReturnHaving(g, after)
    BY <1>1, <2>2, ReturnType
  <2> HIDE DEF after
  <2>3. (Goto(g, "rotate") /\ met' = after) \/ ReturnHaving(g, after)
    BY DEF Count, after
  <2> QED BY <2>1, <2>2, <2>3
<1>3. content' \in [Maps -> SUBSET Sites]
  BY HeapType DEF Count, TypeOK
<1>4. n' \in Nat /\ slipped' \in BOOLEAN
  BY DEF Count, TypeOK
<1> QED BY <1>2, <1>3, <1>4 DEF Count, TypeOK, Lookups

LEMMA PublishStep ==
    ASSUME TypeOK, Busy, NEW g \in Goroutines, PublishCold(g) \/ PublishHot(g)
    PROVE  TypeOK' /\ Busy'
<1>1. CASE PublishCold(g)
  <2>1. at' \in [Goroutines -> Lookups] /\ Busy'
    BY <1>1, StepType DEF PublishCold, TypeOK, Phases
  <2>2. content' \in [Maps -> SUBSET Sites]
    BY <1>1, HeapType DEF PublishCold, TypeOK
  <2>3. Exempt \subseteq Sites
    BY DEF Exempt, Busy
  <2>4. met' \in [Sites -> 0..Max]
    <3>1. Max \in 0..Max
      BY SourceCacheAssumption
    <3> QED BY <1>1, <3>1 DEF PublishCold, TypeOK
  <2>5. cold' \in Maps \cup {Nil}
    BY <1>1 DEF PublishCold, TypeOK
  <2> QED BY <1>1, <2>1, <2>2, <2>3, <2>4, <2>5 DEF PublishCold, TypeOK, Lookups
<1>2. CASE PublishHot(g)
  <2>1. at' \in [Goroutines -> Lookups] /\ Busy'
    BY <1>2, StepType DEF PublishHot, TypeOK, Phases
  <2> QED BY <1>2, <2>1 DEF PublishHot, TypeOK, Lookups, history
<1> QED BY <1>1, <1>2

-----------------------------------------------------------------------------
(* The mutex.                                                              *)

Publishing == {"publishCold", "publishHot", "resetCount"}

\* A step outside a rotation, or one that ends it, disturbs nobody's.
LEMMA QuietLocked ==
    ASSUME TypeOK, Locked, NEW g \in Goroutines,
           \A h \in Goroutines \ {g} : at'[h] = at[h],
           at'[g].phase \notin Publishing,
           UNCHANGED <<hot, cold>>,
           \/ UNCHANGED rotating
           \/ rotating = g
    PROVE  Locked'
<1> SUFFICES ASSUME NEW h \in Goroutines, at'[h].phase \in Publishing
             PROVE  /\ rotating' = h
                    /\ at'[h].phase = "publishCold" => at'[h].map = hot'
                    /\ at'[h].phase = "publishHot" => cold' = hot'
  BY DEF Locked, Publishing
<1>1. h # g /\ at'[h] = at[h]
  OBVIOUS
<1>2. rotating = h
  BY <1>1 DEF Locked, Publishing
<1> QED BY <1>1, <1>2 DEF Locked

\* Where a step that takes no part in a rotation leaves its lookup.
LEMMA QuietStep ==
    ASSUME TypeOK, NEW g \in Goroutines,
           \/ \E s \in Sites : Lookup(g, s)
           \/ ReadHot(g) \/ LoadCold(g) \/ ReadCold(g) \/ Resolve(g)
           \/ PromoteLoadHot(g) \/ Carry(g) \/ Drop(g) \/ Store(g) \/ Count(g)
           \/ ResetCount(g)
    PROVE  /\ \A h \in Goroutines \ {g} : at'[h] = at[h]
           /\ at'[g].phase \notin Publishing
           /\ UNCHANGED <<hot, cold>>
           /\ ResetCount(g) \/ UNCHANGED rotating
<1>1. ASSUME NEW p \in Phases \ Publishing, Goto(g, p)
      PROVE  (\A h \in Goroutines \ {g} : at'[h] = at[h]) /\ at'[g].phase \notin Publishing
  BY <1>1 DEF Goto, TypeOK
<1>2. ASSUME NEW p \in Phases \ Publishing, NEW m, GotoWith(g, p, m)
      PROVE  (\A h \in Goroutines \ {g} : at'[h] = at[h]) /\ at'[g].phase \notin Publishing
  BY <1>2 DEF GotoWith, TypeOK
<1>3. ASSUME NEW m, ReturnHaving(g, m)
      PROVE  (\A h \in Goroutines \ {g} : at'[h] = at[h]) /\ at'[g].phase \notin Publishing
  BY <1>3, IdleType DEF ReturnHaving, TypeOK, Publishing
<1>4. {"idle", "readHot", "loadCold", "readCold", "promote", "carry", "drop", "resolve",
       "store", "count", "rotate"} \subseteq Phases \ Publishing
  BY DEF Phases, Publishing
<1>5. CASE \E s \in Sites : Lookup(g, s)
  BY <1>5 DEF Lookup, TypeOK, Publishing
<1>6. CASE ReadHot(g)
  BY <1>1, <1>3, <1>4, <1>6 DEF ReadHot, Return
<1>7. CASE LoadCold(g)
  BY <1>2, <1>4, <1>7 DEF LoadCold
<1>8. CASE ReadCold(g)
  <2>1. CASE Goto(g, "resolve")
    BY <1>1, <1>4, <1>8, <2>1 DEF ReadCold
  <2>2. CASE at' = [at EXCEPT ![g].phase = "promote", ![g].from = at[g].map]
    BY <1>8, <2>2 DEF ReadCold, TypeOK, Publishing
  <2> QED BY <1>8, <2>1, <2>2 DEF ReadCold
<1>9. CASE Resolve(g)
  BY <1>2, <1>4, <1>9 DEF Resolve
<1>10. CASE PromoteLoadHot(g)
  BY <1>2, <1>4, <1>10 DEF PromoteLoadHot
<1>11. CASE Carry(g)
  BY <1>1, <1>4, <1>11 DEF Carry
<1>12. CASE Drop(g)
  BY <1>3, <1>12 DEF Drop, Return
<1>13. CASE Store(g)
  BY <1>1, <1>3, <1>4, <1>13 DEF Store, Return
<1>14. CASE Count(g)
  <2> DEFINE after == [s \in Sites |-> IF met[s] < Max THEN met[s] + 1 ELSE Max]
  <2>1. Goto(g, "rotate") \/ ReturnHaving(g, after)
    BY <1>14 DEF Count
  <2> HIDE DEF after
  <2>2. (\A h \in Goroutines \ {g} : at'[h] = at[h]) /\ at'[g].phase \notin Publishing
    BY <1>1, <1>3, <1>4, <2>1
  <2> QED BY <1>14, <2>2 DEF Count
<1>15. CASE ResetCount(g)
  BY <1>3, <1>15 DEF ResetCount, Return
<1> QED BY <1>5, <1>6, <1>7, <1>8, <1>9, <1>10, <1>11, <1>12, <1>13, <1>14, <1>15

\* The mutex admits one rotation, whose steps follow each other.
LEMMA RotationLocked ==
    ASSUME TypeOK, Locked, NEW g \in Goroutines,
           RotateLock(g) \/ PublishCold(g) \/ PublishHot(g)
    PROVE  Locked'
<1>1. ASSUME NEW h \in Goroutines, h # g, at[h].phase \in Publishing PROVE FALSE
  <2>1. rotating = h
    BY <1>1 DEF Locked, Publishing
  <2>2. rotating = Nobody \/ rotating = g
    BY DEF RotateLock, PublishCold, PublishHot, Locked
  <2> QED BY <1>1, <2>1, <2>2, SourceCacheAssumption
<1>2. \A h \in Goroutines \ {g} : at'[h] = at[h]
  BY DEF RotateLock, PublishCold, PublishHot, Return, ReturnHaving, Goto, TypeOK
<1>3. /\ at'[g].phase \in Publishing => rotating' = g
      /\ at'[g].phase = "publishCold" => at'[g].map = hot'
      /\ at'[g].phase = "publishHot" => cold' = hot'
  <2>1. CASE RotateLock(g)
    BY <2>1, IdleType DEF RotateLock, StillFilling, Return, ReturnHaving, Goto, TypeOK, Publishing
  <2>2. CASE PublishCold(g)
    BY <2>2 DEF PublishCold, Locked, Goto, TypeOK, Publishing
  <2>3. CASE PublishHot(g)
    BY <2>3 DEF PublishHot, Locked, Goto, TypeOK, Publishing
  <2> QED BY <2>1, <2>2, <2>3
<1> QED BY <1>1, <1>2, <1>3 DEF Locked, Publishing

-----------------------------------------------------------------------------
(* The theorems.                                                           *)

LEMMA StepHolds == ASSUME IInv, [Next]_vars PROVE IInv'
<1> USE DEF IInv
<1>1. CASE UNCHANGED vars
  BY <1>1 DEF TypeOK, Busy, Locked, vars, history
<1>2. CASE Next
  <2>1. PICK g \in Goroutines :
          \/ \E s \in Sites : Lookup(g, s)
          \/ ReadHot(g) \/ LoadCold(g) \/ ReadCold(g) \/ Resolve(g)
          \/ PromoteLoadHot(g) \/ Carry(g) \/ Drop(g)
          \/ Store(g) \/ Count(g) \/ RotateLock(g)
          \/ PublishCold(g) \/ PublishHot(g) \/ ResetCount(g)
    BY <1>2 DEF Next
  <2>2. TypeOK' /\ Busy'
    BY <2>1, LookupStep, ReadStep, EndStep, CountStep, PublishStep
  <2>3. Locked'
    <3>1. CASE RotateLock(g) \/ PublishCold(g) \/ PublishHot(g)
      BY <3>1, RotationLocked
    <3>2. CASE ~(RotateLock(g) \/ PublishCold(g) \/ PublishHot(g))
      <4>1. ResetCount(g) => rotating = g
        BY DEF ResetCount, Locked
      <4> QED BY <2>1, <3>2, <4>1, QuietStep, QuietLocked
    <3> QED BY <3>1, <3>2
  <2> QED BY <2>2, <2>3
<1> QED BY <1>1, <1>2

LEMMA InvHolds == Spec => []IInv
BY InitHolds, StepHolds, PTL DEF Spec

\* Every pointer, generation, count and lookup keeps its type, whatever lookups
\* interleave with a rotation (attr.go, sourceCache).
THEOREM TypeCorrect == Spec => []TypeOK
<1>1. IInv => TypeOK
  BY DEF IInv
<1> QED BY <1>1, InvHolds, PTL

\* A generation is dropped only after a whole term as cold: no two rotations of
\* one generation, and no rotation by a goroutine that comes late, can drop
\* entries that never were in cold (attr.go, rotate).
THEOREM SecondChanceHolds == Spec => SecondChance
<1>1. ASSUME IInv, [Next]_vars
      PROVE  [/\ hot' # hot => cold = hot
              /\ cold' # cold => cold' = hot]_vars
  <2>1. CASE UNCHANGED vars
    BY <2>1
  <2>2. CASE Next
    <3>1. PICK g \in Goroutines :
            \/ \E s \in Sites : Lookup(g, s)
            \/ ReadHot(g) \/ LoadCold(g) \/ ReadCold(g) \/ Resolve(g)
            \/ PromoteLoadHot(g) \/ Carry(g) \/ Drop(g)
            \/ Store(g) \/ Count(g) \/ RotateLock(g)
            \/ PublishCold(g) \/ PublishHot(g) \/ ResetCount(g)
      BY <2>2 DEF Next
    <3>2. CASE PublishCold(g) \/ PublishHot(g)
      BY <1>1, <3>2 DEF IInv, Locked, PublishCold, PublishHot
    <3>3. CASE ~(PublishCold(g) \/ PublishHot(g))
      <4>1. UNCHANGED <<hot, cold>>
        BY <1>1, <3>1, <3>3, QuietStep DEF IInv, RotateLock
      <4> QED BY <4>1
    <3> QED BY <3>2, <3>3
  <2> QED BY <1>1, <2>1, <2>2
<1> QED BY <1>1, InvHolds, PTL DEF Spec, SecondChance

-----------------------------------------------------------------------------
(* What the cache keeps.                                                   *)

\* A lookup under way whose use will count: no rotation has published anything
\* since it began.
Counts(g) == at[g].phase # "idle" /\ at[g].site \notin crossed

\* Whoever has published cold and not yet reset the count.
Halfway(h) == at[h].phase \in {"publishHot", "resetCount"}
Resetting == \E h \in Goroutines : at[h].phase = "resetCount"

\* The pointers that a lookup has at each phase.
Pointers(g) ==
    /\ at[g].phase = "idle" => at[g] = Idle
    /\ at[g].phase \in {"readHot", "loadCold", "readCold"} => at[g].from = Nil
    /\ at[g].phase = "promote" => at[g].from = at[g].map

\* The generations a step leaves without a pointer to them were collected: what
\* PublishHot takes is empty.
Collected ==
    /\ \A m \in Maps \ Referenced : content[m] = {}
    /\ \A g \in Goroutines : Pointers(g)

\* A lookup of the generations of the moment: what it has loaded, not found and put where.
CurrentAt(g) ==
    /\ ~Halfway(g)
    /\ at[g].phase \in {"readHot", "loadCold", "carry", "drop", "store", "count", "rotate",
                        "publishCold"} => at[g].map = hot
    /\ at[g].phase = "readCold" => at[g].map = cold
    /\ at[g].phase \in {"promote", "carry", "drop"} => at[g].from = cold
    /\ at[g].phase \in {"resolve", "store"} => cold = Nil \/ at[g].site \notin content[cold]
    /\ at[g].phase \in {"drop", "count", "rotate", "publishCold"} => at[g].site \in content[hot]

\* A lookup whose use will count works on the generations of the moment.
Current == \A g \in Goroutines : Counts(g) => CurrentAt(g)

\* A rotation crosses every lookup under way, and only between its two pointers
\* is one generation both hot and cold.
Crossing ==
    /\ \A h \in Goroutines : Halfway(h) => \A g \in Goroutines : ~Counts(g)
    /\ cold = hot => \E h \in Goroutines : at[h].phase = "publishHot"
    /\ \A s \in crossed : met[s] = Max

\* Whoever is about to retire the hot generation has counted it full, since the
\* last reset of the count or in the gap that slipped remembers.
Due ==
    \A g \in Goroutines :
        at[g].phase \in {"rotate", "publishCold"} /\ at[g].map = hot /\ cold # hot =>
            slipped \/ (n >= Max /\ ~Resetting)

\* What was used within the last Max discoveries is in hot, or in cold and used
\* before the count began: a full count finds it in hot.
Kept ==
    \A s \in Sites : met[s] < Max =>
        s \in content[hot] \/ (cold # Nil /\ s \in content[cold] /\ (Resetting \/ met[s] >= n))

CacheInv == IInv /\ Collected /\ Current /\ Crossing /\ Due /\ Kept /\ HeldOnce

\* The heap after a collection: what a pointer leads to is as the step left it.
LEMMA HeapKeeps ==
    ASSUME TypeOK, TypeOK', NEW c, Heap(c)
    PROVE  /\ content'[hot'] = c[hot']
           /\ cold' # Nil => content'[cold'] = c[cold']
           /\ \A m \in Maps \ Referenced' : content'[m] = {}
<1>1. \A m \in Maps : content'[m] = IF m \in Referenced' THEN c[m] ELSE {}
  BY DEF Heap
<1>2. hot' \in Referenced' /\ cold' \in Referenced'
  BY DEF Referenced
<1>3. hot' \in Maps /\ (cold' # Nil => cold' \in Maps)
  BY DEF TypeOK
<1> QED
  BY <1>1, <1>2, <1>3

\* A step of lookup g outside a rotation, which leaves the two generations alone but
\* for the sites of crossed lookups, and for what g itself carries, drops or stores.
Within(g) ==
    /\ \A h \in Goroutines \ {g} : at'[h] = at[h]
    /\ ~Halfway(g) /\ ~Halfway(g)'
    /\ UNCHANGED <<hot, cold, n, crossed, slipped>>
    /\ at'[g].phase \in {"rotate", "publishCold"} => at[g].phase = "rotate" /\ at'[g].map = at[g].map
    /\ at'[g].phase # "idle" => at[g].phase # "idle" /\ at'[g].site = at[g].site

\* Such a step keeps the facts about rotations.
LEMMA WithinKeeps ==
    ASSUME CacheInv, NEW g \in Goroutines, Within(g), \A s \in crossed : met'[s] = met[s]
    PROVE  Crossing' /\ Due' /\ (Resetting' <=> Resetting)
<1>1. /\ \A h \in Goroutines : Halfway(h)' <=> Halfway(h)
      /\ \A h \in Goroutines : at'[h].phase = "publishHot" <=> at[h].phase = "publishHot"
      /\ \A h \in Goroutines : at'[h].phase = "resetCount" <=> at[h].phase = "resetCount"
      /\ \A h \in Goroutines : Counts(h)' => Counts(h)
      /\ UNCHANGED <<hot, cold, n, crossed, slipped>>
  BY DEF Within, Halfway, Counts
<1>2. Crossing'
  BY <1>1 DEF CacheInv, Crossing
<1>3. Resetting' <=> Resetting
  BY <1>1 DEF Resetting
<1>4. Due'
  <2>1. \A h \in Goroutines : at'[h].phase \in {"rotate", "publishCold"} =>
          at[h].phase \in {"rotate", "publishCold"} /\ at'[h].map = at[h].map
    BY DEF Within
  <2> QED
    BY <1>1, <1>3, <2>1 DEF CacheInv, Due
<1> QED
  BY <1>2, <1>3, <1>4

\* Current outlives a step that leaves both generations alone for sites not crossed,
\* or adds to hot only: only the lookup that moves is to be looked at.
LEMMA WithinCurrent ==
    ASSUME CacheInv, NEW g \in Goroutines, Within(g),
           \A s \in Sites \ crossed : /\ s \in content[hot] => s \in content'[hot]
                                      /\ cold # Nil /\ s \in content'[cold] => s \in content[cold],
           Counts(g)' => CurrentAt(g)'
    PROVE  Current'
<1> SUFFICES ASSUME NEW h \in Goroutines, Counts(h)' PROVE CurrentAt(h)'
  BY DEF Current
<1>1. CASE h = g
  BY <1>1
<1>2. CASE h # g
  <2>1. at'[h] = at[h] /\ UNCHANGED <<hot, cold, crossed>>
    BY <1>2 DEF Within
  <2>2. Counts(h) /\ at[h].site \in Sites \ crossed
    BY <2>1 DEF Counts, CacheInv, IInv, Busy
  <2>3. CurrentAt(h)
    BY <2>2 DEF CacheInv, Current
  <2> QED
    BY <2>1, <2>2, <2>3 DEF CurrentAt, Halfway
<1> QED
  BY <1>1, <1>2

\* The lookups that only look: nothing of either generation changes.
LEMMA LookingKeeps ==
    ASSUME CacheInv, TypeOK', NEW g \in Goroutines, Within(g), met' = met,
           at[g].phase # "drop",
           content'[hot] = content[hot], cold # Nil => content'[cold] = content[cold],
           Counts(g)' => CurrentAt(g)'
    PROVE  Current' /\ Crossing' /\ Due' /\ Kept' /\ HeldOnce'
<1>1. Crossing' /\ Due' /\ (Resetting' <=> Resetting) /\ UNCHANGED <<hot, cold, n, crossed>>
  BY WithinKeeps DEF Within
<1>2. Current'
  BY WithinCurrent
<1>3. Kept'
  BY <1>1 DEF CacheInv, Kept
<1>4. HeldOnce'
  <2>1. \A h \in Goroutines : at[h].phase = "drop" => at'[h] = at[h]
    BY DEF Within
  <2> QED
    BY <1>1, <2>1 DEF CacheInv, HeldOnce
<1> QED
  BY <1>1, <1>2, <1>3, <1>4

-----------------------------------------------------------------------------
(* The steps of a lookup outside a rotation.                               *)

\* Reading, loading a pointer and symbolizing.
LEMMA LookKeeps ==
    ASSUME CacheInv, TypeOK', NEW g \in Goroutines,
           \/ ReadHot(g) /\ ~Return(g)
           \/ LoadCold(g) \/ ReadCold(g) \/ Resolve(g) \/ PromoteLoadHot(g)
    PROVE  Current' /\ Crossing' /\ Due' /\ Kept' /\ HeldOnce'
<1>0. CacheInv /\ TypeOK /\ (Counts(g) => CurrentAt(g)) /\ at \in [Goroutines -> Lookups]
  BY DEF CacheInv, IInv, Current, TypeOK, Lookups
<1>1. CASE ReadHot(g) /\ ~Return(g)
  <2>1. Goto(g, "loadCold") /\ Heap(content) /\ UNCHANGED <<met, hot, cold, n, crossed, slipped>>
    BY <1>1 DEF ReadHot
  <2>2. Within(g) /\ at[g].phase # "drop"
    BY <1>0, <1>1, <2>1 DEF ReadHot, Goto, Within, Halfway
  <2>3. content'[hot] = content[hot] /\ (cold # Nil => content'[cold] = content[cold])
    BY <1>0, <2>1, HeapKeeps
  <2>4. Counts(g)' => CurrentAt(g)'
    BY <1>0, <1>1, <2>1 DEF ReadHot, Goto, Counts, CurrentAt, Halfway
  <2> QED
    BY <2>1, <2>2, <2>3, <2>4, LookingKeeps
<1>2. CASE LoadCold(g)
  <2>1. Heap(content) /\ UNCHANGED <<met, hot, cold, n, crossed, slipped>>
    BY <1>2 DEF LoadCold, history
  <2>2. Within(g) /\ at[g].phase # "drop"
    BY <1>0, <1>2, <2>1 DEF LoadCold, GotoWith, Within, Halfway
  <2>3. content'[hot] = content[hot] /\ (cold # Nil => content'[cold] = content[cold])
    BY <1>0, <2>1, HeapKeeps
  <2>4. Counts(g)' => CurrentAt(g)'
    BY <1>0, <1>2, <2>1 DEF LoadCold, GotoWith, Counts, CurrentAt, Halfway
  <2> QED
    BY <2>1, <2>2, <2>3, <2>4, LookingKeeps
<1>3. CASE ReadCold(g)
  <2>1. UNCHANGED <<met, hot, cold, n, crossed, slipped, content>> /\ at[g].phase = "readCold"
    BY <1>3 DEF ReadCold, history
  <2>2. /\ \A h \in Goroutines \ {g} : at'[h] = at[h]
        /\ at'[g].site = at[g].site /\ at'[g].map = at[g].map
        /\ \/ at'[g].phase = "resolve" /\ at[g].site \notin content[at[g].map]
           \/ at'[g].phase = "promote" /\ at'[g].from = at[g].map
    <3>1. CASE at' = [at EXCEPT ![g].phase = "promote", ![g].from = at[g].map]
      BY <1>0, <3>1
    <3>2. CASE Goto(g, "resolve") /\ at[g].site \notin content[at[g].map]
      BY <1>0, <3>2 DEF Goto
    <3> QED
      BY <1>3, <3>1, <3>2 DEF ReadCold
  <2>3. Within(g) /\ at[g].phase # "drop"
    BY <2>1, <2>2 DEF Within, Halfway
  <2>4. Counts(g)' => CurrentAt(g)'
    BY <1>0, <2>1, <2>2 DEF Counts, CurrentAt, Halfway
  <2> QED
    BY <2>1, <2>3, <2>4, LookingKeeps
<1>4. CASE Resolve(g)
  <2>1. Heap(content) /\ UNCHANGED <<met, hot, cold, n, crossed, slipped>>
    BY <1>4 DEF Resolve, history
  <2>2. Within(g) /\ at[g].phase # "drop"
    BY <1>0, <1>4, <2>1 DEF Resolve, GotoWith, Within, Halfway
  <2>3. content'[hot] = content[hot] /\ (cold # Nil => content'[cold] = content[cold])
    BY <1>0, <2>1, HeapKeeps
  <2>4. Counts(g)' => CurrentAt(g)'
    BY <1>0, <1>4, <2>1, <2>3 DEF Resolve, GotoWith, Counts, CurrentAt, Halfway
  <2> QED
    BY <2>1, <2>2, <2>3, <2>4, LookingKeeps
<1>5. CASE PromoteLoadHot(g)
  <2>1. UNCHANGED <<met, hot, cold, n, crossed, slipped, content>>
    BY <1>5 DEF PromoteLoadHot, history
  <2>2. Within(g) /\ at[g].phase # "drop"
    BY <1>0, <1>5, <2>1 DEF PromoteLoadHot, GotoWith, Within, Halfway
  <2>3. Counts(g)' => CurrentAt(g)'
    BY <1>0, <1>5, <2>1 DEF PromoteLoadHot, GotoWith, Counts, CurrentAt, Halfway
  <2> QED
    BY <2>1, <2>2, <2>3, LookingKeeps
<1> QED
  BY <1>1, <1>2, <1>3, <1>4, <1>5

\* A site put in the generation a lookup loaded: in hot, if its use counts.
LEMMA PutKeeps ==
    ASSUME CacheInv, TypeOK', NEW g \in Goroutines, Within(g), met' = met,
           at[g].phase \in {"carry", "store"}, at[g].phase = "carry" => at'[g].phase = "drop",
           at[g].phase = "store" => at'[g].phase \in {"idle", "count"},
           at'[g].phase # "idle" => at'[g].map = at[g].map /\ at'[g].from = at[g].from,
           \A m \in {hot, cold} \ {Nil} : content'[m] =
             IF m = at[g].map THEN content[m] \cup {at[g].site} ELSE content[m]
    PROVE  Current' /\ Crossing' /\ Due' /\ Kept' /\ HeldOnce'
<1>0. /\ TypeOK /\ (Counts(g) => CurrentAt(g)) /\ at[g].phase # "idle" /\ at[g].site \in Sites
      /\ UNCHANGED <<hot, cold, n, crossed>> /\ hot # Nil
  BY SourceCacheAssumption DEF CacheInv, IInv, Current, TypeOK, Busy, Within
<1>1. Crossing' /\ Due' /\ (Resetting' <=> Resetting)
  BY WithinKeeps
<1>2. Counts(g) => at[g].map = hot /\ cold # hot
  BY <1>0 DEF CurrentAt, CacheInv, Crossing, Halfway
<1>3. \A s \in Sites \ crossed :
        /\ s \in content'[hot] <=> s \in content[hot] \/ (at[g].map = hot /\ s = at[g].site)
        /\ cold # Nil => (s \in content'[cold] <=> s \in content[cold])
  BY <1>0, <1>2 DEF Counts
<1>4. Current'
  <2>1. Counts(g)' => CurrentAt(g)'
    BY <1>0, <1>2, <1>3 DEF Counts, CurrentAt, Halfway, Within
  <2> QED
    BY <1>0, <1>3, <2>1, WithinCurrent
<1>5. Kept'
  <2>1. \A s \in Sites : met[s] < Max => s \notin crossed
    BY SourceCacheAssumption DEF CacheInv, Crossing
  <2> QED
    BY <1>0, <1>1, <1>3, <2>1 DEF CacheInv, Kept
<1>6. HeldOnce'
  <2> SUFFICES ASSUME cold \notin {Nil, hot}, NEW s \in (content'[hot] \cap content'[cold]) \ crossed
               PROVE  \E h \in Goroutines : at'[h].phase = "drop" /\ at'[h].site = s
    BY <1>0 DEF HeldOnce
  <2>1. s \in Sites
    BY <1>0 DEF TypeOK
  <2>2. CASE s \in content[hot]
    <3>1. PICK h \in Goroutines : at[h].phase = "drop" /\ at[h].site = s
      BY <1>3, <2>1, <2>2 DEF CacheInv, HeldOnce
    <3> QED
      BY <3>1 DEF Within
  <2>3. CASE s \notin content[hot]
    <3>1. s = at[g].site /\ s \in content[cold]
      BY <1>3, <2>1, <2>3
    <3>2. at[g].phase = "carry"
      BY <1>0, <3>1 DEF Counts, CurrentAt
    <3>3. at'[g].phase = "drop" /\ at'[g].site = s
      BY <3>1, <3>2 DEF Within
    <3> QED
      BY <3>3
  <2> QED
    BY <2>2, <2>3
<1> QED
  BY <1>1, <1>4, <1>5, <1>6

\* A lookup returns: its site is in hot, if its use counts, and a promotion has left
\* nothing behind in cold.
LEMMA ReturnKeeps ==
    ASSUME CacheInv, TypeOK', NEW g \in Goroutines, Within(g), Return(g), at[g].phase # "idle",
           Counts(g) => at[g].site \in content[hot],
           \A s \in Sites \ crossed :
             /\ s \in content'[hot] <=> s \in content[hot]
             /\ cold # Nil => (s \in content'[cold] <=>
                  s \in content[cold] /\ ~(at[g].phase = "drop" /\ s = at[g].site))
    PROVE  Current' /\ Crossing' /\ Due' /\ Kept' /\ HeldOnce'
<1>0. /\ TypeOK /\ at[g].site \in Sites /\ UNCHANGED <<hot, cold, n, crossed>>
      /\ at'[g].phase = "idle"
  BY IdleType DEF CacheInv, IInv, TypeOK, Busy, Within, Return, ReturnHaving
<1>1. \A s \in Sites : met'[s] = IF s = at[g].site /\ s \notin crossed THEN 0 ELSE met[s]
  BY <1>0 DEF Return, ReturnHaving, TypeOK
<1>2. Crossing' /\ Due' /\ (Resetting' <=> Resetting)
  <2>1. \A s \in crossed : met'[s] = met[s]
    BY <1>0, <1>1 DEF TypeOK
  <2> QED
    BY <2>1, WithinKeeps
<1>3. Current'
  <2>1. ~Counts(g)'
    BY <1>0 DEF Counts
  <2> QED
    BY <2>1, WithinCurrent
<1>4. Kept'
  <2> SUFFICES ASSUME NEW s \in Sites, met'[s] < Max
               PROVE  s \in content'[hot]
                        \/ (cold # Nil /\ s \in content'[cold] /\ (Resetting \/ met'[s] >= n))
    BY <1>0, <1>2 DEF Kept
  <2>1. CASE s = at[g].site /\ s \notin crossed
    <3>1. Counts(g)
      BY <2>1 DEF Counts
    <3> QED
      BY <2>1, <3>1
  <2>2. CASE ~(s = at[g].site /\ s \notin crossed)
    <3>1. met'[s] = met[s] /\ s \notin crossed
      BY <1>1, <2>2, SourceCacheAssumption DEF CacheInv, Crossing
    <3> QED
      BY <2>2, <3>1 DEF CacheInv, Kept
  <2> QED
    BY <2>1, <2>2
<1>5. HeldOnce'
  <2> SUFFICES ASSUME cold \notin {Nil, hot}, NEW s \in (content'[hot] \cap content'[cold]) \ crossed
               PROVE  \E h \in Goroutines : at'[h].phase = "drop" /\ at'[h].site = s
    BY <1>0 DEF HeldOnce
  <2>1. s \in Sites
    BY <1>0 DEF TypeOK
  <2>2. PICK h \in Goroutines : at[h].phase = "drop" /\ at[h].site = s
    BY <2>1 DEF CacheInv, HeldOnce
  <2>3. h # g
    BY <2>1, <2>2
  <2> QED
    BY <2>2, <2>3 DEF Within
<1> QED
  BY <1>2, <1>3, <1>4, <1>5

\* The steps that put a site somewhere, and those that end a lookup.
LEMMA PutOrReturnKeeps ==
    ASSUME CacheInv, TypeOK', NEW g \in Goroutines,
           \/ ReadHot(g) /\ Return(g)
           \/ Carry(g) \/ Store(g) \/ Drop(g)
           \/ RotateLock(g) /\ Return(g) /\ UNCHANGED rotating
    PROVE  Current' /\ Crossing' /\ Due' /\ Kept' /\ HeldOnce'
<1>0. /\ TypeOK /\ (Counts(g) => CurrentAt(g)) /\ at \in [Goroutines -> Lookups]
      /\ hot \in Maps /\ (cold # Nil => cold \in Maps) /\ Nil \notin Maps
      /\ content \in [Maps -> SUBSET Sites]
  BY SourceCacheAssumption DEF CacheInv, IInv, Current, TypeOK, Lookups
<1>1. ASSUME Return(g), at[g].phase \in {"readHot", "store", "drop", "rotate"},
             UNCHANGED <<hot, cold, n, crossed, slipped>>
      PROVE  Within(g) /\ at[g].phase # "idle"
  BY <1>0, <1>1, IdleType DEF Return, ReturnHaving, Within, Halfway
<1>2. CASE ReadHot(g) /\ Return(g)
  <2>1. /\ at[g].phase = "readHot" /\ at[g].site \in content[at[g].map]
        /\ UNCHANGED <<hot, cold, n, crossed, slipped>> /\ Heap(content)
    <3>1. at'[g].phase = "idle"
      BY <1>0, <1>2, IdleType DEF Return, ReturnHaving
    <3>2. ~Goto(g, "loadCold")
      BY <1>0, <3>1 DEF Goto, Lookups
    <3> QED
      BY <1>2, <3>2 DEF ReadHot
  <2>2. content'[hot] = content[hot] /\ (cold # Nil => content'[cold] = content[cold])
    BY <1>0, <2>1, HeapKeeps
  <2>3. Counts(g) => at[g].site \in content[hot]
    BY <1>0, <2>1 DEF CurrentAt
  <2> QED
    BY <1>1, <1>2, <2>1, <2>2, <2>3, ReturnKeeps
<1>3. CASE Carry(g)
  <2>1. /\ at[g].phase = "carry" /\ Goto(g, "drop")
        /\ content' = [content EXCEPT ![at[g].map] = @ \cup {at[g].site}]
        /\ UNCHANGED <<met, hot, cold, n, crossed, slipped>>
    BY <1>3 DEF Carry, history
  <2>2. Within(g) /\ at'[g].phase = "drop" /\ at'[g].map = at[g].map /\ at'[g].from = at[g].from
    BY <1>0, <2>1 DEF Goto, Within, Halfway
  <2>3. \A m \in {hot, cold} \ {Nil} : content'[m] =
           IF m = at[g].map THEN content[m] \cup {at[g].site} ELSE content[m]
    BY <1>0, <2>1
  <2> QED
    BY <2>1, <2>2, <2>3, PutKeeps
<1>4. CASE Store(g)
  <2> DEFINE stored == [content EXCEPT ![at[g].map] = @ \cup {at[g].site}]
  <2>1. /\ at[g].phase = "store" /\ Heap(stored)
        /\ UNCHANGED <<hot, cold, n, crossed, slipped>>
    BY <1>4 DEF Store
  <2>2. \A m \in Maps : stored[m] = IF m = at[g].map THEN content[m] \cup {at[g].site} ELSE content[m]
    BY <1>0
  <2> HIDE DEF stored
  <2>3. \A m \in {hot, cold} \ {Nil} : content'[m] =
           IF m = at[g].map THEN content[m] \cup {at[g].site} ELSE content[m]
    BY <1>0, <2>1, <2>2, HeapKeeps
  <2>4. CASE Goto(g, "count") /\ UNCHANGED met
    <3>1. /\ Within(g) /\ at'[g].phase = "count"
          /\ at'[g].map = at[g].map /\ at'[g].from = at[g].from
      BY <1>0, <2>1, <2>4 DEF Goto, Within, Halfway
    <3> QED
      BY <2>1, <2>3, <2>4, <3>1, PutKeeps
  <2>5. CASE at[g].site \in content[at[g].map] /\ Return(g)
    <3>1. content'[hot] = content[hot] /\ (cold # Nil => content'[cold] = content[cold])
      BY <1>0, <2>3, <2>5
    <3>2. Counts(g) => at[g].site \in content[hot]
      BY <1>0, <2>1, <2>5 DEF CurrentAt
    <3> QED
      BY <1>1, <2>1, <2>5, <3>1, <3>2, ReturnKeeps
  <2> QED
    BY <1>4, <2>4, <2>5 DEF Store
<1>5. CASE Drop(g)
  <2> DEFINE dropped == [content EXCEPT ![at[g].from] = WithoutPromoted(@, at[g].site)]
  <2>1. /\ at[g].phase = "drop" /\ Heap(dropped) /\ Return(g)
        /\ UNCHANGED <<hot, cold, n, crossed, slipped>>
    BY <1>5 DEF Drop
  <2>2. \A m \in Maps : dropped[m] = IF m = at[g].from THEN content[m] \ {at[g].site} ELSE content[m]
    BY <1>0 DEF WithoutPromoted
  <2> HIDE DEF dropped
  <2>3. content'[hot] = dropped[hot] /\ (cold # Nil => content'[cold] = dropped[cold])
    BY <1>0, <2>1, HeapKeeps
  <2>4. Counts(g) => at[g].from = cold /\ cold # hot /\ at[g].site \in content[hot]
    BY <1>0, <2>1 DEF CurrentAt, CacheInv, Crossing, Halfway
  <2>5. \A s \in Sites \ crossed :
          /\ s \in content'[hot] <=> s \in content[hot]
          /\ cold # Nil => (s \in content'[cold] <=> s \in content[cold] /\ s # at[g].site)
    <3>1. CASE Counts(g)
      BY <1>0, <2>2, <2>3, <2>4, <3>1
    <3>2. CASE ~Counts(g)
      <4>1. at[g].site \in crossed
        BY <2>1, <3>2 DEF Counts
      <4> QED
        BY <1>0, <2>2, <2>3, <4>1
    <3> QED
      BY <3>1, <3>2
  <2> QED
    BY <1>1, <2>1, <2>4, <2>5, ReturnKeeps
<1>6. CASE RotateLock(g) /\ Return(g) /\ UNCHANGED rotating
  <2>1. /\ at[g].phase = "rotate" /\ Heap(content) /\ at[g].map # hot
        /\ UNCHANGED <<hot, cold, n, crossed, slipped>>
    BY <1>0, <1>6, SourceCacheAssumption DEF RotateLock, StillFilling
  <2>2. content'[hot] = content[hot] /\ (cold # Nil => content'[cold] = content[cold])
    BY <1>0, <2>1, HeapKeeps
  <2>3. ~Counts(g)
    BY <1>0, <2>1 DEF CurrentAt
  <2> QED
    BY <1>1, <1>6, <2>1, <2>2, <2>3, ReturnKeeps
<1> QED
  BY <1>2, <1>3, <1>4, <1>5, <1>6

-----------------------------------------------------------------------------
(* A lookup begins, counts its discovery, and rotates.                     *)

\* A lookup begins, crossed by the rotation under way if there is one.
LEMMA LookupKeeps ==
    ASSUME CacheInv, TypeOK', NEW g \in Goroutines, NEW s \in Sites, Lookup(g, s)
    PROVE  Current' /\ Crossing' /\ Due' /\ Kept' /\ HeldOnce'
<1>0. /\ TypeOK /\ at[g].phase = "idle" /\ \A h \in Goroutines \ {g} : at'[h] = at[h]
      /\ at'[g].phase = "readHot" /\ at'[g].site = s /\ at'[g].map = hot
      /\ UNCHANGED <<hot, cold, content, n, slipped>>
  BY DEF CacheInv, IInv, TypeOK, Lookup, history
<1>1. /\ \A h \in Goroutines : Halfway(h)' <=> Halfway(h)
      /\ Resetting' <=> Resetting
      /\ \A h \in Goroutines : at'[h].phase = "publishHot" <=> at[h].phase = "publishHot"
  BY <1>0 DEF Halfway, Resetting
<1>2. \A t \in Sites \ {s} : met'[t] = met[t] /\ (t \in crossed' <=> t \in crossed)
  BY <1>0 DEF Lookup, history, TypeOK
<1>3. Due'
  BY <1>0, <1>1 DEF CacheInv, Due
<1>4. CASE rotating = Nobody
  <2>1. UNCHANGED <<met, crossed>>
    BY <1>4 DEF Lookup, history
  <2>2. \A h \in Goroutines : ~Halfway(h)
    BY <1>4, SourceCacheAssumption DEF CacheInv, IInv, Locked, Halfway
  <2>3. \A h \in Goroutines \ {g} : Counts(h)' => Counts(h) /\ (CurrentAt(h) => CurrentAt(h)')
    BY <1>0, <2>1 DEF Counts, CurrentAt, Halfway
  <2>4. CurrentAt(g)'
    BY <1>0 DEF CurrentAt, Halfway
  <2>5. Current'
    BY <2>3, <2>4 DEF CacheInv, Current
  <2>6. Crossing'
    BY <1>0, <1>1, <2>1, <2>2 DEF CacheInv, Crossing
  <2>7. Kept'
    BY <1>0, <1>1, <2>1 DEF CacheInv, Kept
  <2>8. HeldOnce'
    BY <1>0, <2>1 DEF CacheInv, HeldOnce
  <2> QED
    BY <1>3, <2>5, <2>6, <2>7, <2>8
<1>5. CASE rotating # Nobody
  <2>1. s \in crossed' /\ met'[s] = Max
    BY <1>5 DEF Lookup, CacheInv, IInv, TypeOK
  <2>2. ~Counts(g)'
    BY <1>0, <2>1 DEF Counts
  <2>3. crossed \subseteq crossed'
    BY <1>5 DEF Lookup
  <2>4. \A h \in Goroutines \ {g} : Counts(h)' => Counts(h) /\ (CurrentAt(h) => CurrentAt(h)')
    BY <1>0, <2>3 DEF Counts, CurrentAt, Halfway
  <2>5. Current'
    BY <2>2, <2>4 DEF CacheInv, Current
  <2>6. Crossing'
    <3>1. \A t \in crossed' : met'[t] = Max
      <4>1. crossed' = crossed \cup {s} /\ crossed \subseteq Sites
        BY <1>0, <1>5 DEF Lookup, TypeOK
      <4> QED
        BY <1>2, <2>1, <4>1 DEF CacheInv, Crossing
    <3> QED
      BY <1>0, <1>1, <2>2, <2>4, <3>1 DEF CacheInv, Crossing
  <2>7. Kept'
    BY <1>0, <1>1, <1>2, <2>1, SourceCacheAssumption DEF CacheInv, Kept
  <2>8. HeldOnce'
    <3>1. \A h \in Goroutines : at[h].phase = "drop" => at'[h] = at[h]
      BY <1>0
    <3> QED
      BY <1>0, <2>3, <3>1 DEF CacheInv, HeldOnce
  <2> QED
    BY <1>3, <2>5, <2>6, <2>7, <2>8
<1> QED
  BY <1>4, <1>5

\* A discovery is counted, and its lookup returns or goes on to rotate.
LEMMA CountKeeps ==
    ASSUME CacheInv, TypeOK', NEW g \in Goroutines, Count(g)
    PROVE  Current' /\ Crossing' /\ Due' /\ Kept' /\ HeldOnce'
<1> DEFINE after == [s \in Sites |-> IF met[s] < Max THEN met[s] + 1 ELSE Max]
<1>0. /\ TypeOK /\ (Counts(g) => CurrentAt(g)) /\ at \in [Goroutines -> Lookups]
      /\ at[g].phase = "count" /\ at[g].site \in Sites /\ n' = n + 1 /\ n \in Nat
      /\ UNCHANGED <<hot, cold, crossed>>
  BY DEF CacheInv, IInv, Current, TypeOK, Lookups, Count, Busy
<1>1. \A s \in Sites : after[s] = IF met[s] < Max THEN met[s] + 1 ELSE Max
  OBVIOUS
<1>2. \/ Full(n + 1) /\ Goto(g, "rotate") /\ met' = after
      \/ ReturnHaving(g, after)
  BY DEF Count
<1> HIDE DEF after
<1>3. content'[hot] = content[hot] /\ (cold # Nil => content'[cold] = content[cold])
  BY <1>0, HeapKeeps DEF Count
<1>4. /\ \A h \in Goroutines \ {g} : at'[h] = at[h]
      /\ \/ /\ n' >= Max /\ at'[g].phase = "rotate" /\ at'[g].site = at[g].site
            /\ at'[g].map = at[g].map /\ met' = after
         \/ /\ at'[g].phase = "idle"
            /\ met' = IF at[g].site \in crossed THEN after ELSE [after EXCEPT ![at[g].site] = 0]
  <2>1. CASE Full(n + 1) /\ Goto(g, "rotate") /\ met' = after
    BY <1>0, <2>1 DEF Full, Goto
  <2>2. CASE ReturnHaving(g, after)
    BY <1>0, <2>2, IdleType DEF ReturnHaving
  <2> QED
    BY <1>2, <2>1, <2>2
<1>5. /\ \A h \in Goroutines : Halfway(h)' <=> Halfway(h)
      /\ Resetting' <=> Resetting
      /\ \A h \in Goroutines : at'[h].phase = "publishHot" <=> at[h].phase = "publishHot"
      /\ \A h \in Goroutines : at'[h].phase = "drop" <=> at[h].phase = "drop"
      /\ \A h \in Goroutines : Counts(h)' => Counts(h)
  BY <1>0, <1>4 DEF Halfway, Resetting, Counts
<1>6. \A s \in Sites : \/ met'[s] = after[s]
                       \/ s = at[g].site /\ Counts(g) /\ s \in content[hot]
  <2>1. Counts(g) => at[g].site \in content[hot]
    BY <1>0 DEF CurrentAt
  <2>2. at[g].site \notin crossed => Counts(g)
    BY <1>0 DEF Counts
  <2>3. DOMAIN after = Sites
    BY DEF after
  <2> QED
    BY <1>4, <2>1, <2>2, <2>3
<1>7. Current'
  <2> SUFFICES ASSUME NEW h \in Goroutines, Counts(h)' PROVE CurrentAt(h)'
    BY DEF Current
  <2>1. Counts(h) /\ CurrentAt(h)
    BY <1>5 DEF CacheInv, Current
  <2>2. CASE h = g
    BY <1>0, <1>3, <1>4, <2>1, <2>2 DEF CurrentAt, Halfway, Counts
  <2>3. CASE h # g
    BY <1>0, <1>3, <1>4, <2>1, <2>3 DEF CurrentAt, Halfway
  <2> QED
    BY <2>2, <2>3
<1>8. Crossing'
  <2>1. \A s \in crossed : met'[s] = Max
    <3> SUFFICES ASSUME NEW s \in crossed PROVE met'[s] = Max
      OBVIOUS
    <3>1. s \in Sites /\ met[s] = Max /\ ~(s = at[g].site /\ Counts(g))
      BY <1>0 DEF TypeOK, CacheInv, Crossing, Counts
    <3> QED
      BY <1>1, <1>6, <3>1, SourceCacheAssumption
  <2> QED
    BY <1>0, <1>5, <2>1 DEF CacheInv, Crossing
<1>9. Due'
  <2> SUFFICES ASSUME NEW h \in Goroutines, at'[h].phase \in {"rotate", "publishCold"},
                      at'[h].map = hot, cold # hot
               PROVE  slipped' \/ (n' >= Max /\ ~Resetting)
    BY <1>0, <1>5 DEF Due
  <2>1. slipped' = (slipped \/ (at[g].map = hot /\ Resetting))
    BY DEF Count, Resetting
  <2>2. CASE h = g
    BY <1>4, <2>1, <2>2
  <2>3. CASE h # g
    <3>1. slipped \/ (n >= Max /\ ~Resetting)
      BY <1>4, <2>3 DEF CacheInv, Due
    <3>2. n >= Max => n' >= Max
      BY <1>0, SourceCacheAssumption
    <3> QED
      BY <2>1, <3>1, <3>2, Zenon
  <2> QED
    BY <2>2, <2>3
<1>10. Kept'
  <2> SUFFICES ASSUME NEW s \in Sites, met'[s] < Max, s \notin content[hot]
               PROVE  cold # Nil /\ s \in content[cold] /\ (Resetting \/ met'[s] >= n')
    BY <1>0, <1>3, <1>5 DEF Kept
  <2>1. met'[s] = after[s] /\ met[s] \in 0..Max
    BY <1>0, <1>6 DEF TypeOK
  <2>2. met[s] < Max /\ met'[s] = met[s] + 1
    BY <1>1, <2>1, SourceCacheAssumption
  <2> QED
    BY <1>0, <2>1, <2>2, SourceCacheAssumption DEF CacheInv, Kept
<1>11. HeldOnce'
  <2>1. \A h \in Goroutines : at[h].phase = "drop" => at'[h] = at[h]
    BY <1>0, <1>4
  <2> QED
    BY <1>0, <1>3, <2>1 DEF CacheInv, HeldOnce
<1> QED
  BY <1>7, <1>8, <1>9, <1>10, <1>11

\* The mutex is taken by whoever will retire hot, or found to have come too late.
LEMMA RotateKeeps ==
    ASSUME CacheInv, TypeOK', NEW g \in Goroutines, RotateLock(g)
    PROVE  Current' /\ Crossing' /\ Due' /\ Kept' /\ HeldOnce'
<1>1. CASE Return(g) /\ UNCHANGED rotating
  BY <1>1, PutOrReturnKeeps
<1>2. CASE StillFilling(at[g].map) /\ Goto(g, "publishCold") /\ UNCHANGED met
  <2>0. /\ TypeOK /\ (Counts(g) => CurrentAt(g)) /\ at \in [Goroutines -> Lookups]
        /\ at[g].phase = "rotate" /\ UNCHANGED <<hot, cold, n, crossed, slipped>>
    BY DEF CacheInv, IInv, Current, TypeOK, Lookups, RotateLock
  <2>1. Within(g)
    BY <1>2, <2>0 DEF Goto, Within, Halfway
  <2>2. content'[hot] = content[hot] /\ (cold # Nil => content'[cold] = content[cold])
    BY <2>0, HeapKeeps DEF RotateLock
  <2>3. Counts(g)' => CurrentAt(g)'
    BY <1>2, <2>0, <2>2 DEF Goto, Counts, CurrentAt, Halfway
  <2> QED
    BY <1>2, <2>0, <2>1, <2>2, <2>3, LookingKeeps
<1> QED
  BY <1>1, <1>2 DEF RotateLock

\* cold takes the full generation: what is in it is all that is remembered, and
\* nothing used within the last Max discoveries is only in the cold one it replaces.
LEMMA PublishColdKeeps ==
    ASSUME CacheInv, TypeOK', NEW g \in Goroutines, PublishCold(g)
    PROVE  Current' /\ Crossing' /\ Due' /\ Kept' /\ HeldOnce'
<1>0. /\ TypeOK /\ Busy /\ Locked /\ at[g].phase = "publishCold" /\ at[g].map = hot /\ rotating = g
      /\ hot' = hot /\ cold' = hot /\ n' = n /\ crossed' = Exempt /\ hot \in Maps
  BY DEF CacheInv, IInv, Locked, PublishCold, TypeOK
<1>1. /\ \A h \in Goroutines \ {g} : at'[h] = at[h]
      /\ at'[g].phase = "publishHot" /\ at'[g].site = at[g].site
  BY <1>0 DEF PublishCold, Goto, TypeOK
<1>2. \A s \in Sites : met'[s] = IF s \in Exempt THEN Max ELSE met[s]
  BY DEF PublishCold
<1>3. content'[hot] = content[hot]
  BY <1>0, HeapKeeps DEF PublishCold
<1>4. \A h \in Goroutines : ~Counts(h)'
  <2> SUFFICES ASSUME NEW h \in Goroutines, at'[h].phase # "idle"
               PROVE  at'[h].site \in Exempt
    BY <1>0 DEF Counts
  <2>1. at[h].phase # "idle" /\ at'[h].site = at[h].site /\ at[h].site \in Sites
    BY <1>0, <1>1 DEF Busy
  <2> QED
    BY <2>1 DEF Exempt
<1>5. Current'
  BY <1>4 DEF Current
<1>6. Crossing'
  <2>1. Exempt \subseteq Sites
    BY <1>0 DEF TypeOK, Exempt, Busy
  <2> QED
    BY <1>0, <1>1, <1>2, <1>4, <2>1 DEF Crossing
<1>7. Due'
  BY <1>0 DEF Due
<1>8. Kept'
  <2> SUFFICES ASSUME NEW s \in Sites, met'[s] < Max PROVE s \in content[hot]
    BY <1>0, <1>3 DEF Kept
  <2>1. s \notin Exempt /\ met[s] < Max
    BY <1>2, SourceCacheAssumption
  <2>2. ~slipped
    BY <2>1 DEF Exempt
  <2>3. cold # hot
    BY <1>0 DEF CacheInv, Crossing, Locked
  <2>4. n >= Max /\ ~Resetting
    BY <1>0, <2>2, <2>3 DEF CacheInv, Due
  <2>5. met[s] \in Nat /\ n \in Nat
    BY <1>0, SourceCacheAssumption DEF TypeOK
  <2> QED
    BY <2>1, <2>4, <2>5, SourceCacheAssumption DEF CacheInv, Kept
<1>9. HeldOnce'
  BY <1>0 DEF HeldOnce
<1> QED
  BY <1>5, <1>6, <1>7, <1>8, <1>9

\* hot takes an empty generation, with the full one already cold.
LEMMA PublishHotKeeps ==
    ASSUME CacheInv, TypeOK', NEW g \in Goroutines, PublishHot(g)
    PROVE  Current' /\ Crossing' /\ Due' /\ Kept' /\ HeldOnce'
<1>0. /\ TypeOK /\ at[g].phase = "publishHot" /\ cold = hot /\ hot \in Maps /\ hot # Nil
      /\ hot' \in Maps \ Referenced /\ UNCHANGED <<cold, content, n, met, crossed, slipped>>
  BY SourceCacheAssumption DEF CacheInv, IInv, Locked, PublishHot, TypeOK, history
<1>1. /\ \A h \in Goroutines \ {g} : at'[h] = at[h]
      /\ at'[g].phase = "resetCount" /\ at'[g].site = at[g].site /\ at'[g].map = at[g].map
  BY <1>0 DEF PublishHot, Goto, TypeOK
<1>2. content[hot'] = {}
  BY <1>0 DEF CacheInv, Collected
<1>3. \A h \in Goroutines : ~Counts(h)
  BY <1>0 DEF CacheInv, Crossing, Halfway
<1>4. \A h \in Goroutines : ~Counts(h)'
  BY <1>0, <1>1, <1>3 DEF Counts
<1>5. cold \in Referenced /\ \A h \in Goroutines : at[h].map \in Referenced
  BY DEF Referenced
<1>6. cold' # hot'
  BY <1>0, <1>5
<1>7. Current' /\ Crossing'
  BY <1>0, <1>4, <1>6 DEF Current, Crossing, CacheInv
<1>8. Due'
  <2> SUFFICES ASSUME NEW h \in Goroutines, at'[h].map = hot' PROVE FALSE
    BY DEF Due
  <2>1. at'[h].map = at[h].map
    BY <1>1
  <2> QED
    BY <1>0, <1>5, <2>1
<1>9. Kept'
  <2>1. Resetting'
    BY <1>1 DEF Resetting
  <2> QED
    BY <1>0, <2>1 DEF CacheInv, Kept
<1>10. HeldOnce'
  BY <1>0, <1>2 DEF HeldOnce
<1> QED
  BY <1>7, <1>8, <1>9, <1>10

\* The count begins again, whatever was used before it.
LEMMA ResetKeeps ==
    ASSUME CacheInv, TypeOK', NEW g \in Goroutines, ResetCount(g)
    PROVE  Current' /\ Crossing' /\ Due' /\ Kept' /\ HeldOnce'
<1>0. /\ TypeOK /\ at[g].phase = "resetCount" /\ n' = 0 /\ Return(g)
      /\ UNCHANGED <<hot, cold, crossed, slipped>>
  BY DEF CacheInv, IInv, ResetCount
<1>1. (\A h \in Goroutines \ {g} : at'[h] = at[h]) /\ at'[g].phase = "idle"
  BY <1>0, IdleType DEF Return, ReturnHaving, TypeOK
<1>2. \A h \in Goroutines : ~Counts(h) /\ ~Counts(h)'
  BY <1>0, <1>1 DEF CacheInv, Crossing, Halfway, Counts
<1>3. met' = met
  BY <1>0, <1>2 DEF Return, ReturnHaving, Counts
<1>4. content'[hot] = content[hot] /\ (cold # Nil => content'[cold] = content[cold])
  BY <1>0, HeapKeeps DEF ResetCount
<1>5. Current'
  BY <1>2 DEF Current
<1>6. Crossing'
  BY <1>0, <1>1, <1>2, <1>3 DEF CacheInv, Crossing
<1>7. Due'
  <2> SUFFICES ASSUME NEW h \in Goroutines, at'[h].phase \in {"rotate", "publishCold"},
                      at'[h].map = hot, cold # hot
               PROVE  slipped'
    BY <1>0 DEF Due
  <2>1. slipped
    BY <1>0, <1>1 DEF CacheInv, Due, Resetting
  <2> QED
    BY <1>0, <2>1
<1>8. Kept'
  BY <1>0, <1>3, <1>4 DEF CacheInv, Kept, TypeOK
<1>9. HeldOnce'
  BY <1>0, <1>1, <1>4 DEF CacheInv, HeldOnce
<1> QED
  BY <1>5, <1>6, <1>7, <1>8, <1>9

-----------------------------------------------------------------------------
(* The collector.                                                          *)

\* A step after which nothing lost its last pointer leaves no more to collect.
LEMMA StillReferenced ==
    ASSUME CacheInv, Referenced \ {Nil} \subseteq Referenced',
           \A m \in Maps : m \notin Referenced' => content'[m] = content[m]
    PROVE  \A m \in Maps \ Referenced' : content'[m] = {}
BY SourceCacheAssumption DEF CacheInv, Collected

\* A step of one lookup, as far as its pointers go.
LEMMA PointersKept ==
    ASSUME CacheInv, NEW g \in Goroutines, \A h \in Goroutines \ {g} : at'[h] = at[h],
           Pointers(g)', \A m \in Maps \ Referenced' : content'[m] = {}
    PROVE  Collected'
<1>1. \A h \in Goroutines : Pointers(h)'
  BY DEF Pointers, CacheInv, Collected
<1> QED
  BY <1>1 DEF Collected

\* The steps that end with a collection.
LEMMA HeapCollects ==
    ASSUME CacheInv, TypeOK', NEW g \in Goroutines,
           \/ ReadHot(g) \/ LoadCold(g) \/ Resolve(g) \/ Drop(g) \/ Store(g) \/ Count(g)
           \/ RotateLock(g) \/ PublishCold(g) \/ ResetCount(g)
    PROVE  Collected'
<1>0. at \in [Goroutines -> Lookups] /\ Pointers(g)
  BY DEF CacheInv, IInv, TypeOK, Lookups, Collected, Pointers
<1>1. \A m \in Maps \ Referenced' : content'[m] = {}
  BY HeapKeeps DEF CacheInv, IInv, ReadHot, LoadCold, Resolve, Drop, Store, Count, RotateLock,
                   PublishCold, ResetCount
<1>2. ASSUME NEW m, ReturnHaving(g, m)
      PROVE  (\A h \in Goroutines \ {g} : at'[h] = at[h]) /\ Pointers(g)'
  BY <1>0, <1>2, IdleType DEF ReturnHaving, Pointers
<1>3. ASSUME NEW p \in {"count", "rotate", "publishCold", "publishHot"}, Goto(g, p)
      PROVE  (\A h \in Goroutines \ {g} : at'[h] = at[h]) /\ Pointers(g)'
  BY <1>0, <1>3 DEF Goto, Pointers, Lookups
<1>4. (\A h \in Goroutines \ {g} : at'[h] = at[h]) /\ Pointers(g)'
  <2>1. CASE ReadHot(g)
    <3>1. CASE Goto(g, "loadCold")
      BY <1>0, <2>1, <3>1 DEF ReadHot, Goto, Pointers, Lookups
    <3> QED
      BY <1>2, <2>1, <3>1 DEF ReadHot, Return
  <2>2. CASE LoadCold(g)
    BY <1>0, <2>2 DEF LoadCold, GotoWith, Pointers, Lookups
  <2>3. CASE Resolve(g)
    BY <1>0, <2>3 DEF Resolve, GotoWith, Pointers, Lookups
  <2>4. CASE Drop(g)
    BY <1>2, <2>4 DEF Drop, Return
  <2>5. CASE Store(g)
    BY <1>2, <1>3, <2>5 DEF Store, Return
  <2>6. CASE Count(g)
    <3> DEFINE after == [s \in Sites |-> IF met[s] < Max THEN met[s] + 1 ELSE Max]
    <3>1. Goto(g, "rotate") \/ ReturnHaving(g, after)
      BY <2>6 DEF Count
    <3> HIDE DEF after
    <3> QED
      BY <1>2, <1>3, <3>1
  <2>7. CASE RotateLock(g)
    BY <1>2, <1>3, <2>7 DEF RotateLock, Return
  <2>8. CASE PublishCold(g)
    BY <1>3, <2>8 DEF PublishCold
  <2>9. CASE ResetCount(g)
    BY <1>2, <2>9 DEF ResetCount, Return
  <2> QED
    BY <2>1, <2>2, <2>3, <2>4, <2>5, <2>6, <2>7, <2>8, <2>9
<1> QED
  BY <1>1, <1>4, PointersKept

\* The others only gain pointers, or add to a generation that has one.
LEMMA OthersCollect ==
    ASSUME CacheInv, TypeOK', NEW g \in Goroutines,
           \/ \E s \in Sites : Lookup(g, s)
           \/ ReadCold(g) \/ PromoteLoadHot(g) \/ Carry(g) \/ PublishHot(g)
    PROVE  Collected'
<1>0. /\ TypeOK /\ at \in [Goroutines -> Lookups] /\ Pointers(g) /\ (cold = hot \/ ~PublishHot(g))
  BY DEF CacheInv, IInv, Locked, TypeOK, Lookups, Collected, Pointers, PublishHot
<1>1. CASE \E s \in Sites : Lookup(g, s)
  <2>1. /\ \A h \in Goroutines \ {g} : at'[h] = at[h]
        /\ at[g].map = Nil /\ at[g].from = Nil /\ Pointers(g)' /\ UNCHANGED <<hot, cold, content>>
    BY <1>0, <1>1 DEF Lookup, Pointers, Idle
  <2>2. Referenced \ {Nil} \subseteq Referenced'
    BY <2>1 DEF Referenced
  <2> QED
    BY <2>1, <2>2, StillReferenced, PointersKept
<1>2. CASE ReadCold(g)
  <2>1. /\ \A h \in Goroutines \ {g} : at'[h] = at[h]
        /\ at[g].from = Nil /\ at'[g].map = at[g].map /\ Pointers(g)'
        /\ UNCHANGED <<hot, cold, content>>
    BY <1>0, <1>2 DEF ReadCold, Goto, Pointers, Lookups
  <2>2. Referenced \ {Nil} \subseteq Referenced'
    BY <2>1 DEF Referenced
  <2> QED
    BY <2>1, <2>2, StillReferenced, PointersKept
<1>3. CASE PromoteLoadHot(g)
  <2>1. /\ \A h \in Goroutines \ {g} : at'[h] = at[h]
        /\ at[g].from = at[g].map /\ at'[g].from = at[g].from /\ Pointers(g)'
        /\ UNCHANGED <<hot, cold, content>>
    BY <1>0, <1>3 DEF PromoteLoadHot, GotoWith, Pointers, Lookups
  <2>2. Referenced \ {Nil} \subseteq Referenced'
    BY <2>1 DEF Referenced
  <2> QED
    BY <2>1, <2>2, StillReferenced, PointersKept
<1>4. CASE Carry(g)
  <2>1. /\ \A h \in Goroutines \ {g} : at'[h] = at[h]
        /\ at'[g].map = at[g].map /\ at'[g].from = at[g].from /\ Pointers(g)'
        /\ UNCHANGED <<hot, cold>>
        /\ content' = [content EXCEPT ![at[g].map] = @ \cup {at[g].site}]
    BY <1>0, <1>4 DEF Carry, Goto, Pointers, Lookups
  <2>2. Referenced \subseteq Referenced' /\ at[g].map \in Referenced'
    BY <2>1 DEF Referenced
  <2>3. \A m \in Maps : m \notin Referenced' => content'[m] = content[m]
    BY <1>0, <2>1, <2>2 DEF TypeOK
  <2> QED
    BY <2>1, <2>2, <2>3, StillReferenced, PointersKept
<1>5. CASE PublishHot(g)
  <2>1. /\ \A h \in Goroutines \ {g} : at'[h] = at[h]
        /\ at'[g].map = at[g].map /\ at'[g].from = at[g].from /\ Pointers(g)'
        /\ cold = hot /\ UNCHANGED <<cold, content>>
    BY <1>0, <1>5 DEF PublishHot, Goto, Pointers, Lookups
  <2>2. Referenced \ {Nil} \subseteq Referenced'
    BY <2>1 DEF Referenced
  <2> QED
    BY <2>1, <2>2, StillReferenced, PointersKept
<1> QED
  BY <1>1, <1>2, <1>3, <1>4, <1>5

-----------------------------------------------------------------------------
(* The theorems about what the cache keeps.                                *)

LEMMA CacheInit == Init => CacheInv
<1> SUFFICES ASSUME Init PROVE CacheInv
  OBVIOUS
<1>1. IInv
  BY InitHolds
<1>2. Nil \notin Maps /\ cold = Nil /\ hot \in Maps /\ \A g \in Goroutines : at[g] = Idle
  BY SourceCacheAssumption DEF Init
<1>3. Collected /\ Current /\ Crossing /\ Due
  BY <1>2, IdleType DEF Init, Collected, Pointers, Current, Counts, Crossing, Halfway, Due, Idle
<1>4. Kept /\ HeldOnce
  BY <1>2, SourceCacheAssumption DEF Init, Kept, HeldOnce
<1> QED
  BY <1>1, <1>3, <1>4 DEF CacheInv

LEMMA CacheStep == ASSUME CacheInv, [Next]_vars PROVE CacheInv'
<1>0. IInv'
  BY StepHolds DEF CacheInv
<1>1. CASE UNCHANGED vars
  BY <1>0, <1>1 DEF CacheInv, vars, history, Collected, Pointers, Referenced, Current, Counts, CurrentAt,
                    Crossing, Halfway, Due, Resetting, Kept, HeldOnce
<1>2. CASE Next
  <2>1. PICK g \in Goroutines :
          \/ \E s \in Sites : Lookup(g, s)
          \/ ReadHot(g) \/ LoadCold(g) \/ ReadCold(g) \/ Resolve(g)
          \/ PromoteLoadHot(g) \/ Carry(g) \/ Drop(g)
          \/ Store(g) \/ Count(g) \/ RotateLock(g)
          \/ PublishCold(g) \/ PublishHot(g) \/ ResetCount(g)
    BY <1>2 DEF Next
  <2>2. TypeOK'
    BY <1>0 DEF IInv
  <2>3. Collected'
    BY <2>1, <2>2, HeapCollects, OthersCollect
  <2>4. Current' /\ Crossing' /\ Due' /\ Kept' /\ HeldOnce'
    BY <2>1, <2>2, LookupKeeps, LookKeeps, PutOrReturnKeeps, CountKeeps, RotateKeeps,
       PublishColdKeeps, PublishHotKeeps, ResetKeeps
  <2> QED
    BY <1>0, <2>3, <2>4 DEF CacheInv
<1> QED
  BY <1>1, <1>2

LEMMA CacheHolds == Spec => []CacheInv
BY CacheInit, CacheStep, PTL DEF Spec

\* A call site used less than Max counted discoveries ago is found in one of the two
\* generations, whatever lookups, promotions and rotations interleave (attr.go, lookup).
THEOREM NeverForgotten == Spec => []NeverEvicted
<1>1. CacheInv => NeverEvicted
  BY DEF CacheInv, Kept, NeverEvicted, Live
<1> QED
  BY <1>1, CacheHolds, PTL

\* A promotion moves its entry: but for the sites of the lookups the latest rotation
\* crossed, it is in both generations only until it is dropped (attr.go, promote).
THEOREM PromotionMoves == Spec => []HeldOnce
<1>1. CacheInv => HeldOnce
  BY DEF CacheInv
<1> QED
  BY <1>1, CacheHolds, PTL
=============================================================================
