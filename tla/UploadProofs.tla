---------------------------- MODULE UploadProofs ----------------------------
(***************************************************************************)
(* One job's accounting and its time, for every number of records, retry   *)
(* allowance and timeout, and every throttle a server may ask for.         *)
(***************************************************************************)
EXTENDS Upload, FiniteSetTheorems, SequenceTheorems, WellFoundedInduction,
        NaturalsInduction, TLAPS

-----------------------------------------------------------------------------
(* The backoff: a time.Duration that doubles is what the same number of    *)
(* ticks doubled is, for as long as the code goes on doubling it.          *)

\* A set of numbers that has 0 and is closed under successor has them all.
LEMMA Reaches ==
    ASSUME NEW T, 0 \in T, \A n \in Nat : n \in T => n + 1 \in T
    PROVE  \A n \in Nat : n \in T
<1> DEFINE R == OpToRel(<, Nat)
           U == Nat \ T
<1>1. IsWellFoundedOn(R, Nat)
  BY NatLessThanWellFounded
<1>2. \A x, y \in Nat : x < y => <<x, y>> \in R
  BY DEF OpToRel
<1> SUFFICES ASSUME U # {} PROVE FALSE
  OBVIOUS
<1> HIDE DEF R
<1>3. PICK x \in U : \A y \in U : ~(<<y, x>> \in R)
  BY <1>1, WFMin
<1>4. x \in Nat /\ x # 0 /\ x - 1 \in Nat /\ x - 1 < x
  OBVIOUS
<1>5. x - 1 \in T
  BY <1>2, <1>3, <1>4
<1> QED
  BY <1>4, <1>5

\* f starts from b and applies step from each of its first n values to the next.
Iterates(f, b, step, n) ==
    f = [i \in 1 .. n |-> IF i = 1 THEN b ELSE step[f[i - 1]]]

\* A loop's values exist: what a recursive function on 1 .. n needs to be one.
LEMMA IterationExists ==
    ASSUME NEW S, NEW b \in S, NEW step \in [S -> S], NEW m \in Nat
    PROVE  \E f \in [1 .. m -> S] : Iterates(f, b, step, m)
<1> DEFINE T == {n \in Nat : \E f \in [1 .. n -> S] : Iterates(f, b, step, n)}
<1>1. 0 \in T
  <2>1. [i \in 1 .. 0 |-> b] \in [1 .. 0 -> S]
    OBVIOUS
  <2>2. Iterates([i \in 1 .. 0 |-> b], b, step, 0)
    BY DEF Iterates
  <2> QED
    BY <2>1, <2>2
<1>2. ASSUME NEW n \in Nat, n \in T PROVE n + 1 \in T
  <2>1. PICK f \in [1 .. n -> S] : Iterates(f, b, step, n)
    BY <1>2
  <2>2. \A i \in 1 .. n : f[i] = IF i = 1 THEN b ELSE step[f[i - 1]]
    BY <2>1 DEF Iterates
  <2> DEFINE next == IF n = 0 THEN b ELSE step[f[n]]
             g == [i \in 1 .. n + 1 |-> IF i = n + 1 THEN next ELSE f[i]]
  <2>3. next \in S
    BY <1>2
  <2>4. g \in [1 .. n + 1 -> S]
    <3> HIDE DEF next
    <3> QED
      BY <2>3
  <2>5. ASSUME NEW i \in 1 .. n + 1 PROVE g[i] = IF i = 1 THEN b ELSE step[g[i - 1]]
    <3>1. CASE i = n + 1
      <4>1. g[i] = next /\ (i # 1 => g[i - 1] = f[n] /\ n # 0)
        BY <3>1
      <4> QED
        BY <3>1, <4>1
    <3>2. CASE i # n + 1
      <4>1. i \in 1 .. n /\ g[i] = f[i] /\ (i # 1 => g[i - 1] = f[i - 1])
        BY <3>2
      <4> QED
        BY <2>2, <4>1
    <3> QED
      BY <3>1, <3>2
  <2> HIDE DEF g
  <2> QED
    BY <2>4, <2>5 DEF Iterates
<1> HIDE DEF T
<1>3. m \in T
  BY <1>1, <1>2, Reaches
<1> QED
  BY <1>3 DEF T

\* The durations backoff goes through, one per attempt (backoff).
LEMMA DoubledValues ==
    \A n \in 1 .. MaxRetries + 1 :
      Doubled[n] = IF n = 1 THEN RetryBackoff ELSE Doubling[Doubled[n - 1]]
<1> DEFINE m == MaxRetries + 1
           F(f) == [n \in 1 .. m |-> IF n = 1 THEN RetryBackoff ELSE Doubling[f[n - 1]]]
<1>1. Doubling \in [Int -> Int] /\ RetryBackoff \in Int /\ m \in Nat
  BY UploadAssumption DEF Doubling, Twice
<1>2. PICK f \in [1 .. m -> Int] : Iterates(f, RetryBackoff, Doubling, m)
  BY <1>1, IterationExists
<1>3. f = F(f)
  BY <1>2 DEF Iterates
<1>4. Doubled = F(Doubled)
  BY <1>3 DEF Doubled
<1> QED
  BY <1>4

\* The ticks they stand for.
LEMMA GrownValues ==
    \A n \in 1 .. MaxRetries + 1 :
      Grown[n] = IF n = 1 THEN RetryBackoff ELSE 2 * Grown[n - 1]
<1> DEFINE m == MaxRetries + 1
           step == [d \in Nat |-> 2 * d]
           F(f) == [n \in 1 .. m |-> IF n = 1 THEN RetryBackoff ELSE 2 * f[n - 1]]
<1>1. step \in [Nat -> Nat] /\ RetryBackoff \in Nat /\ m \in Nat
  BY UploadAssumption
<1> HIDE DEF step
<1>2. PICK f \in [1 .. m -> Nat] : Iterates(f, RetryBackoff, step, m)
  BY <1>1, IterationExists
<1>3. \A n \in 1 .. m : n # 1 => step[f[n - 1]] = 2 * f[n - 1]
  <2> TAKE n \in 1 .. m
  <2> HAVE n # 1
  <2>1. n - 1 \in 1 .. m
    BY <1>1
  <2>2. f[n - 1] \in Nat
    BY <2>1
  <2> QED
    BY <2>2 DEF step
<1>4. f = F(f)
  BY <1>2, <1>3 DEF Iterates
<1>5. Grown = F(Grown)
  BY <1>4 DEF Grown
<1> QED
  BY <1>5

\* Below the cap the durations are the ticks, and the doubling that passes the cap
\* does not wrap (backoff).
LEMMA NoWrap ==
    \A n \in 1 .. MaxRetries + 1 :
      /\ Grown[n] \in Nat /\ Doubled[n] \in 0 .. MaxTime
      /\ Doubled[n] < MaxBackoff => Doubled[n] = Grown[n]
      /\ Doubled[n] >= MaxBackoff => Grown[n] >= Doubled[n]
      /\ IF RetryBackoff = 0 THEN Grown[n] = 0 ELSE Doubled[n] > 0
<1> DEFINE Good(n) ==
             /\ Grown[n] \in Nat /\ Doubled[n] \in 0 .. MaxTime
             /\ Doubled[n] < MaxBackoff => Doubled[n] = Grown[n]
             /\ Doubled[n] >= MaxBackoff => Grown[n] >= Doubled[n]
             /\ IF RetryBackoff = 0 THEN Grown[n] = 0 ELSE Doubled[n] > 0
           T == {k \in Nat : k + 1 \in 1 .. MaxRetries + 1 => Good(k + 1)}
<1> USE UploadAssumption
<1>1. 0 \in T
  BY DoubledValues, GrownValues
<1>2. ASSUME NEW k \in Nat, k \in T PROVE k + 1 \in T
  <2> SUFFICES ASSUME k + 2 \in 1 .. MaxRetries + 1 PROVE Good(k + 2)
    OBVIOUS
  <2>1. k + 1 \in 1 .. MaxRetries + 1 /\ k + 2 # 1 /\ (k + 2) - 1 = k + 1
    OBVIOUS
  <2>2. Doubled[k + 2] = Doubling[Doubled[k + 1]] /\ Grown[k + 2] = 2 * Grown[k + 1]
    BY <2>1, DoubledValues, GrownValues
  <2>3. Good(k + 1)
    BY <1>2, <2>1
  <2> DEFINE d == Doubled[k + 1]
             e == Grown[k + 1]
  <2>4. Doubling[d] = IF d < MaxBackoff THEN 2 * d ELSE d
    <3>1. d \in Int /\ (d < MaxBackoff => 0 <= d /\ 2 * d <= MaxTime)
      BY <2>3
    <3> QED
      BY <3>1 DEF Doubling, Twice
  <2> HIDE DEF d, e
  <2>5. d \in 0 .. MaxTime /\ e \in Nat /\ (d < MaxBackoff => d = e) /\ (d >= MaxBackoff => e >= d)
        /\ IF RetryBackoff = 0 THEN e = 0 ELSE d > 0
    BY <2>3 DEF d, e
  <2>6. Doubled[k + 2] = (IF d < MaxBackoff THEN 2 * d ELSE d) /\ Grown[k + 2] = 2 * e
    BY <2>2, <2>4 DEF d, e
  <2> QED
    BY <2>5, <2>6
<1> HIDE DEF T
<1>3. \A k \in Nat : k \in T
  BY <1>1, <1>2, Reaches
<1> SUFFICES ASSUME NEW n \in 1 .. MaxRetries + 1 PROVE Good(n)
  OBVIOUS
<1>4. n - 1 \in Nat /\ (n - 1) + 1 = n
  OBVIOUS
<1> QED
  BY <1>3, <1>4 DEF T

\* The longest wait before an attempt is what it says (backoff).
LEMMA CapIs ==
    ASSUME NEW n \in 1 .. MaxRetries + 1
    PROVE  Cap(n) = Least(Grown[n], MaxBackoff) /\ Cap(n) \in 0 .. MaxBackoff
<1> DEFINE d == Doubled[n]
           e == Grown[n]
<1>1. /\ e \in Nat /\ d \in 0 .. MaxTime
      /\ d < MaxBackoff => d = e
      /\ d >= MaxBackoff => e >= d
      /\ IF RetryBackoff = 0 THEN e = 0 ELSE d > 0
  BY NoWrap
<1>2. Cap(n) = IF RetryBackoff = 0 THEN 0 ELSE IF d <= 0 \/ d > MaxBackoff THEN MaxBackoff ELSE d
  BY DEF Cap
<1> HIDE DEF d, e
<1>3. Cap(n) = Least(e, MaxBackoff) /\ Cap(n) \in 0 .. MaxBackoff
  BY <1>1, <1>2, UploadAssumption DEF Least
<1> QED
  BY <1>3 DEF e

\* Whatever a header says, the wait parsed from it is the wait it means, up to the
\* largest there is (parseRetryAfter).
LEMMA Parsed ==
    ASSUME NEW secs \in Int
    PROVE  /\ Seconds(secs) \in 0 .. MaxTime /\ Distance(secs * Second) \in Nat
           /\ Seconds(secs) = Least(Distance(secs * Second), MaxTime)
<1> DEFINE p == secs * Second
           q == MaxTime \div Second
<1> USE UploadAssumption
<1>1. p \in Int /\ (secs <= 0 => p <= 0) /\ (secs > 0 => p > 0)
  OBVIOUS
<1>2. q \in Int /\ q * Second <= MaxTime /\ MaxTime < (q + 1) * Second
  OBVIOUS
<1>3. secs <= q => p <= q * Second
  BY <1>2
<1>4. secs > q => p >= (q + 1) * Second
  BY <1>2
<1>5. (secs > q <=> p > MaxTime) /\ secs \in Int
  <2> HIDE DEF p, q
  <2>1. (q + 1) * Second \in Int /\ q * Second \in Int
    BY <1>2
  <2> QED
    BY <1>1, <1>2, <1>3, <1>4, <2>1
<1>6. Seconds(secs) = IF secs <= 0 THEN 0 ELSE IF secs > q THEN MaxTime ELSE p
  BY DEF Seconds
<1> HIDE DEF p, q
<1>7. Seconds(secs) = Least(Distance(p), MaxTime) /\ Seconds(secs) \in 0 .. MaxTime /\ Distance(p) \in Nat
  BY <1>1, <1>5, <1>6 DEF Least, Distance
<1> QED
  BY <1>7 DEF p

-----------------------------------------------------------------------------
(* The shape of a step, and the types.                                     *)

\* While the job is not over there is a first piece, and a rest.
LEMMA FirstPiece ==
    ASSUME TypeOK, phase # "done"
    PROVE  /\ pieces # <<>> /\ Len(pieces) \in Nat \ {0}
           /\ First = pieces[1] /\ First \in Pieces
           /\ Tail(pieces) \in Seq(Pieces) /\ Len(Tail(pieces)) = Len(pieces) - 1
           /\ \A i \in 1 .. Len(pieces) - 1 : Tail(pieces)[i] = pieces[i + 1]
<1>1. pieces \in Seq(Pieces) /\ pieces # <<>>
  BY DEF TypeOK
<1> QED
  BY <1>1 DEF First

\* Two elements put in front of a sequence.
LEMMA PairInFront ==
    ASSUME NEW T, NEW two \in Seq(T), Len(two) = 2, NEW s \in Seq(T)
    PROVE  /\ two \o s \in Seq(T) /\ Len(two \o s) = 2 + Len(s)
           /\ (two \o s)[1] = two[1] /\ (two \o s)[2] = two[2]
           /\ \A i \in 1 .. Len(s) : (two \o s)[i + 2] = s[i]
<1>0. Len(s) \in Nat
  OBVIOUS
<1>1. two \o s \in Seq(T) /\ Len(two \o s) = 2 + Len(s) /\ Len(s) \in Nat
  <2>1. two \o s \in Seq(T) /\ Len(two \o s) = Len(two) + Len(s)
    BY ConcatProperties, Zenon
  <2> QED
    BY <2>1, <1>0, Zenon
<1>2. \A i \in 1 .. 2 + Len(s) : (two \o s)[i] = IF i <= 2 THEN two[i] ELSE s[i - 2]
  <2>1. \A i \in 1 .. Len(two) + Len(s) : (two \o s)[i] = IF i <= Len(two) THEN two[i] ELSE s[i - Len(two)]
    BY ConcatProperties, Zenon
  <2> QED
    BY <2>1, Zenon
<1>3. \A i \in 1 .. Len(s) : i + 2 \in 1 .. 2 + Len(s) /\ ~(i + 2 <= 2) /\ (i + 2) - 2 = i
  BY <1>1
<1>4. 1 \in 1 .. 2 + Len(s) /\ 2 \in 1 .. 2 + Len(s)
  BY <1>1
<1> QED
  BY <1>1, <1>2, <1>3, <1>4

\* The same, with the pair spelled out as splitAndSend leaves it.
LEMMA InFront ==
    ASSUME NEW T, NEW a \in T, NEW b \in T, NEW s \in Seq(T)
    PROVE  /\ <<a, b>> \o s \in Seq(T) /\ Len(<<a, b>> \o s) = 2 + Len(s)
           /\ (<<a, b>> \o s)[1] = a /\ (<<a, b>> \o s)[2] = b
           /\ \A i \in 1 .. Len(s) : (<<a, b>> \o s)[i + 2] = s[i]
<1>1. <<a, b>> \in Seq(T) /\ Len(<<a, b>>) = 2 /\ <<a, b>>[1] = a /\ <<a, b>>[2] = b
  OBVIOUS
<1> QED
  BY <1>1, PairInFront

\* A piece that can be split splits into two pieces (packer.split).
LEMMA HalvesArePieces ==
    ASSUME NEW S \in SUBSET Records, Cardinality(S) > 1,
           NEW left \in SUBSET S, Cardinality(left) = Cardinality(S) \div 2
    PROVE  left # {} /\ S \ left # {}
<1>1. IsFiniteSet(S) /\ IsFiniteSet(left)
  BY UploadAssumption, FS_Subset
<1>2. Cardinality(S) \in Nat /\ Cardinality(left) \in Nat
  BY <1>1, FS_CardinalityType
<1>3. 0 < Cardinality(left) /\ Cardinality(left) < Cardinality(S)
  BY <1>2
<1>4. left # {}
  BY <1>3, FS_EmptySet
<1>5. left # S
  BY <1>2, <1>3
<1> QED
  BY <1>4, <1>5

\* The pieces after a split: the two halves, then what was left (splitAndSend).
SplitInto(left) ==
    pieces' = <<Half(left), Half(First.records \ left)>> \o Tail(pieces)

\* A split keeps every piece but the first, behind its two halves.
LEMMA SplitPieces ==
    ASSUME TypeOK, phase # "done", Cardinality(First.records) > 1,
           NEW left \in SUBSET First.records,
           Cardinality(left) = Cardinality(First.records) \div 2, SplitInto(left)
    PROVE  /\ pieces' \in Seq(Pieces) /\ Len(pieces') = Len(pieces) + 1
           /\ pieces'[1] = Half(left) /\ pieces'[2] = Half(First.records \ left)
           /\ \A i \in 3 .. Len(pieces) + 1 : pieces'[i] = pieces[i - 1]
<1>1. First.records \in SUBSET Records /\ First.deadline \in Nat
  BY FirstPiece DEF Pieces
<1>2. Half(left) \in Pieces /\ Half(First.records \ left) \in Pieces
  BY <1>1, HalvesArePieces DEF Half, HalfDeadline, Pieces
<1>3. Tail(pieces) \in Seq(Pieces) /\ Len(Tail(pieces)) = Len(pieces) - 1 /\ Len(pieces) \in Nat \ {0}
  BY FirstPiece
<1>4. pieces' = <<Half(left), Half(First.records \ left)>> \o Tail(pieces)
  BY DEF SplitInto
<1>5. pieces' \in Seq(Pieces) /\ Len(pieces') = 2 + Len(Tail(pieces))
  BY <1>2, <1>3, <1>4, InFront
<1>6. pieces'[1] = Half(left) /\ pieces'[2] = Half(First.records \ left)
  BY <1>2, <1>3, <1>4, InFront
<1>7. \A i \in 1 .. Len(Tail(pieces)) : pieces'[i + 2] = Tail(pieces)[i]
  BY <1>2, <1>3, <1>4, InFront
<1>8. ASSUME NEW i \in 3 .. Len(pieces) + 1 PROVE pieces'[i] = pieces[i - 1]
  <2>1. i - 2 \in 1 .. Len(pieces) - 1 /\ (i - 2) + 1 = i - 1 /\ (i - 2) + 2 = i
    BY <1>3
  <2>2. pieces'[i] = Tail(pieces)[i - 2]
    BY <1>3, <1>7, <2>1
  <2> QED
    BY <2>1, <2>2, FirstPiece
<1> QED
  BY <1>3, <1>5, <1>6, <1>8

\* What a step does to the records: settle the first piece, split it, or nothing.
Settles == \E b \in Outcomes, err \in Verdicts : Return(b, err)

\* Answered without settling: the attempt failed and may be retried.
Retried == NetworkFails /\ ~ShuttingDown

\* Every step that ends the first piece settles it.
LEMMA StepShape ==
    ASSUME TypeOK, [Next]_vars
    PROVE  \/ Request \/ Throttled \/ Retried \/ Backoff \/ Wake \/ Cancel \/ Tick
           \/ UNCHANGED vars \/ Split
           \/ Settles /\ phase \in {"flying", "failed", "asleep"}
<1>1. CASE Accepted \/ Terminal \/ Oversize \/ SplitFails \/ WakeCancelled
  BY <1>1 DEF Accepted, Terminal, Oversize, SplitFails, WakeCancelled, Settles, Outcomes, Verdicts
<1>2. CASE NetworkFails /\ ~Retried
  BY <1>2 DEF NetworkFails, Retried, Settles, Outcomes, Verdicts
<1>3. CASE GiveUp
  <2>1. lastErr \in Verdicts
    BY <1>3 DEF GiveUp, TypeOK, Verdicts
  <2> QED
    BY <1>3, <2>1 DEF GiveUp, Settles, Outcomes
<1> QED
  BY <1>1, <1>2, <1>3 DEF Next, Answer, Returned

\* The steps that leave the records alone.
LEMMA Elsewhere ==
    ASSUME Request \/ Throttled \/ Retried \/ Backoff \/ Wake \/ Cancel \/ Tick \/ UNCHANGED vars
    PROVE  UNCHANGED recordVars
  BY DEF Request, Throttled, Retried, NetworkFails, Backoff, Wake, Cancel, Tick, recordVars, vars

\* Settling the first piece leaves a well-typed rest.
LEMMA ReturnTyped ==
    ASSUME TypeOK, phase # "done", NEW b \in Outcomes, NEW err \in Verdicts, Return(b, err)
    PROVE  TypeOK'
<1>1. pieces' \in Seq(Pieces) /\ phase' \in {"ready", "done"} /\ (phase' = "done" <=> pieces' = <<>>)
  BY FirstPiece DEF Return, Rest
<1>2. counted' \in [Records -> Seq(Outcomes)]
  BY DEF Return, TypeOK
<1>3. verdict' \in Verdicts
  BY DEF Return, FirstVerdict, TypeOK
<1>4. /\ attempt' \in 0 .. MaxRetries /\ lastErr' = "none"
      /\ retryAfter' \in Durations /\ asked' \in Nat
      /\ UNCHANGED <<now, cancelled, due, retries>>
  BY UploadAssumption DEF Return, Durations
<1> QED
  BY <1>1, <1>2, <1>3, <1>4 DEF TypeOK

\* A split leaves a well-typed stack of pieces.
LEMMA SplitTyped ==
    ASSUME TypeOK, Split
    PROVE  TypeOK'
<1>1. PICK left \in SUBSET First.records :
        Cardinality(left) = Cardinality(First.records) \div 2 /\ SplitInto(left)
  BY DEF Split, SplitInto
<1>2. phase # "done" /\ Cardinality(First.records) > 1
  BY DEF Split
<1>3. pieces' \in Seq(Pieces) /\ Len(pieces') = Len(pieces) + 1 /\ Len(pieces) \in Nat
  BY <1>1, <1>2, SplitPieces, FirstPiece
<1>4. pieces' # <<>>
  BY <1>3
<1>5. /\ phase' = "ready" /\ attempt' \in 0 .. MaxRetries /\ lastErr' = "none"
      /\ retryAfter' \in Durations /\ asked' \in Nat
  BY UploadAssumption DEF Split, Durations
<1> QED
  BY <1>3, <1>4, <1>5 DEF Split, TypeOK

\* Every wait is a number of ticks (backoff).
LEMMA DelaysAreTimes ==
    ASSUME TypeOK, phase = "failed", ~Exhausted
    PROVE  attempt + 1 \in 1 .. MaxRetries + 1 /\ Delays(attempt + 1) \subseteq Nat
<1>1. attempt + 1 \in 1 .. MaxRetries + 1 /\ retryAfter \in Int
  BY UploadAssumption DEF TypeOK, Durations
<1>2. Cap(attempt + 1) \in 0 .. MaxBackoff
  BY <1>1, CapIs
<1> QED
  BY <1>1, <1>2, UploadAssumption DEF Delays, Least

\* What a throttle sets: the wait the server meant, up to the largest there is.
LEMMA ThrottleParsed ==
    ASSUME Throttled
    PROVE  /\ retryAfter' \in 0 .. MaxTime /\ asked' \in Nat
           /\ retryAfter' = Least(asked', MaxTime)
<1>1. CASE \E secs \in Throttles :
               retryAfter' = Seconds(Atoi(secs)) /\ asked' = Distance(Atoi(secs) * Second)
  <2>1. \A secs \in Throttles : Atoi(secs) \in Int
    BY UploadAssumption DEF Atoi
  <2> QED
    BY <1>1, <2>1, Parsed
<1>2. CASE \E d \in Dates : retryAfter' = Distance(d) /\ asked' = Distance(d)
  BY <1>2, UploadAssumption DEF Distance, Least
<1> QED
  BY <1>1, <1>2 DEF Throttled

\* TypeOK is inductive by itself.
LEMMA TypeStep ==
    ASSUME TypeOK, [Next]_vars
    PROVE  TypeOK'
<1> USE UploadAssumption
<1>1. CASE Request
  BY <1>1 DEF Request, ThrottleCleared, Durations, recordVars, TypeOK
<1>2. CASE Split
  BY <1>2, SplitTyped
<1>3. CASE Throttled
  <2>1. retryAfter' \in Durations /\ asked' \in Nat
    BY <1>3, ThrottleParsed DEF Durations
  <2> QED
    BY <1>3, <2>1 DEF Throttled, recordVars, TypeOK
<1>4. CASE Retried
  BY <1>4 DEF Retried, NetworkFails, recordVars, TypeOK
<1>5. CASE Backoff
  <2>1. PICK delay \in Delays(attempt + 1) : due' = now + delay
    BY <1>5 DEF Backoff
  <2>2. due' \in Nat
    BY <1>5, <2>1, DelaysAreTimes DEF Backoff, TypeOK
  <2>3. attempt' \in 0 .. MaxRetries
    BY <1>5 DEF Backoff, Exhausted, TypeOK
  <2> QED
    BY <1>5, <2>2, <2>3 DEF Backoff, recordVars, TypeOK
<1>6. CASE Wake
  BY <1>6 DEF Wake, recordVars, attemptVars, TypeOK
<1>7. CASE Cancel
  BY <1>7 DEF Cancel, recordVars, attemptVars, TypeOK
<1>8. CASE Tick
  BY <1>8 DEF Tick, recordVars, attemptVars, TypeOK
<1>9. CASE UNCHANGED vars
  BY <1>9 DEF vars, TypeOK
<1>10. CASE Settles /\ phase # "done"
  BY <1>10, ReturnTyped DEF Settles
<1> QED
  BY <1>1, <1>2, <1>3, <1>4, <1>5, <1>6, <1>7, <1>8, <1>9, <1>10, StepShape

\* For every number of records, allowance, timeout and throttle, the job's state is
\* well formed: a stack of non-empty pieces and no retry beyond MaxRetries (uploadBy).
THEOREM TypeCorrect == Spec => []TypeOK
<1>1. Init => TypeOK
  <2> SUFFICES ASSUME Init PROVE TypeOK
    OBVIOUS
  <2>1. [records |-> Records, deadline |-> RetryCeiling] \in Pieces
    BY UploadAssumption DEF Pieces
  <2>2. pieces \in Seq(Pieces) /\ pieces # <<>>
    BY <2>1 DEF Init
  <2>3. counted \in [Records -> Seq(Outcomes)]
    BY DEF Init
  <2>4. /\ now = 0 /\ due = 0 /\ retries = 0 /\ cancelled = FALSE /\ phase = "ready"
        /\ attempt = 0 /\ lastErr = "none" /\ retryAfter = 0 /\ asked = 0
        /\ verdict = "nil"
    BY DEF Init
  <2>5. phase = "done" <=> pieces = <<>>
    BY <2>2, <2>4
  <2>6. retryAfter \in Durations /\ asked \in Nat /\ attempt \in 0 .. MaxRetries
    BY <2>4, UploadAssumption DEF Durations
  <2>7. now \in Nat /\ due \in Nat /\ retries \in Nat /\ cancelled \in BOOLEAN /\ verdict \in Verdicts
    BY <2>4 DEF Verdicts
  <2>8. /\ phase \in {"ready", "flying", "failed", "asleep", "done"}
        /\ lastErr \in {"none", "status", "network"} /\ (phase = "failed" => lastErr # "none")
    BY <2>4
  <2> QED
    BY <2>2, <2>3, <2>5, <2>6, <2>7, <2>8 DEF TypeOK
<1>2. TypeOK /\ [Next]_vars => TypeOK'
  BY TypeStep
<1> QED
  BY <1>1, <1>2, PTL DEF Spec

-----------------------------------------------------------------------------
(* The accounting.                                                         *)

Count == 1 .. Len(pieces)

\* Settled, with the positions of the stack written out.
LEMMA SettledByPosition ==
    ASSUME TypeOK
    PROVE  Settled <=>
             /\ \A i, j \in Count : i # j => pieces[i].records \cap pieces[j].records = {}
             /\ \A r \in Records :
                  /\ Len(counted[r]) <= 1
                  /\ counted[r] = <<>> <=> \E i \in Count : r \in pieces[i].records
  BY DEF Settled, TypeOK, Count

\* The first piece goes and its records are counted, each for the first time.
LEMMA SettledOnReturn ==
    ASSUME TypeOK, TypeOK', Settled, phase # "done", NEW b \in Outcomes, NEW err, Return(b, err)
    PROVE  Settled'
<1> DEFINE n == Len(pieces)
<1>1. /\ n \in Nat \ {0} /\ First.records = pieces[1].records
      /\ pieces' = Tail(pieces) /\ Len(pieces') = n - 1
      /\ \A i \in 1 .. n - 1 : pieces'[i] = pieces[i + 1]
  BY FirstPiece DEF Return, Rest
<1>2. \A i, j \in 1 .. n : i # j => pieces[i].records \cap pieces[j].records = {}
  BY SettledByPosition DEF Count
<1>3. \A r \in Records : /\ Len(counted[r]) <= 1
                         /\ counted[r] = <<>> <=> \E i \in 1 .. n : r \in pieces[i].records
  BY SettledByPosition DEF Count
<1>4. \A r \in Records : counted'[r] = IF r \in pieces[1].records THEN Append(counted[r], b)
                                                                  ELSE counted[r]
  BY <1>1 DEF Return
<1> HIDE DEF n
<1>5. \A i, j \in 1 .. n - 1 : i # j => pieces'[i].records \cap pieces'[j].records = {}
  BY <1>1, <1>2
<1>6. ASSUME NEW r \in Records
      PROVE  /\ Len(counted'[r]) <= 1
             /\ counted'[r] = <<>> <=> \E i \in 1 .. n - 1 : r \in pieces'[i].records
  <2>1. CASE r \in pieces[1].records
    <3>1. counted[r] = <<>>
      BY <1>1, <1>3, <2>1
    <3>0. Append(<<>>, b) = <<b>>
      OBVIOUS
    <3>2. counted'[r] = <<b>>
      BY <1>4, <2>1, <3>1, <3>0, Zenon
    <3>3. \A i \in 1 .. n - 1 : r \notin pieces[i + 1].records
      <4>1. \A i \in 1 .. n - 1 : i + 1 \in 1 .. n /\ i + 1 # 1 /\ 1 \in 1 .. n
        BY <1>1
      <4> QED
        BY <4>1, <1>2, <2>1
    <3> QED
      BY <1>1, <3>2, <3>3
  <2>2. CASE r \notin pieces[1].records
    <3>1. counted'[r] = counted[r]
      BY <1>4, <2>2
    <3>2. (\E i \in 1 .. n : r \in pieces[i].records)
            <=> \E i \in 1 .. n - 1 : r \in pieces[i + 1].records
      <4>1. ASSUME NEW i \in 1 .. n, r \in pieces[i].records
            PROVE  \E k \in 1 .. n - 1 : r \in pieces[k + 1].records
        <5>1. i # 1
          BY <2>2, <4>1
        <5>2. i - 1 \in 1 .. n - 1 /\ (i - 1) + 1 = i
          BY <1>1, <5>1
        <5> QED
          BY <4>1, <5>2
      <4>2. \A k \in 1 .. n - 1 : k + 1 \in 1 .. n
        BY <1>1
      <4> QED
        BY <4>1, <4>2
    <3> QED
      BY <1>1, <1>3, <3>1, <3>2
  <2> QED
    BY <2>1, <2>2
<1>7. DOMAIN pieces' = 1 .. n - 1
  BY <1>1, FirstPiece
<1> QED
  BY <1>5, <1>6, <1>7 DEF Settled

\* The halves share out the first piece's records between them.
LEMMA SettledOnSplit ==
    ASSUME TypeOK, Settled, Split
    PROVE  Settled'
<1> DEFINE n == Len(pieces)
<1>1. PICK left \in SUBSET First.records :
        Cardinality(left) = Cardinality(First.records) \div 2 /\ SplitInto(left)
  BY DEF Split, SplitInto
<1>2. phase # "done" /\ Cardinality(First.records) > 1 /\ counted' = counted
  BY DEF Split
<1>3. /\ n \in Nat \ {0} /\ First.records = pieces[1].records
      /\ DOMAIN pieces' = 1 .. n + 1
      /\ pieces'[1].records = left /\ pieces'[2].records = pieces[1].records \ left
      /\ \A i \in 3 .. n + 1 : pieces'[i] = pieces[i - 1]
  <2>1. n \in Nat \ {0} /\ First.records = pieces[1].records
    BY <1>2, FirstPiece
  <2>2. /\ pieces' \in Seq(Pieces) /\ Len(pieces') = n + 1
        /\ pieces'[1] = Half(left) /\ pieces'[2] = Half(First.records \ left)
        /\ \A i \in 3 .. n + 1 : pieces'[i] = pieces[i - 1]
    BY <1>1, <1>2, SplitPieces
  <2>3. pieces'[1].records = left /\ pieces'[2].records = pieces[1].records \ left
    BY <2>1, <2>2 DEF Half
  <2>4. DOMAIN pieces' = 1 .. n + 1
    BY <2>2
  <2> QED
    BY <2>1, <2>2, <2>3, <2>4
<1>4. \A i, j \in 1 .. n : i # j => pieces[i].records \cap pieces[j].records = {}
  BY SettledByPosition DEF Count
<1>5. \A r \in Records : /\ Len(counted[r]) <= 1
                         /\ counted[r] = <<>> <=> \E i \in 1 .. n : r \in pieces[i].records
  BY SettledByPosition DEF Count
<1> HIDE DEF n
<1>6. \A i \in 3 .. n + 1 : i - 1 \in 1 .. n /\ i - 1 # 1
  BY <1>3
<1>7. \A i \in 1 .. n + 1 : i = 1 \/ i = 2 \/ i \in 3 .. n + 1
  BY <1>3
<1>8. \A i, j \in 1 .. n + 1 : i # j => pieces'[i].records \cap pieces'[j].records = {}
  <2> SUFFICES ASSUME NEW i \in 1 .. n + 1, NEW j \in 1 .. n + 1, i # j
               PROVE  pieces'[i].records \cap pieces'[j].records = {}
    OBVIOUS
  <2>1. \A k \in 3 .. n + 1 : /\ pieces'[k].records = pieces[k - 1].records
                              /\ pieces[k - 1].records \cap pieces[1].records = {}
    BY <1>3, <1>4, <1>6
  <2>2. CASE i \in 3 .. n + 1 /\ j \in 3 .. n + 1
    <3>1. i - 1 # j - 1
      BY <2>2
    <3> QED
      BY <3>1, <2>2, <2>1, <1>4, <1>6
  <2>3. CASE i \notin 3 .. n + 1 \/ j \notin 3 .. n + 1
    BY <2>1, <2>3, <1>1, <1>3, <1>7
  <2> QED
    BY <2>2, <2>3
<1>9. ASSUME NEW r \in Records
      PROVE  (\E i \in 1 .. n : r \in pieces[i].records)
               <=> \E i \in 1 .. n + 1 : r \in pieces'[i].records
  <2>1. ASSUME NEW i \in 1 .. n, r \in pieces[i].records
        PROVE  \E k \in 1 .. n + 1 : r \in pieces'[k].records
    <3>1. CASE i = 1
      <4>1. 1 \in 1 .. n + 1 /\ 2 \in 1 .. n + 1
        BY <1>3
      <4> QED
        BY <4>1, <3>1, <2>1, <1>3
    <3>2. CASE i # 1
      <4>1. i + 1 \in 3 .. n + 1 /\ (i + 1) - 1 = i /\ i + 1 \in 1 .. n + 1
        BY <3>2, <1>3
      <4> QED
        BY <4>1, <2>1, <1>3
    <3> QED
      BY <3>1, <3>2
  <2>2. ASSUME NEW k \in 1 .. n + 1, r \in pieces'[k].records
        PROVE  \E i \in 1 .. n : r \in pieces[i].records
    <3>1. CASE k \in 3 .. n + 1
      BY <3>1, <2>2, <1>3, <1>6
    <3>2. CASE k \notin 3 .. n + 1
      <4>1. 1 \in 1 .. n /\ r \in pieces[1].records
        BY <3>2, <2>2, <1>1, <1>3, <1>7
      <4> QED
        BY <4>1
    <3> QED
      BY <3>1, <3>2
  <2> QED
    BY <2>1, <2>2
<1> QED
  BY <1>2, <1>3, <1>5, <1>8, <1>9 DEF Settled

\* However the batch is split and whatever becomes of the parts, each record is in
\* one piece until it is counted, and is counted once (uploadBy, splitAndSend).
THEOREM EachSettledOnce == Spec => []Settled
<1>1. Init => Settled
  <2> SUFFICES ASSUME Init PROVE Settled
    OBVIOUS
  <2>1. DOMAIN pieces = {1} /\ pieces[1].records = Records /\ \A r \in Records : counted[r] = <<>>
    BY DEF Init
  <2> QED
    BY <2>1 DEF Settled
<1>2. TypeOK /\ TypeOK' /\ Settled /\ [Next]_vars => Settled'
  <2> SUFFICES ASSUME TypeOK, TypeOK', Settled, [Next]_vars PROVE Settled'
    OBVIOUS
  <2>1. CASE Settles /\ phase # "done"
    BY <2>1, SettledOnReturn DEF Settles
  <2>2. CASE Split
    BY <2>2, SettledOnSplit
  <2>3. CASE UNCHANGED recordVars
    BY <2>3 DEF recordVars, Settled
  <2> QED
    BY <2>1, <2>2, <2>3, StepShape, Elsewhere
<1> QED
  BY <1>1, <1>2, TypeCorrect, PTL DEF Spec

-----------------------------------------------------------------------------
(* The time.                                                               *)

\* Each piece holds the job to the ceiling it started with (splitAndSend).
Inherited == \A i \in Count : pieces[i].deadline = RetryCeiling

Uncounted == {r \in Records : counted[r] = <<>>}

\* The pieces tried so far, of the 2n-1 that n records can make: a piece of k
\* records still to try stands for the 2k-1 it can be split into.
Used == (2 * Cardinality(Records) - 1) - (2 * Cardinality(Uncounted) - Len(pieces))

\* The time k pieces may have taken: the ceiling, and k first attempts past it.
Spent(k) == RetryCeiling + Timeout * k

Timed ==
    /\ phase \in {"ready", "done"} /\ attempt = 0 => now <= Spent(Used)
    /\ phase = "ready" /\ attempt > 0 => now <= RetryCeiling
    /\ phase = "flying" => now <= due /\ due <= Spent(Used + 1)
    /\ phase = "flying" /\ attempt > 0 => due <= RetryCeiling + Timeout
    /\ phase = "failed" => now <= Spent(Used + 1)
    /\ phase = "asleep" => now <= due /\ due <= RetryCeiling /\ attempt > 0
    /\ phase = "done" => attempt = 0

\* Every piece is non-empty, so there are no more of them than records.
LEMMA PiecesFit ==
    ASSUME TypeOK, Settled
    PROVE  /\ Cardinality(Records) \in Nat \ {0} /\ Cardinality(Uncounted) \in Nat
           /\ Len(pieces) <= Cardinality(Uncounted)
           /\ Cardinality(Uncounted) <= Cardinality(Records)
<1>1. IsFiniteSet(Records) /\ Uncounted \subseteq Records /\ IsFiniteSet(Uncounted)
  BY UploadAssumption, FS_Subset DEF Uncounted
<1>2. /\ Cardinality(Records) \in Nat /\ Cardinality(Uncounted) \in Nat
      /\ Cardinality(Uncounted) <= Cardinality(Records) /\ Cardinality(Records) # 0
  BY <1>1, FS_CardinalityType, FS_Subset, FS_EmptySet, UploadAssumption
<1> DEFINE f == [i \in Count |-> CHOOSE r \in Records : r \in pieces[i].records]
<1>3. \A i \in Count : pieces[i].records # {} /\ pieces[i].records \subseteq Records
  <2>1. \A i \in Count : pieces[i] \in Pieces
    BY DEF TypeOK, Count
  <2> QED
    BY <2>1 DEF Pieces
<1>4. \A i \in Count : f[i] \in pieces[i].records /\ f[i] \in Records
  BY <1>3
<1> HIDE DEF f
<1>5. \A i \in Count : f[i] \in Uncounted
  BY <1>4, SettledByPosition DEF Uncounted
<1>6. \A i, j \in Count : f[i] = f[j] => i = j
  BY <1>4, SettledByPosition
<1>7. f \in [Count -> Uncounted]
  BY <1>5 DEF f
<1>8. f \in Injection(Count, Uncounted)
  BY <1>6, <1>7 DEF Injection, IsInjective
<1>9. Cardinality(Count) <= Cardinality(Uncounted)
  BY <1>1, <1>8, FS_Injection
<1>10. Cardinality(Count) = Len(pieces)
  <2>1. Len(pieces) \in Nat
    BY DEF TypeOK
  <2> QED
    BY <2>1, FS_Interval DEF Count
<1> QED
  BY <1>2, <1>9, <1>10

\* The count of pieces tried is a number, also when none is left.
LEMMA UsedIsNat ==
    ASSUME TypeOK, Settled
    PROVE  Used \in Nat
<1>1. /\ Cardinality(Records) \in Nat \ {0} /\ Cardinality(Uncounted) \in Nat
      /\ Cardinality(Uncounted) <= Cardinality(Records) /\ Len(pieces) \in Nat
  BY PiecesFit DEF TypeOK
<1>2. CASE Len(pieces) = 0
  <2>1. Uncounted = {}
    BY <1>2, SettledByPosition DEF Count, Uncounted
  <2>2. Cardinality(Uncounted) = 0
    BY <2>1, FS_EmptySet
  <2> QED
    BY <1>1, <1>2, <2>2 DEF Used
<1>3. CASE Len(pieces) # 0
  BY <1>1, <1>3 DEF Used
<1> QED
  BY <1>2, <1>3

\* Settling the first piece uses up at least one, splitting it exactly one.
LEMMA UsedGrows ==
    ASSUME TypeOK, TypeOK', Settled, Settled', phase # "done",
           Settles \/ Split
    PROVE  Used \in Nat /\ Used' \in Int /\ Used' >= Used + 1
<1>1. /\ Cardinality(Records) \in Nat \ {0} /\ Cardinality(Uncounted) \in Nat
      /\ Cardinality(Uncounted) <= Cardinality(Records)
      /\ Len(pieces) \in Nat \ {0} /\ IsFiniteSet(Uncounted)
  <2>1. Uncounted \subseteq Records
    BY DEF Uncounted
  <2> QED
    BY <2>1, PiecesFit, FirstPiece, UploadAssumption, FS_Subset
<1>2. Used \in Nat
  BY <1>1 DEF Used
<1>3. CASE Split
  <2>1. PICK left \in SUBSET First.records :
          Cardinality(left) = Cardinality(First.records) \div 2 /\ SplitInto(left)
    BY <1>3 DEF Split, SplitInto
  <2>2. Len(pieces') = Len(pieces) + 1
    BY <1>3, <2>1, SplitPieces DEF Split
  <2>3. Uncounted' = Uncounted
    BY <1>3 DEF Split, Uncounted
  <2> QED
    BY <1>1, <1>2, <2>2, <2>3 DEF Used
<1>4. CASE Settles
  <2>1. PICK b \in Outcomes, err \in Verdicts : Return(b, err)
    BY <1>4 DEF Settles
  <2>2. Len(pieces') = Len(pieces) - 1
    BY <2>1, FirstPiece DEF Return, Rest
  <2>3. First.records \subseteq Uncounted /\ First.records # {}
    <3>1. First \in Pieces /\ First = pieces[1] /\ 1 \in Count
      BY FirstPiece DEF Count
    <3> QED
      BY <3>1, SettledByPosition DEF Uncounted, Pieces
  <2>4. Uncounted' = Uncounted \ First.records
    <3>1. \A r \in Records : counted'[r] = IF r \in First.records THEN Append(counted[r], b)
                                                                  ELSE counted[r]
      BY <2>1 DEF Return
    <3>2. \A r \in First.records : Append(counted[r], b) # <<>>
      <4>1. \A s \in Seq(Outcomes) : Append(s, b) # <<>>
        OBVIOUS
      <4> QED
        BY <4>1, <2>3 DEF TypeOK, Uncounted
    <3> QED
      BY <3>1, <3>2, <2>3 DEF Uncounted
  <2>5. IsFiniteSet(First.records) /\ Uncounted \cap First.records = First.records
    BY <1>1, <2>3, FS_Subset
  <2>6. Cardinality(First.records) \in Nat /\ Cardinality(First.records) # 0
    BY <2>3, <2>5, FS_CardinalityType, FS_EmptySet
  <2>7. Cardinality(Uncounted') = Cardinality(Uncounted) - Cardinality(First.records)
    BY <1>1, <2>4, <2>5, FS_Difference
  <2> QED
    BY <1>1, <1>2, <2>2, <2>6, <2>7 DEF Used
<1> QED
  BY <1>2, <1>3, <1>4

\* More pieces, more time.
LEMMA SpentGrows ==
    ASSUME NEW i \in Nat, NEW j \in Nat, i <= j
    PROVE  /\ Spent(i) \in Nat /\ Spent(i) <= Spent(j) /\ RetryCeiling <= Spent(i)
           /\ Spent(i + 1) = Spent(i) + Timeout
<1>1. RetryCeiling \in Nat /\ Timeout \in Nat
  BY UploadAssumption
<1>2. \A c, t \in Nat : /\ t * i \in Nat /\ t * j \in Nat
                        /\ t * i <= t * j /\ t * (i + 1) = t * i + t
  BY SMT
<1> QED
  BY <1>1, <1>2 DEF Spent

\* The inductive invariant the time bounds rest on.
TimeInv == TypeOK /\ Settled /\ Inherited /\ Timed

\* The halves inherit the deadline, so every piece is held to the same one.
LEMMA InheritedStep ==
    ASSUME TimeInv, [Next]_vars
    PROVE  Inherited'
<1>0. TypeOK /\ Inherited
  BY DEF TimeInv
<1>1. CASE Settles /\ phase # "done"
  <2>1. pieces' = Tail(pieces)
    BY <1>1 DEF Settles, Return, Rest
  <2>2. /\ Len(pieces) \in Nat \ {0} /\ Len(pieces') = Len(pieces) - 1
        /\ \A i \in 1 .. Len(pieces) - 1 : pieces'[i] = pieces[i + 1]
    BY <1>0, <1>1, <2>1, FirstPiece
  <2>3. \A i \in 1 .. Len(pieces) - 1 : i + 1 \in 1 .. Len(pieces)
    BY <2>2
  <2> QED
    BY <1>0, <2>2, <2>3 DEF Inherited, Count
<1>2. CASE Split
  <2>1. PICK left \in SUBSET First.records :
          Cardinality(left) = Cardinality(First.records) \div 2 /\ SplitInto(left)
    BY <1>2 DEF Split, SplitInto
  <2>2. /\ Len(pieces) \in Nat \ {0} /\ First = pieces[1] /\ Len(pieces') = Len(pieces) + 1
        /\ pieces'[1] = Half(left) /\ pieces'[2] = Half(First.records \ left)
        /\ \A i \in 3 .. Len(pieces) + 1 : pieces'[i] = pieces[i - 1]
    BY <1>0, <1>2, <2>1, FirstPiece, SplitPieces DEF Split
  <2>3. First.deadline = RetryCeiling
    BY <1>0, <2>2 DEF Inherited, Count
  <2>4. pieces'[1].deadline = RetryCeiling /\ pieces'[2].deadline = RetryCeiling
    BY <2>2, <2>3 DEF Half, HalfDeadline
  <2>5. \A i \in 3 .. Len(pieces) + 1 : i - 1 \in 1 .. Len(pieces)
    BY <2>2
  <2>6. \A i \in 1 .. Len(pieces) + 1 : i = 1 \/ i = 2 \/ i \in 3 .. Len(pieces) + 1
    BY <2>2
  <2> QED
    BY <1>0, <2>2, <2>4, <2>5, <2>6 DEF Inherited, Count
<1>3. CASE UNCHANGED recordVars
  BY <1>0, <1>3 DEF recordVars, Inherited, Count
<1> QED
  BY <1>0, <1>1, <1>2, <1>3, StepShape, Elsewhere

\* A settled or split piece starts the next one with its attempts, in time.
LEMMA TimedOnNewPiece ==
    ASSUME TimeInv, TypeOK', Settled', phase # "done", now <= Spent(Used + 1),
           Settles \/ Split
    PROVE  Timed'
<1>1. /\ now' = now /\ attempt' = 0 /\ phase' \in {"ready", "done"} /\ now \in Nat
  BY DEF Settles, Return, Split, TimeInv, TypeOK
<1>2. Used \in Nat /\ Used' \in Int /\ Used' >= Used + 1
  BY UsedGrows DEF TimeInv
<1>3. Spent(Used + 1) <= Spent(Used') /\ Spent(Used + 1) \in Nat /\ Spent(Used') \in Nat
  <2>1. Used + 1 \in Nat /\ Used' \in Nat /\ Used + 1 <= Used'
    BY <1>2
  <2> QED
    BY <2>1, SpentGrows
<1>4. now <= Spent(Used')
  BY <1>1, <1>3
<1>5. Spent(Used)' = Spent(Used')
  BY DEF Spent
<1> QED
  BY <1>1, <1>4, <1>5 DEF Timed

\* Each attempt and each wait stays within the time its piece has.
LEMMA TimedStep ==
    ASSUME TimeInv, TypeOK', Settled', [Next]_vars
    PROVE  Timed'
<1>1. /\ now \in Nat /\ due \in Nat /\ attempt \in Nat /\ Timed /\ TypeOK
      /\ RetryCeiling \in Nat /\ Timeout \in Nat \ {0}
  BY UploadAssumption DEF TimeInv, TypeOK
<1>2. ASSUME Request \/ Throttled \/ Retried \/ Backoff \/ Wake \/ Cancel \/ Tick \/ UNCHANGED vars
      PROVE  Timed'
  <2>0. Used \in Nat
    BY UsedIsNat DEF TimeInv
  <2>1. /\ Spent(Used) \in Nat /\ RetryCeiling <= Spent(Used)
        /\ Spent(Used + 1) = Spent(Used) + Timeout
    BY <2>0, SpentGrows
  <2>2. Spent(Used)' = Spent(Used) /\ Spent(Used + 1)' = Spent(Used + 1)
    BY <1>2, Elsewhere DEF recordVars, Used, Uncounted, Spent
  <2>3. CASE Request
    BY <2>1, <2>2, <2>3, <1>1 DEF Request, Timed
  <2>4. CASE Throttled
    BY <2>1, <2>2, <2>4, <1>1 DEF Throttled, Timed
  <2>5. CASE Retried
    BY <2>1, <2>2, <2>5, <1>1 DEF Retried, NetworkFails, Timed
  <2>6. CASE Backoff
    <3>1. PICK delay \in Delays(attempt + 1) : ~Overruns(delay) /\ due' = now + delay
      BY <2>6 DEF Backoff
    <3>2. delay \in Nat
      BY <1>1, <2>6, DelaysAreTimes DEF Backoff
    <3>3. First.deadline = RetryCeiling
      BY <1>1, <2>6, FirstPiece DEF Backoff, TimeInv, Inherited, Count
    <3>4. phase' = "asleep" /\ now' = now /\ attempt' = attempt + 1
      BY <2>6 DEF Backoff
    <3> QED
      BY <3>1, <3>2, <3>3, <3>4, <1>1 DEF Timed, Overruns
  <2>7. CASE Wake
    BY <2>1, <2>2, <2>7, <1>1 DEF Wake, attemptVars, Timed
  <2>8. CASE Cancel
    BY <2>1, <2>2, <2>8, <1>1 DEF Cancel, attemptVars, Timed
  <2>9. CASE Tick
    BY <2>1, <2>2, <2>9, <1>1 DEF Tick, attemptVars, Timed
  <2>10. CASE UNCHANGED vars
    BY <2>2, <2>10, <1>1 DEF vars, Timed
  <2> QED
    BY <1>2, <2>3, <2>4, <2>5, <2>6, <2>7, <2>8, <2>9, <2>10
<1>3. CASE Split \/ (Settles /\ phase \in {"flying", "failed", "asleep"})
  <2>1. phase \in {"flying", "failed", "asleep"}
    BY <1>3 DEF Split
  <2>2. now <= Spent(Used + 1)
    <3>1. Used \in Nat
      BY UsedIsNat DEF TimeInv
    <3>2. RetryCeiling <= Spent(Used + 1) /\ Spent(Used + 1) \in Nat
      BY <3>1, SpentGrows
    <3> QED
      BY <2>1, <3>2, <1>1 DEF Timed
  <2> QED
    BY <1>3, <2>1, <2>2, TimedOnNewPiece
<1> QED
  BY <1>1, <1>2, <1>3, StepShape

\* Nothing has been tried at the start.
LEMMA TimeStarts ==
    ASSUME Init
    PROVE  Inherited /\ Timed
<1>1. Len(pieces) = 1 /\ pieces[1].deadline = RetryCeiling
  BY DEF Init
<1>2. Uncounted = Records
  BY DEF Init, Uncounted
<1>3. Cardinality(Records) \in Nat
  BY UploadAssumption, FS_CardinalityType
<1>4. Used = 0
  BY <1>1, <1>2, <1>3 DEF Used
<1>5. now = 0 /\ phase = "ready" /\ attempt = 0
  BY DEF Init
<1>6. now <= Spent(Used)
  <2>1. Spent(0) \in Nat
    BY SpentGrows
  <2> QED
    BY <2>1, <1>4, <1>5
<1> QED
  BY <1>1, <1>5, <1>6 DEF Inherited, Timed, Count

\* The clock and the accounting keep in step through every attempt, wait and split.
LEMMA TimeKept == Spec => []TimeInv
<1>1. Init => Inherited /\ Timed
  BY TimeStarts
<1>2. TimeInv /\ TypeOK' /\ Settled' /\ [Next]_vars => (Inherited /\ Timed)'
  BY InheritedStep, TimedStep
<1>3. TimeInv <=> TypeOK /\ Settled /\ Inherited /\ Timed
  BY DEF TimeInv
<1> QED
  BY <1>1, <1>2, <1>3, TypeCorrect, EachSettledOnce, PTL DEF Spec

\* No piece is tried that the 2n-1 do not cover, and none is left to try at the end.
LEMMA UsedBounded ==
    ASSUME TimeInv
    PROVE  /\ Used \in Nat /\ 2 * Cardinality(Records) - 1 \in Nat
           /\ Used <= 2 * Cardinality(Records) - 1
           /\ phase # "done" => Used + 1 <= 2 * Cardinality(Records) - 1
<1>1. TypeOK /\ Settled
  BY DEF TimeInv
<1>2. /\ Cardinality(Records) \in Nat \ {0} /\ Cardinality(Uncounted) \in Nat
      /\ Len(pieces) \in Nat /\ Len(pieces) <= Cardinality(Uncounted)
  BY <1>1, PiecesFit DEF TypeOK
<1>3. phase # "done" => Len(pieces) # 0
  BY <1>1, FirstPiece
<1> QED
  BY <1>1, <1>2, <1>3, UsedIsNat DEF Used

\* For every number of records and every Retry-After, a job is over within its
\* ceiling and one timeout for each piece it can be split into (uploadBy).
THEOREM TimeBounded == Spec => []WallClock
<1>1. ASSUME TimeInv PROVE WallClock
  <2> DEFINE m == 2 * Cardinality(Records) - 1
  <2>1. /\ Used \in Nat /\ m \in Nat /\ Used <= m
        /\ (phase # "done" => Used + 1 <= m)
    BY <1>1, UsedBounded
  <2>2. WallClockBound = Spent(m)
    <3>1. \A k, t \in Int : k * t = t * k
      OBVIOUS
    <3>2. Timeout \in Int /\ m \in Int
      BY <2>1, UploadAssumption
    <3> QED
      BY <3>1, <3>2 DEF WallClockBound, Spent
  <2> HIDE DEF m
  <2>3. Spent(Used) <= Spent(m) /\ RetryCeiling <= Spent(m) /\ Spent(m) \in Nat /\ Spent(Used) \in Nat
    BY <2>1, SpentGrows
  <2>4. phase # "done" => Spent(Used + 1) <= Spent(m) /\ Spent(Used + 1) \in Nat
    <3>1. Used + 1 \in Nat
      BY <2>1
    <3> QED
      BY <3>1, <2>1, SpentGrows
  <2>5. Timed /\ now \in Nat /\ due \in Nat /\ RetryCeiling \in Nat
    BY <1>1, UploadAssumption DEF TimeInv, TypeOK
  <2>6. /\ phase \in {"ready", "flying", "failed", "asleep", "done"} /\ attempt \in Nat
    BY <1>1, UploadAssumption DEF TimeInv, TypeOK
  <2>7. now <= Spent(m)
    <3>1. CASE phase = "ready"
      <4>1. attempt = 0 \/ attempt > 0
        BY <2>6
      <4> QED
        BY <3>1, <4>1, <2>3, <2>5 DEF Timed
    <3>2. CASE phase = "flying"
      BY <3>2, <2>3, <2>4, <2>5 DEF Timed
    <3>3. CASE phase = "failed"
      BY <3>3, <2>3, <2>4, <2>5 DEF Timed
    <3>4. CASE phase = "asleep"
      BY <3>4, <2>3, <2>5 DEF Timed
    <3>5. CASE phase = "done"
      BY <3>5, <2>3, <2>5 DEF Timed
    <3> QED
      BY <3>1, <3>2, <3>3, <3>4, <3>5, <2>6
  <2> QED
    BY <2>2, <2>7 DEF WallClock
<1> QED
  BY <1>1, TimeKept, PTL

\* For every throttle and every way of splitting, no retry starts past the ceiling
\* of the whole batch: a half gets no ceiling of its own (splitAndSend).
THEOREM NoneRetriedLate == Spec => []NoLateRetry
<1>1. TimeInv => NoLateRetry
  <2>1. ASSUME TimeInv PROVE due \in Nat /\ Timeout \in Nat /\ RetryCeiling \in Nat /\ Timed
    BY <2>1, UploadAssumption DEF TimeInv, TypeOK
  <2> QED
    BY <2>1 DEF Timed, NoLateRetry
<1> QED
  BY <1>1, TimeKept, PTL

-----------------------------------------------------------------------------
(* The verdict.                                                            *)

\* The verdict so far: nil as long as every record counted was sent.
Told == verdict = "nil" <=> \A r \in Records : counted[r] # <<>> => counted[r] = <<"sent">>

\* Every outcome but an accepted request returns an error (uploadBy).
LEMMA ReturnTells ==
    ASSUME TypeOK, Settles, Next,
           ~(Request \/ Throttled \/ Retried \/ Backoff \/ Wake \/ Cancel \/ Tick \/ Split)
    PROVE  UNCHANGED vars \/ \E b \in Outcomes, err \in Verdicts :
             Return(b, err) /\ (b = "sent" <=> err = "nil") /\ phase # "done"
<1> DEFINE R(b, err) == Return(b, err) /\ (b = "sent" <=> err = "nil") /\ phase # "done"
           Goal == \E b \in Outcomes, err \in Verdicts : R(b, err)
<1>1. \A b \in Outcomes, err \in Verdicts : R(b, err) => Goal
  OBVIOUS
<1>2. CASE Accepted
  <2>1. R("sent", "nil")
    BY <1>2 DEF Accepted
  <2> QED
    BY <1>1, <2>1 DEF Outcomes, Verdicts
<1>3. CASE Terminal
  <2>1. R("rejected", "status")
    BY <1>3 DEF Terminal
  <2> QED
    BY <1>1, <2>1 DEF Outcomes, Verdicts
<1>4. CASE Oversize
  <2>1. R("oversize", "status")
    BY <1>4 DEF Oversize
  <2> QED
    BY <1>1, <2>1 DEF Outcomes, Verdicts
<1>5. CASE SplitFails
  <2>1. R("rejected", "split")
    BY <1>5 DEF SplitFails
  <2> QED
    BY <1>1, <2>1 DEF Outcomes, Verdicts
<1>6. CASE NetworkFails
  <2>1. R("closed", "shutdown")
    BY <1>6 DEF NetworkFails, Retried
  <2> QED
    BY <1>1, <2>1 DEF Outcomes, Verdicts
<1>7. CASE GiveUp
  <2>1. R("rejected", lastErr) /\ lastErr \in Verdicts
    BY <1>7 DEF GiveUp, TypeOK, Verdicts
  <2> QED
    BY <1>1, <2>1 DEF Outcomes
<1>8. CASE WakeCancelled
  <2>1. R("closed", "shutdown")
    BY <1>8 DEF WakeCancelled
  <2> QED
    BY <1>1, <2>1 DEF Outcomes, Verdicts
<1> QED
  BY <1>2, <1>3, <1>4, <1>5, <1>6, <1>7, <1>8 DEF Next, Answer, Returned

\* The first error stays (splitAndSend), and no record of a settled piece had been
\* counted before.
LEMMA ToldStep ==
    ASSUME TypeOK, Settled, Told, [Next]_vars
    PROVE  Told'
<1>1. CASE Request \/ Throttled \/ Retried \/ Backoff \/ Wake \/ Cancel \/ Tick \/ UNCHANGED vars
  BY <1>1, Elsewhere DEF Told, recordVars
<1>2. CASE Split
  BY <1>2 DEF Split, Told
<1>3. ASSUME NEW b \in Outcomes, NEW err \in Verdicts, Return(b, err), b = "sent" <=> err = "nil",
             phase # "done"
      PROVE  Told'
  <2>1. First = pieces[1] /\ 1 \in DOMAIN pieces /\ First.records \in (SUBSET Records) \ {{}}
    BY <1>3, FirstPiece DEF Pieces
  <2>2. \A r \in First.records : r \in Records /\ counted[r] = <<>>
    BY <2>1 DEF Settled
  <2>3. /\ \A r \in First.records : counted'[r] = <<b>>
        /\ \A r \in Records \ First.records : counted'[r] = counted[r]
    <3>0. Append(<<>>, b) = <<b>>
      OBVIOUS
    <3> QED
      BY <1>3, <2>1, <2>2, <3>0 DEF Return
  <2>4. verdict' = IF verdict = "nil" THEN err ELSE verdict
    BY <1>3 DEF Return, FirstVerdict
  <2>5. <<b>> = <<"sent">> <=> b = "sent"
    OBVIOUS
  <2>6. \A r \in First.records : counted'[r] # <<>>
    BY <2>3
  <2>7. CASE err = "nil"
    <3>1. \A r \in First.records : counted'[r] = <<"sent">>
      BY <1>3, <2>3, <2>7
    <3> QED
      BY <2>1, <2>2, <2>3, <2>4, <2>7, <3>1 DEF Told
  <2>8. CASE err # "nil"
    <3>1. verdict' # "nil"
      BY <2>4, <2>8
    <3>2. PICK r \in First.records : TRUE
      BY <2>1
    <3>3. r \in Records /\ counted'[r] # <<>> /\ counted'[r] # <<"sent">>
      BY <1>3, <2>1, <2>3, <2>5, <2>6, <2>8
    <3> QED
      BY <3>1, <3>3 DEF Told
  <2> QED
    BY <2>7, <2>8
<1> QED
  BY <1>1, <1>2, <1>3, StepShape, ReturnTells

\* For every way a batch is split and every end its parts come to, the error a
\* Flush is answered with is nil exactly when every record was sent (uploadBy,
\* splitAndSend).
THEOREM VerdictTrue == Spec => []VerdictTellsLoss
<1>1. Init => Told
  BY DEF Init, Told
<1>2. TypeOK /\ Settled /\ Told /\ [Next]_vars => Told'
  BY ToldStep
<1>3. TypeOK /\ Settled /\ Told => VerdictTellsLoss
  <2> SUFFICES ASSUME TypeOK, Settled, Told, phase = "done"
               PROVE  verdict = "nil" <=> \A r \in Records : counted[r] = <<"sent">>
    BY DEF VerdictTellsLoss
  <2>1. DOMAIN pieces = {}
    BY DEF TypeOK
  <2>2. \A r \in Records : counted[r] # <<>>
    BY <2>1 DEF Settled
  <2> QED
    BY <2>2 DEF Told
<1> QED
  BY <1>1, <1>2, <1>3, TypeCorrect, EachSettledOnce, PTL DEF Spec

-----------------------------------------------------------------------------
(* The throttle.                                                           *)

\* A request knows of no throttle, and a network error brings none.
Forgotten ==
    phase = "flying" \/ (phase = "failed" /\ lastErr = "network") => retryAfter = 0

\* Every step but a request keeps or ends the attempt in flight.
LEMMA ForgottenStep ==
    ASSUME TypeOK, Forgotten, [Next]_vars
    PROVE  Forgotten'
<1>1. CASE Request
  BY <1>1 DEF Request, ThrottleCleared, Forgotten
<1>2. CASE Throttled
  BY <1>2 DEF Throttled, Forgotten
<1>3. CASE Retried
  BY <1>3 DEF Retried, NetworkFails, Forgotten
<1>4. CASE Backoff \/ Wake
  BY <1>4 DEF Backoff, Wake, Forgotten
<1>5. CASE Cancel \/ Tick \/ UNCHANGED vars
  BY <1>5 DEF Cancel, Tick, attemptVars, vars, Forgotten
<1>6. CASE Split
  BY <1>6 DEF Split, Forgotten
<1>7. CASE Settles
  BY <1>7 DEF Settles, Return, Forgotten
<1> QED
  BY <1>1, <1>2, <1>3, <1>4, <1>5, <1>6, <1>7, StepShape

\* The wait is parsed as it was meant, and the two are forgotten together.
Heard == retryAfter = Least(asked, MaxTime)

LEMMA HeardStep ==
    ASSUME TypeOK, Heard, [Next]_vars
    PROVE  Heard'
<1>1. Least(0, MaxTime) = 0
  BY UploadAssumption DEF Least
<1>2. CASE Request
  BY <1>1, <1>2 DEF Request, ThrottleCleared, Heard
<1>3. CASE Throttled
  BY <1>3, ThrottleParsed DEF Heard
<1>4. CASE Retried \/ Backoff \/ Wake \/ Cancel \/ Tick \/ UNCHANGED vars
  BY <1>4 DEF Retried, NetworkFails, Backoff, Wake, Cancel, Tick, attemptVars, vars, Heard
<1>5. CASE Split \/ Settles
  BY <1>1, <1>5 DEF Split, Settles, Return, Heard
<1> QED
  BY <1>2, <1>3, <1>4, <1>5, StepShape

\* Only a backoff puts the worker to sleep.
LEMMA SleepIsBackoff ==
    ASSUME TypeOK, [Next]_vars, phase = "failed", phase' = "asleep"
    PROVE  Backoff
<1>1. ~Settles
  BY DEF Settles, Return
<1> QED
  BY <1>1, StepShape
  DEF Request, Throttled, Retried, NetworkFails, Wake, Cancel, Tick, Split, vars

\* For every backoff, cap, width of a duration and of an int and every Retry-After, in
\* seconds an int holds or as a date: after an answer that asked for a wait the worker sleeps exactly that, up to
\* maxRetryAfter; otherwise, and after every network error, at most its backoff
\* doubled per attempt, up to maxBackoff, also when the answer names more seconds than
\* an int holds. No answer's wait outlives the attempt behind
\* it, and neither the doubling nor the product of seconds wraps into a shorter wait
\* (uploadBy, backoff, parseRetryAfter).
THEOREM SleepsAsTold == Spec => WaitsAsTold
<1>1. Init => Heard /\ Forgotten
  BY UploadAssumption DEF Init, Heard, Forgotten, Least
<1>2. TypeOK /\ Heard /\ Forgotten /\ [Next]_vars => Heard' /\ Forgotten'
  BY HeardStep, ForgottenStep
<1>3. ASSUME TypeOK, Heard, Forgotten, [Next]_vars
      PROVE  [phase = "failed" /\ phase' = "asleep"
                => IF lastErr = "status" /\ asked > 0 THEN due' - now = Least(asked, MaxRetryAfter)
                   ELSE due' - now \in 0 .. Least(Grown[attempt + 1], MaxBackoff)]_vars
  <2> SUFFICES ASSUME phase = "failed", phase' = "asleep"
               PROVE  IF lastErr = "status" /\ asked > 0 THEN due' - now = Least(asked, MaxRetryAfter)
                      ELSE due' - now \in 0 .. Least(Grown[attempt + 1], MaxBackoff)
    OBVIOUS
  <2>1. Backoff
    BY <1>3, SleepIsBackoff
  <2>2. PICK delay \in Delays(attempt + 1) : due' = now + delay
    BY <2>1 DEF Backoff
  <2>3. attempt + 1 \in 1 .. MaxRetries + 1 /\ delay \in Nat
    BY <1>3, <2>1, <2>2, DelaysAreTimes DEF Backoff
  <2>4. due' - now = delay
    BY <1>3, <2>2, <2>3 DEF TypeOK
  <2>5. CASE lastErr = "status" /\ asked > 0
    <3>1. retryAfter > 0 /\ Least(retryAfter, MaxRetryAfter) = Least(asked, MaxRetryAfter)
      BY <1>3, <2>5, UploadAssumption DEF Heard, Least, TypeOK
    <3> QED
      BY <2>2, <2>4, <2>5, <3>1 DEF Delays
  <2>6. CASE ~(lastErr = "status" /\ asked > 0)
    <3>1. ~(retryAfter > 0)
      <4>1. CASE lastErr = "status"
        BY <1>3, <2>6, <4>1, UploadAssumption DEF Heard, Least, TypeOK
      <4>2. CASE lastErr = "network"
        BY <1>3, <4>2 DEF Forgotten
      <4> QED
        BY <1>3, <4>1, <4>2 DEF TypeOK
    <3>2. delay \in 0 .. Cap(attempt + 1)
      BY <2>2, <3>1 DEF Delays
    <3> QED
      BY <2>3, <2>4, <2>6, <3>2, CapIs
  <2> QED
    BY <2>5, <2>6
<1> QED
  BY <1>1, <1>2, <1>3, TypeCorrect, PTL DEF Spec, WaitsAsTold
=============================================================================
