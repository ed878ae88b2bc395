------------------------------- MODULE Upload -------------------------------
(***************************************************************************)
(* One job on one upload worker, attempt by attempt against a clock        *)
(* (transport.go: upload, uploadBy, splitAndSend, backoff, sleepCtx).      *)
(* Client.tla takes each piece's outcome as one step; this module is what  *)
(* that step stands for.                                                   *)
(*                                                                         *)
(* The clock is a count of ticks and only advances while the worker waits, *)
(* for an answer or in a backoff: what the code computes in between takes  *)
(* no time, so every bound here is a bound up to scheduling delay.         *)
(***************************************************************************)
EXTENDS Integers, Sequences, FiniteSets

CONSTANTS
    Records,        \* the records of the job
    MaxRetries,     \* WithMaxRetries
    RetryCeiling,   \* WithRetryCeiling
    Timeout,        \* WithTimeout, of one attempt
    RetryBackoff,   \* WithRetryBackoff, 0 for none
    MaxBackoff,     \* maxBackoff
    MaxRetryAfter,  \* maxRetryAfter
    Second,         \* time.Second, in ticks
    MaxTime,        \* the largest time.Duration
    MaxInt,         \* the largest int
    Throttles,      \* the seconds of a Retry-After header, 0 for none
    Dates           \* how far ahead the date of one is

ASSUME UploadAssumption ==
    /\ IsFiniteSet(Records) /\ Records # {}
    /\ MaxRetries \in Nat /\ RetryBackoff \in Nat
    /\ RetryCeiling \in Nat \ {0} /\ Timeout \in Nat \ {0}
    /\ MaxBackoff \in Nat \ {0} /\ MaxRetryAfter \in Nat \ {0}
    /\ Second \in Nat \ {0} /\ MaxTime \in Nat /\ MaxInt \in Nat
    /\ 2 * MaxBackoff <= MaxTime /\ RetryBackoff <= MaxTime /\ MaxRetryAfter <= MaxTime
    /\ Throttles \subseteq Int
    /\ Dates \subseteq {d \in Int : d <= MaxTime}

\* The values of a time.Duration.
Durations == -(MaxTime + 1) .. MaxTime

Outcomes == {"sent", "rejected", "oversize", "closed"}
Verdicts == {"nil", "status", "network", "split", "shutdown"}

VARIABLES
    now,         \* the clock; the job was taken at 0
    cancelled,   \* Close has cancelled the worker context
    pieces,      \* what is left of the job: the recursion's stack, first piece on top
    phase,       \* "ready" to make a request, one "flying", "failed", "asleep", "done"
    due,         \* when the attempt in flight times out, or the sleep ends
    attempt,     \* the retries of the first piece so far
    lastErr,     \* how its last attempt failed
    retryAfter,  \* the wait its last answer asked for, as parsed
    asked,       \* history: the same as the server meant it, 0 for a number no int holds
    retries,     \* Stats.Retries
    counted,     \* [Records -> Seq(Outcomes)], the counters each record was added to
    verdict      \* the error upload will return: "nil", or the reason

vars == <<now, cancelled, pieces, phase, due, attempt, lastErr, retryAfter, asked,
          retries, counted, verdict>>
attemptVars == <<attempt, lastErr, retryAfter, asked>>
recordVars == <<pieces, counted, verdict>>

Pieces == [records : (SUBSET Records) \ {{}}, deadline : Nat]
First == Head(pieces)

Init ==
    /\ now = 0 /\ cancelled = FALSE
    /\ pieces = <<[records |-> Records, deadline |-> RetryCeiling]>>
    /\ phase = "ready" /\ due = 0
    /\ attempt = 0 /\ lastErr = "none" /\ retryAfter = 0 /\ asked = 0
    /\ retries = 0 /\ counted = [r \in Records |-> <<>>] /\ verdict = "nil"

-----------------------------------------------------------------------------
(* What every outcome does.                                                *)

\* uploadBy returns for the first piece, with its records counted under b.
\* Both halves are attempted whatever the first does, and the first error wins.
RestUnlessFailed(err) == IF err = "nil" THEN Tail(pieces) ELSE <<>>
Rest(err) == Tail(pieces)

LatestVerdict(err) == err
FirstVerdict(err) == IF verdict = "nil" THEN err ELSE verdict

Return(b, err) ==
    /\ counted' = [r \in Records |-> IF r \in First.records THEN Append(counted[r], b)
                                                            ELSE counted[r]]
    /\ pieces' = Rest(err)
    /\ verdict' = FirstVerdict(err)
    /\ phase' = IF Rest(err) = <<>> THEN "done" ELSE "ready"
    /\ attempt' = 0 /\ lastErr' = "none" /\ retryAfter' = 0 /\ asked' = 0
    /\ UNCHANGED <<now, cancelled, due, retries>>

-----------------------------------------------------------------------------
(* The attempts.                                                           *)

\* No attempt knows of an earlier answer's throttle.
ThrottleKept == retryAfter
ThrottleCleared == 0

Request ==
    /\ phase = "ready"
    /\ retryAfter' = ThrottleCleared /\ asked' = 0
    /\ phase' = "flying" /\ due' = now + Timeout
    /\ UNCHANGED <<now, cancelled, recordVars, attempt, lastErr, retries>>

Accepted == phase = "flying" /\ Return("sent", "nil")

\* 401, 402, 403, 406, ...: no wait changes it.
Terminal == phase = "flying" /\ Return("rejected", "status")

\* 413 for a single record: nothing left to split.
Oversize ==
    /\ phase = "flying" /\ Cardinality(First.records) = 1
    /\ Return("oversize", "status")

SplitFails ==
    /\ phase = "flying" /\ Cardinality(First.records) > 1
    /\ Return("rejected", "split")

\* The deadline of each half of a piece split after a 413.
FreshDeadline(deadline) == now + RetryCeiling
HalfDeadline(deadline) == deadline

Half(S) == [records |-> S, deadline |-> HalfDeadline(First.deadline)]

Split ==
    /\ phase = "flying" /\ Cardinality(First.records) > 1
    /\ \E left \in SUBSET First.records :
         /\ Cardinality(left) = Cardinality(First.records) \div 2
         /\ pieces' = <<Half(left), Half(First.records \ left)>> \o Tail(pieces)
    /\ phase' = "ready"
    /\ attempt' = 0 /\ lastErr' = "none" /\ retryAfter' = 0 /\ asked' = 0
    /\ UNCHANGED <<now, cancelled, due, retries, counted, verdict>>

Least(a, b) == IF a <= b THEN a ELSE b

\* strconv.Atoi, for parseRetryAfter: a number no int holds is an error, and the
\* header is no date either.
Atoi(n) == IF n \in -(MaxInt + 1) .. MaxInt THEN n ELSE 0

\* parseRetryAfter: seconds, saturated where their product would overflow, or the
\* distance of a date; 0 for anything that lies in the past.
Overflowed(secs) == ((secs * Second + MaxTime + 1) % (2 * (MaxTime + 1))) - (MaxTime + 1)
SecondsWrapped(secs) == IF secs <= 0 THEN 0 ELSE Overflowed(secs)
Seconds(secs) ==
    IF secs <= 0 THEN 0
    ELSE IF secs > MaxTime \div Second THEN MaxTime ELSE secs * Second
Distance(d) == IF d <= 0 THEN 0 ELSE d

\* 408, 429 or 5xx.
Throttled ==
    /\ phase = "flying"
    /\ phase' = "failed" /\ lastErr' = "status"
    /\ \/ \E secs \in Throttles :
            retryAfter' = Seconds(Atoi(secs)) /\ asked' = Distance(Atoi(secs) * Second)
       \/ \E d \in Dates : retryAfter' = Distance(d) /\ asked' = Distance(d)
    /\ UNCHANGED <<now, cancelled, recordVars, due, attempt, retries>>

\* do returned an error: the network's, or the attempt's own timeout, or the
\* worker context's. Only the parent context tells a shutdown from the others.
ShuttingDown == cancelled

NetworkFails ==
    /\ phase = "flying"
    /\ \/ ShuttingDown /\ Return("closed", "shutdown")
       \/ /\ ~ShuttingDown
          /\ phase' = "failed" /\ lastErr' = "network"
          /\ UNCHANGED <<now, cancelled, recordVars, due, attempt, retryAfter, asked, retries>>

-----------------------------------------------------------------------------
(* Between two attempts.                                                   *)

\* Twice a time.Duration, as int64 has it.
Twice(d) ==
    IF 2 * d > MaxTime THEN 2 * d - 2 * (MaxTime + 1)
    ELSE IF 2 * d < -(MaxTime + 1) THEN 2 * d + 2 * (MaxTime + 1) ELSE 2 * d

\* The loop of backoff: a doubling before each attempt but the first, until the
\* cap is passed.
Doubling == [d \in Int |-> IF d < MaxBackoff THEN Twice(d) ELSE d]
Doubled[n \in 1 .. MaxRetries + 1] ==
    IF n = 1 THEN RetryBackoff ELSE Doubling[Doubled[n - 1]]

Cap(n) ==
    IF RetryBackoff = 0 THEN 0
    ELSE IF Doubled[n] <= 0 \/ Doubled[n] > MaxBackoff THEN MaxBackoff ELSE Doubled[n]

\* backoff(retryBackoff, n, retryAfter): the server's wait, capped, or full jitter.
Delays(n) == IF retryAfter > 0 THEN {Least(retryAfter, MaxRetryAfter)} ELSE 0 .. Cap(n)

ExhaustedLate == attempt > MaxRetries
Exhausted == attempt = MaxRetries

NeverOverruns(delay) == FALSE
Overruns(delay) == now + delay > First.deadline

\* The attempts are used up, or the wait would end past the deadline.
GiveUp ==
    /\ phase = "failed"
    /\ Exhausted \/ \E delay \in Delays(attempt + 1) : Overruns(delay)
    /\ Return("rejected", lastErr)

Backoff ==
    /\ phase = "failed" /\ ~Exhausted
    /\ \E delay \in Delays(attempt + 1) : ~Overruns(delay) /\ due' = now + delay
    /\ attempt' = attempt + 1
    /\ phase' = "asleep"
    /\ UNCHANGED <<now, cancelled, recordVars, lastErr, retryAfter, asked, retries>>

\* When the context is done as well, sleepCtx returns either way.
Wake ==
    /\ phase = "asleep" /\ now = due
    /\ retries' = retries + 1
    /\ phase' = "ready"
    /\ UNCHANGED <<now, cancelled, recordVars, attemptVars, due>>

SleepUninterrupted == FALSE
SleepInterrupted == cancelled

WakeCancelled == phase = "asleep" /\ SleepInterrupted /\ Return("closed", "shutdown")

-----------------------------------------------------------------------------
(* The environment.                                                        *)

\* Close's budget has run out (client.go, Close).
Cancel ==
    /\ phase # "done" /\ ~cancelled /\ cancelled' = TRUE
    /\ UNCHANGED <<now, recordVars, attemptVars, phase, due, retries>>

Tick ==
    /\ phase \in {"flying", "asleep"} /\ now < due
    /\ now' = now + 1
    /\ UNCHANGED <<cancelled, recordVars, attemptVars, phase, due, retries>>

Returned == phase = "done" /\ UNCHANGED vars

Answer == Accepted \/ Terminal \/ Oversize \/ SplitFails \/ Split \/ Throttled
Next == Request \/ Answer \/ NetworkFails \/ GiveUp \/ Backoff \/ Wake
        \/ WakeCancelled \/ Cancel \/ Tick \/ Returned

Spec == Init /\ [][Next]_vars

-----------------------------------------------------------------------------
(* Properties.                                                             *)

\* The type invariant: pieces of the job, never a retry beyond the allowance.
TypeOK ==
    /\ now \in Nat /\ due \in Nat /\ retries \in Nat
    /\ cancelled \in BOOLEAN
    /\ pieces \in Seq(Pieces)
    /\ phase \in {"ready", "flying", "failed", "asleep", "done"}
    /\ phase = "done" <=> pieces = <<>>
    /\ attempt \in 0 .. MaxRetries
    /\ lastErr \in {"none", "status", "network"}
    /\ phase = "failed" => lastErr # "none"
    /\ retryAfter \in Durations /\ asked \in Nat
    /\ counted \in [Records -> Seq(Outcomes)]
    /\ verdict \in Verdicts

\* However its batch is split, a record is in exactly one piece until it is
\* counted, and then in none, and it is counted once (uploadBy, splitAndSend).
Settled ==
    /\ \A i, j \in DOMAIN pieces :
         i # j => pieces[i].records \cap pieces[j].records = {}
    /\ \A r \in Records :
         /\ Len(counted[r]) <= 1
         /\ counted[r] = <<>> <=> \E i \in DOMAIN pieces : r \in pieces[i].records

\* The error upload returns, which a Flush is answered with, tells of a loss: it is
\* nil exactly when every record was sent, however the halves ended.
VerdictTellsLoss ==
    phase = "done" => (verdict = "nil" <=> \A r \in Records : counted[r] = <<"sent">>)

\* No piece of a job is retried past the job's own ceiling: halving cannot buy
\* more time than the batch was granted (uploadBy).
NoLateRetry == phase = "flying" /\ attempt > 0 => due - Timeout <= RetryCeiling

\* What the ceiling does bound: past it each piece still unsent costs one more
\* attempt, its first, and n records are at most 2n-1 pieces.
WallClockBound == RetryCeiling + (2 * Cardinality(Records) - 1) * Timeout
WallClock == now <= WallClockBound

\* The wait before each attempt without a word from the server, uncapped.
Grown[n \in 1 .. MaxRetries + 1] == IF n = 1 THEN RetryBackoff ELSE 2 * Grown[n - 1]

\* What uploadBy, backoff and parseRetryAfter say, in numbers without a width: the
\* wait an answer asked for is waited out, up to maxRetryAfter, before the next attempt
\* and no other (a number of seconds no int holds is not read as asking for one):
\* never after a network error, which the server had no part in. Any
\* other wait is drawn from 0 to RetryBackoff doubled per attempt, up to maxBackoff,
\* and no overflow on the way turns the longest wait into none.
WaitsAsTold ==
    [][phase = "failed" /\ phase' = "asleep"
         => IF lastErr = "status" /\ asked > 0 THEN due' - now = Least(asked, MaxRetryAfter)
            ELSE due' - now \in 0 .. Least(Grown[attempt + 1], MaxBackoff)]_vars

\* What splitAndSend and WithRetryCeiling say: the ceiling bounds the time of a
\* batch, however many times it splits. The attempt in flight at the ceiling is
\* granted its own timeout here.
CeilingBoundsTime == phase = "done" => now <= RetryCeiling + Timeout

\* The worker goes on while nothing holds it.
WorkerRuns == WF_vars(Request) /\ WF_vars(GiveUp \/ Backoff)

\* Once its context is cancelled an upload ends, with no answer from the server
\* and without sitting out its wait: what Close relies on to return. net/http
\* fails a request whose context is done.
CutShort == cancelled /\ NetworkFails
CloseReleases ==
    WorkerRuns /\ WF_vars(WakeCancelled) /\ WF_vars(CutShort)
      => (cancelled ~> phase = "done")

\* An upload ends against a server that never answers: every attempt has a
\* timeout and the retries are bounded. What Flush and every queued record rely on.
NeverExpires == FALSE
Expires == now = due
TimesOut == Expires /\ NetworkFails
UploadEnds ==
    WorkerRuns /\ WF_vars(Tick) /\ WF_vars(Wake) /\ WF_vars(TimesOut)
      => <>(phase = "done")
=============================================================================
