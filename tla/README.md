# A TLA+ verification of betterstack-logs-client-go

The repository is a Go client that ships `log/slog` records to an HTTP ingestion
endpoint. This directory models its delivery pipeline, its buffers, its caches and
its handlers in TLA+, checks the models with TLC and proves their central
invariants with TLAPS. Paths below are relative
to the repository (`src/` in `PROJECT.json`).

## 1. Inventory of the system

| Component | Code | State | Operations | What makes it correct |
|---|---|---|---|---|
| Client | `client.go` | queue channel, `done`/`shutdown`/`senderDone` channels, worker context, counters of `Stats` | `Enqueue`, `Flush`, `Close`, `Stats` | every record is counted under exactly one outcome; `Flush` waits for what it covers; `Close` loses nothing within its budget, leaves nothing running and always returns |
| Sender | `sender.go` (`sender`) | batch being built, timer and its `armed` flag, report ticker | `run`, `drain`, `flush`, `dispatch`, `handOff`, `arm`, `disarm` | no record stays behind without a timer; a flush request sees everything enqueued before it; the sender never blocks for good |
| Upload pool | `sender.go` (`uploadPool`) | job channel, `dispatched`, `completed`, first error, waiters | `recordDispatch`, `await`, `complete`, `signalLocked`, `abandon`, `shutdown` | one reply per waiter, no waiter left behind, errors surface |
| Worker | `transport.go` (`worker`) | current batch, private packer and random source | `upload`, `uploadBy`, `splitAndSend`, `do` | retries bounded in number and time; 413 splits cover every record; shutdown is not counted as rejection |
| Backoff | `transport.go` | – | `isRetryable`, `backoff`, `parseRetryAfter`, `sleepCtx` | delays within bounds, no overflow |
| Limiter | `limiter.go` | theoretical arrival time (atomic) | `allow` | no more than the window's allowance under any interleaving, no wrap-around |
| Drop summaries | `sender.go`, `errors.go` | last reported counters, ticker phase | `maybeReportDrops`, `reportDrops`, `reportFinalDrops`, `safeReport` | every drop is reported, at most one summary per reason and interval |
| Buffer pools | `client.go` | pooled record buffers and batch buffers | `putRecordBuf`, `getBatchBufs`, `putBatchBufs`, `releaseBatch` | one owner per buffer; nothing pooled is still aliased |
| Packer | `client.go`, `encoder.go` | scratch and compression buffers | `pack`, `split`, `Frame` | a half's bounds index its own bytes; framing is that of the whole |
| Source cache | `attr.go` | two generations and a count | `lookup`, `remember`, `promote`, `rotate` | a site in use is not evicted; the documented ceiling |
| Handler and attribute tree | `handler.go`, `attr.go`, `converter.go` | handler's groups and attributes (immutable) | `Handle`, `WithAttrs`, `WithGroup` | group elision, precedence |
| JSON encoding | `fastjson/`, `json.go`, `encoder.go` | – | `Append`, ... | equal to `encoding/json` |

**How they interact.** `Enqueue` runs on the application's goroutines and hands a
record to the sender through the bounded queue, without blocking. `Flush` is a
rendezvous with the sender on `flushC` and then a wait on a reply channel. The
sender builds batches and hands them to the workers through the job channel,
blocking while it is full, under a context: its own worker context, or that of
the `Flush` it serves. A worker reports each batch's end to the pool, under the
pool's mutex, which answers the `Flush` calls whose target is reached. `Close`
closes `done` (Enqueue refuses), flushes under the shutdown timeout, closes
`shutdown` (the sender drains and stops, closes the job channel and joins the
workers), and cancels the worker context if the budget runs out first. `Handle`
builds a payload from what its handler inherited, the record and what is ambient,
and ends in `Enqueue`; with `WithAddSource` it looks its call site up in a cache
shared by all goroutines. Record buffers go from `Enqueue` to the sender, batch
buffers from the sender to a worker, and both back to a pool.

**What is hard.** Enqueue racing Close; a Flush whose context ends between any two
steps; the sender parked at the hand-off while everyone waits on it; completions
out of dispatch order, and ahead of the dispatch count; recursive splits whose
halves end differently; a timer that fires over an empty batch; an aborted
shutdown; halves of a split that alias their parent's pooled bytes; a body
`net/http` still reads when the worker has moved on; lock-free lookups across a
rotation in three steps; drops counted while a callback reports earlier ones. `PROJECT.json` lists each hazard at its line with the properties that
would catch it.

## 2. Plan

Done: items 1 to 9. Order: what loses or duplicates records first, then what runs
concurrently around it, then the sequential algorithms.

1. `Client` – Enqueue, Flush, Close, sender, pool and the outcomes of an upload,
   with `MCClient`, `ClientProofs` (typing and conservation) and
   `ClientGuarantees` (what the pool, the timer, Flush and Close promise).
2. `Ledger` – what the client promises about every record; `Client` implements it
   (`LedgerSpec`), proved at the end of `ClientProofs`.
3. `Upload` – attempts, the retry deadline, 413 splits inheriting it, Retry-After
   and cancellation against a clock: what one outcome step of `Client` stands for.
   Proved in `UploadProofs`: the accounting, the verdict, the bounds on time, and that every
   wait is the one asked for.
4. `Limiter` – concurrent `allow` calls around one compare-and-swap, on a clock; `Gate` –
   the same calls, each decided in one step. Proved in `LimiterProofs`: the rate, the exact
   burst, that the arrival time only grows, and that `Limiter` implements `Gate`.
5. `SourceCache` – concurrent lookups, promotions and rotations. Proved in
   `SourceCacheProofs`: a generation leaves through cold, whole; a site in use stays; a
   promotion moves its entry.
6. `Buffers` – both pools, framing and splitting, byte by byte. Proved in
   `BuffersProofs`: one owner per buffer, and the contents of everything still read.
7. `DropReports` – the ticker, the three callers of `maybeReportDrops`, the deltas
   and the final totals. Proved in `DropReportsProofs`: freshness, and that no drop is
   told twice.
8. `Derivation` – handlers derived from one another and what they share. Proved in
   `DerivationProofs`: each keeps its own history.
9. `Handler` – the attribute tree over what was derived, against the document the
   same calls describe.

Left: proofs about the attribute tree, which would first have to be written without RECURSIVE
operators and then needs induction over trees of attributes.

## 3. The model

`Client.tla` has one action per step that another goroutine can interleave with:

| Code | Actions |
|---|---|
| `Enqueue` | `EnqueueEntry` / `EnqueueClosed` (the check of `done`), `EnqueueBurst`, `EnqueuePrecheck`, `EnqueueEncodeFails`, `EnqueueOversize`, `EnqueueEncode`, `EnqueueSend` |
| `run` | `SelectReceive`, `SelectTimer`, `SelectFlush`, `SelectShutdown` |
| `drain`, then `disarm` and `flush` | `DrainReceive`, `DrainFinish` |
| `flush`, `dispatch`, `handOff` | `Flush`, `DispatchFits`/`Split`/`Oversize`/`SplitFails`, `HandOffSend`, `RecordDispatch`, `HandOffAbandon` |
| pool | `Await`, `UploadComplete` (`complete`), `Signal` (`signalLocked`), `SenderStop`, `SenderJoined` (`shutdown`), `SenderExit` |
| worker | `WorkerReceive`, `UploadSent`/`Rejected`/`Oversize`/`Split`/`SplitFails`/`Cancelled`, `WorkerExit` |
| `Flush` | `FlushCall`, `SelectFlush` (the rendezvous), `FlushReplied`, `FlushSenderGone`, `FlushCtxDone` |
| `Close` | `CloseBegin`, the flush of `Closer`, `CloseShutdown`, `CloseStopped` or `CloseTimeout` and `CloseAborted`, `CloseLeftover` |

Abstractions, and why no property can tell:

- A record is the Enqueue call that brought it; a batch is the set of its records.
  Order inside a batch and its bytes are not observable by any counter. "Full by
  bytes", "over the hard limit" and the server's 413 may happen to any batch.
- A counter of `Stats` is kept as, per record, the sequence of terminal counters
  it was added to; the counter's value is the number of occurrences.
- The pieces of a split batch are dispatched (or uploaded) in any order; the code
  goes left to right.
- One upload of a piece is one step: attempts and backoff change no state that
  another goroutine reads except `Retries`. `Upload` models what is inside it.
- The timer is off, running, or fired and unread, as the channel semantics the
  code relies on (and comments on in `disarm`).
- Waiters with the same target may be answered in either order.
- `expired` is a caller's context ending. `OnError` callbacks and the report
  ticker change no state here. `Closer` stands for the `Close` call, which runs
  once (`closeOnce`) and flushes through a context of its own.
- `Flush` is modelled once per member of `Callers`, `Close` once.

Faults. `Faults` names what a configuration lets the environment do: a burst
refusal, an encoder error, a record too large by itself, a batch full by bytes,
a failing compression, a body over the hard limit, a 413, a terminal rejection
(or an exhausted retry budget), an expiring Flush context.

`Ledger.tla` is the client's promise with no pipeline in it: a record is offered
once, counted at most once, under one reason, for good; after `Close` nothing is
delivered any more. `LedgerSpec` states that `Client` implements it, with the
ledger's `closed` being `cpc = "closed"`. `Gate.tla` does the same for the limiter: a call
arrives, reads the clock, and is admitted or refused in one step, on the arrival time of that
step and in numbers that do not wrap but stop at the end of the clock. `GateSpec` maps a
call in the loop of `allow` to one being decided (`Verdicts`).

`Upload.tla` is one job on one worker, from the start of `upload` to its return.
`pieces` is the recursion of `splitAndSend` as a stack; `phase` is where `uploadBy`
is with the first piece:

| Code | Actions |
|---|---|
| building and starting a request (`retryAfter = 0`) | `Request` |
| an answer: 2xx, terminal status, 413, retryable status | `Accepted`, `Terminal`, `Oversize` / `Split` / `SplitFails`, `Throttled` |
| `do` returns an error: the network's, the attempt's timeout, a shutdown | `NetworkFails` |
| attempts used up, or the wait would end past the deadline | `GiveUp` |
| `sleepCtx` entered, over, cut short | `Backoff`, `Wake`, `WakeCancelled` |
| `Close` cancelling the worker context | `Cancel` |
| the passing of time | `Tick` |

Every action that ends a piece goes through `Return`: its records are counted
under one outcome, the stack shrinks, and the first error of the job is kept. The
clock only advances while the worker waits, for an answer or in a backoff, so the
bounds on time are bounds up to scheduling delay and the cost of encoding. An
attempt may be answered, or fail, at any instant up to its timeout. Durations have a width:
`MaxTime` stands for `MaxInt64`, `MaxInt` for the largest int and `Second` for `time.Second`.
`Seconds` and `Distance` are the two forms `parseRetryAfter` reads, the first behind `Atoi`, which
fails on a number no int holds and so leaves the wait to the client's own backoff, `Doubled` the loop of `backoff` with products that wrap
(`Twice`), `Cap` the test behind it; jitter is any delay from 0 to that. `asked` is history:
the wait the server meant, before it was given a width. What `Client` calls `UploadSent`, `Rejected`,
`Oversize`, `Split`, `SplitFails` and `Cancelled` is, here, `Return` under the
outcomes of the same names, and `Split`: `Client` lets any of them happen to any
piece it permits; `Upload` says when, and how often at most.

`Limiter.tla` is `allow` with its atomic operations apart: `ReadClock`, then `Load`
or `Refuse` (the load and the decision on it, which is local), then `Admit` or
`LoseRace` (the compare-and-swap, which sends the call back to `Load` on the same
clock reading). `Wrapped` is the int64 sum: `MaxTime` stands for `MaxInt64`, and
`After` detects the wrap as the code does. A call is one record and is made once.
Near the end of the clock the arrival time saturates and the limit is given up,
so `RateBound` and `ExactBurst` are claimed while `InRange` holds.

`SourceCache.tla` gives each atomic operation of a lookup a step:

| Code | Actions |
|---|---|
| `lookup`: load of hot, read in it; load of cold, read in it | `Lookup`, `ReadHot`; `LoadCold`, `ReadCold` |
| symbolization and the load of hot in `remember`; `LoadOrStore`; the count | `Resolve`; `Store`; `Count` |
| `promote`: load of hot; `LoadOrStore`; delete from cold | `PromoteLoadHot`; `Carry`; `Drop` |
| `rotate`: the mutex and the check; its three stores | `RotateLock`; `PublishCold`, `PublishHot`, `ResetCount` |

A generation is an address with a content; goroutines hold pointers to it, and an
address is free again once nothing refers to it. `met` is history: per site, the
discoveries counted since its last completed lookup; `crossed` and `slipped` mark
what the guarantee does not cover (below).

`Buffers.tla` is a heap of cells. A record k is encoded as a separator and k bytes,
so a byte tells whose it is, and a slice is a range of a cell. `Get` may return any
pooled cell or miss; `Puts` may keep the buffer or not (the capacity cap, or the
collector emptying a `sync.Pool`). A batch carries its ranges of raw bytes and
boundaries, the body that is its own, and the buffer set it may release, as the
struct does. `writing` is what `net/http` still reads once `do` has returned, which
an early 413 makes possible. NDJSON's frame is the identity, the array's replaces
the first separator and closes the bracket; where the separator stands makes no
difference to boundaries that are rebased. Compression is a copy that may fail. Cells are
interchangeable, so an allocation takes the least one that nothing refers to (`Fresh`); a
heap too small for what is in use would show as a deadlock of the run.

`DropReports.tla` is the sender seen from its counters: waiting (in the select of
`run` or of `handOff`), at work, in a callback, or gone. Anybody may drop a record
at any moment. `since` and `left` are the two clocks, `time.Since(lastDropReport)`
and the ticker's phase; a fire into a full channel is lost; whether `Reset` drops a
stale fire is left open, as the Go versions in reach differ. `newSender` starts the
ticker before it reads the clock: `Setup` bounds that gap. Time does not pass while
a waiting sender has a fire to serve: what is bounded is bounded up to scheduling
delay, and the time it works is not bounded at all. Close, behind the sender, counts
what it finds in the queue (`CountLeftover`), reads the totals (`ReportFinalDrops`), delivers them one
by one (`TellFinal`) and returns (`FinalEnds`), and Enqueue may refuse records between any two of these.
The totals, like the counters a report starts from, are read in one step: the reasons are independent of
each other, and a drop between two reads is one before or after both.

`Derivation.tla` has the handlers' lists and the attribute slices as references, so that
sharing shows: `Placed` is the `make` and `copy` of `withGroupOrAttrs`, `Owned` that of
`WithAttrs`, `Hoisted` what `preResolve` converts ahead of the records, and `ReuseScratch` is a
caller that fills its slice anew. `calls` is history: what was asked of a handler and of those
it comes from. `Handler.tla` adds `Handle`. The attribute
tree is a set of recursive operators with the shape of the code's functions. `era`
turns what LogValuers answer, between a handler's `WithAttrs` and its records too.
The reference, `Document`, is written the other way round: the ordered list of JSON
members the calls describe, read last-wins by `Parse`. The ambient attributes are
taken in the documented order of generality, and each stands in front of all that it is
documented to yield to. `ReplaceAttr` stands for three functions a user may install.

## 4. The runs

All bounds are in the configurations. `Records` bounds the Enqueue calls,
`Callers` the Flush calls; everything else is finite with them.

| Run | Instance | Shows |
|---|---|---|
| `faults` | 2 records, 1 Flush and Close, 2 workers, queue 1, batch 2, every fault | `TypeOK`, `CountedOnce`, `NothingLost`, `StatsBalance`, `RepliedOnce`, `FailureSurfaces`, `CloseLeavesNothingRunning`, `CleanCloseLosesNothing`, `FlushLag`, `PoolCounts`, `TimedBatch`, `LedgerSpec` |
| `liveness` | 3 records, 2 of them queued before the sender first runs, 1 worker, batches full by bytes | `CloseReturns`, `FlushReturns`, `EveryRecordSettles` |
| `early_flush` | 3 records, 2 workers, batches of 1 | violates `FlushSettles` |
| `upload` | a job of 3 records, 2 retries, ceiling 6, timeout 1, backoff 2 capped at 3, waits of at most 4 with a Retry-After; headers of 0, 1, 3, 9 and 11 seconds of 3 ticks, dates in the past and 2 ahead; durations end at 15, an int at 10 | `Settled`, `VerdictTellsLoss`, `NoLateRetry`, `WallClock`, `WaitsAsTold`, `CloseReleases`, `UploadEnds` |
| `split_ceiling` | a job of 3 records, 1 retry, ceiling 4, timeout 2 | violates `CeilingBoundsTime` |
| `limiter` | 3 calls, 2 records per window of 4 ticks, an int64 that ends at 7 | `TypeOK`, `RateBound`, `ExactBurst`, `CallReturns`, `GateSpec` |
| `source_cache` | 4 sites, 2 goroutines, generations of 2 discoveries, 4 addresses | `NeverEvicted`, `HeldOnce`, `SecondChance` |
| `source_ceiling` | 3 sites, 1 goroutine, generations of 1 | violates `Ceiling` |
| `buffers` | records of 1, 2 and 3 bytes, 1 worker, queue 2, batch 3, bodies of at most 7 bytes, 1 body still read | `QueuedIntact`, `RawIntact`, `BodyIntact`, `OneOwner` |
| `drop_reports` | 2 reasons, at most 2 drops each, interval 3, setup at most 1 | `Fresh`, `ToldOnce`, `DropsSurface` |
| `handler` | 5 configurations, 2 attribute lists, 3 records, 2 contexts, 3 answers of a LogValuer, at most 4 handlers | `HandlersApart`, `SameAsDocument`, `GroupsAsPlaced` |
| `ambient_group` | the same, at most 2 handlers | violates `SpecificWins` |

Why these bounds reach the interesting cases: two records and a batch of two is the
smallest batch that splits, before the hand-off or by a 413; full by bytes, or flushed
before the second record comes, the two are two batches, for two workers to complete in
either order; a batch of one is left for the timer or a flush; a queue of one is full
while the second record is offered; Close's own flush is the second waiter. Every
invariant of `faults` is proved for any number of records, callers and workers as well
(section 6). `liveness` has three records, a queue of two and one
worker: it starts from a queue filled before the sender first ran (a reachable state) with
enough batches to fill the worker, the job channel and the hand-off, so the sender is
parked when Close comes. Symmetry (of records, callers and workers) is used in the safety runs
only; no property names a particular record or worker.

For `upload`: three records split twice, unevenly the first time; two retries are
the fewest for which a half of a split can be retried after its parent was; the
headers ask for nothing, for a wait within `maxRetryAfter`, for one above it, and for more than
a duration can say (9 seconds of 3 ticks, where durations end at 15, would wrap to a negative
wait), and for more seconds than an int holds (11); the second doubling passes the cap; and a ceiling of 6
lies between one wait and the sum of them, so both branches of the deadline check
are taken at every level of the recursion. `Throttles`, `Dates` and the constants bound the
clock: nothing else does, and nothing else has to, which is `WallClock`. For
`limiter`: three calls for a burst of two and one refused, each of which can lose
the swap to the two others; the clock runs through a whole window and to its end,
where the sum wraps.

For `source_cache`: four sites and generations of two retire a second
generation while sites of the first are still being promoted; two goroutines let a
rotation overlap a lookup, a promotion or another discovery that also filled the
generation; four addresses are one more than two goroutines can keep referenced when
a generation is published, so an address is reused as soon as the collector may. For `buffers`: three records of different
lengths let a batch be split twice, before or after the hand-off, by bytes (a body
of all three is over the limit, either pair's may be) or by a 413; with one worker, a second
batch is packed and dispatched while the first is in flight, into whatever buffers
were put back; the cells are as many as can be in use at once. For
`drop_reports`: an interval of three has a first, a middle and a last tick, and a
ticker that is out of phase with the reports by one or two; a second drop of a reason
can come while the first is being told. For `handler`: four handlers are a parent, a child,
and two more derived from either; the lists collide on every key, hold groups that are
empty or turn out so, and meet what is ambient at the root and in `WithGroup`.


Deadlock is checked in every run: in `Client`, `Terminated` is the only state in which nothing
is left to do, and it stutters; so do `Returned` in `Upload`, `Over` in `Limiter` and
`Resolved` in `Buffers`. `drop_reports` alone does without the check: a closed client
that has counted its last drop has nothing left to do.

### Fairness

`Running`: a goroutine that can run does (sender, workers' own steps, Flush and
Close on their callers' goroutines), and the batch interval passes. No record has
to be logged and nobody has to call Flush or Close.
The liveness properties of `Client` carry their fairness as a premise, so that one run
checks all three of them.
`StalledFairness` adds only that Close's own deadline passes and that an upload
ends once the worker context is cancelled (`net/http` honours the request's
context): the server may stall for good, yet Close returns.
`ServedFairness` adds that every upload ends: each attempt has a timeout and the
retry loop is bounded. Liveness of `Flush` and of every record needs this, and the
code claims no more: a stalled upload holds its slot. The finitely many records of
the instance stand for callers that pause: a drain goes on while the queue is refilled
(`sender.go:176-189`), so under Enqueue calls that never let up a Flush without a deadline need not
return, nor does its doc say so; `FlushReturns` is not about such a client.

Both assumptions about uploads are what `Upload` shows of them. Its liveness
properties carry their own fairness as a premise: the worker goes on
(`WorkerRuns`); for `CloseReleases`, the select of `sleepCtx` and a request whose
context is done return; for `UploadEnds`, time passes, a timer that is due fires
and an attempt at its timeout fails. `CloseReleases` is the upload of
`StalledFairness` that ends once cancelled, with a server that never answers and
a clock that need not move; `UploadEnds` is the upload of `ServedFairness` that
ends, with a server that never answers. Nothing is assumed of the server.

In `Limiter` a call that has started goes on (`FairSpec`): goroutines are scheduled.

In `DropReports` (`FairSpec`), time passes, a callback returns, and Close, once the
sender is gone, ends. A select that finds the ticker ready again and again takes it some time
(strong fairness of `TickServed`: Go picks among ready cases at random), and a flush
that keeps coming up ends in a look some time (`FlushEnds`: not all of an endless
drain's flushes fail to pack). Nothing is assumed of a hand-off, which may never end:
`DropsSurface` rests on the ticker being served there too; nor of `Drop`, `Exit` or Close.

## 5. What the checks found

- **Flush can return early** (`early_flush`, `sender.go:477`). A Flush waits for
  the *number* of completed uploads to reach the number dispatched when it was
  registered. With two slots, a batch dispatched after the Flush and completed
  first makes up the number, and `Flush` returns nil with one of its own batches
  still in flight. The doc of `Flush` promises that everything enqueued before
  the call is acknowledged. `FlushLag` (run `faults`) is what does hold: those
  records have all left the queue, the sender and the job channel, and one worker at
  least holds none of them. With a single upload slot that is the promise itself.
- **The retry ceiling does not bound a split batch** (`split_ceiling`,
  `transport.go:250`). The deadline is checked before retries only, so each half
  of a split makes a first attempt however late it is. `splitAndSend` documents
  that the inherited deadline bounds the recursion in wall-clock time by
  `RetryCeiling`. What holds is `WallClock`: the ceiling, and one timeout for each
  of the at most 2n-1 pieces of n records; and `NoLateRetry`.
- **The source cache outgrows its ceiling** (`source_ceiling`, `attr.go:534`). A promotion
  is not counted against the generation it lands in, and the code says why it must not
  be. But then a generation holds `max` discoveries and everything promoted on top, and
  becomes the cold one: the documented ceiling of `2*max` live entries holds only of the sites
  that are not carried over. The sites in use at one time bound the rest.
- **An ambient group without a key wins** (`ambient_group`, `attr.go:159`). Whether an ambient
  attribute's key is taken is asked before the attribute is expanded. A group without a key has
  the empty key, which never is, and its members are put over what the record or the
  logger's `With` chain said. `WithAttrFromContext` and `WithExtraFields` (`handler.go:125-128`,
  `142-144`) say that those win. `SameAsDocument` leaves out the records of which
  `Intrudes` holds, those of such a group and a collision; everything else has the
  precedence its option documents.

Observations without a run:

- A delivery error can go to nobody (`client.go:826`). A Flush whose context ends after the sender
  has taken its request returns, but its waiter stays in the pool. A later completion
  answers it, and the answer takes the pool's error along, into a channel nobody reads: the
  Close that follows returns nil over a rejected batch. Its doc says that a Flush returns the first
  error since the previous one consumed one, and is silent on one that consumes without
  returning. `FailureSurfaces` says how far it goes: each error the pool takes on is held or
  has been given to one waiter, and a waiter that does not return it is one whose own context ended. An
  error that finds one held is not taken on; that batch's loss is in `Stats` and `OnError` only.
- The closing summary can miss a record. Close reads its totals once (`sender.go:514`) and then
  runs up to five callbacks; a record that Enqueue refuses meanwhile is counted as offered and
  dropped (`client.go:694-701`), but no summary has it, although Close has not returned.
  `WithOnError` (`client.go:424-426`) promises a final summary "covering everything lost over the
  client's life". `DropsSurface` is about what was dropped before the totals are read.
- A Retry-After of more seconds than an int holds is no longer an int to `strconv.Atoi`
  (`transport.go:368`): the wait is the computed backoff, where one second less than that would have been
  the longest wait there is. The comment on saturation below it speaks of the numbers in between.
- The bold guarantee of `sourceCache` has two exceptions, which `NeverEvicted` leaves out by
  name. A lookup that a rotation overlaps may promote into a generation that is already
  retired (`crossed`). And a discovery in the new generation, counted between its
  publication and the reset of the count, can see the old count and retire the new
  generation at once (`slipped`), whatever was used meanwhile.
- The hand-off selects between the send and `ctx.Done()` with no preference
  (`sender.go:285`), so a Flush context that is already done may drop a batch that had
  room, while `DropBacklog` says the hand-off was full. `HandOffAbandon` models it; the
  loss is counted.
- The limiter's bucket refills while it is emptied, so a window admits a full burst and then
  one more record per interval; `WithBurstProtection` says at most `maxRecords` per window. What
  holds is `RateBound`.
- The comment in `allow` that `t` is at most `now+window` is not true of a call that
  read the clock long before it loads the arrival time. The subtraction it justifies
  still cannot overflow, both operands being non-negative, and such a call is refused.
- The first look at the drop counters may take nearly two intervals: the ticker is
  created before `lastDropReport` is read, so its first tick is early by the gap and discarded.
  `Fresh` says so.
- A record over the limit by itself is reported when it is dropped (`sender.go:242`) and again in the
  next summary of its reason.
- With the context key set to `"level"` or `"message"` the reserved key replaces all attributes,
  and a record without a time lets a flattened attribute `"dt"` stand for it.

The doc of `Stats` states its own caveat on Enqueue calls racing Close;
`StatsBalance` is the identity with the records left out of the Enqueue calls still running when Close counts the queue (`racing`; none of them started after Close was called).

## 6. The proofs

`ClientAssumption` is all that is assumed: the names are distinct, the records and
workers are finitely many, there is at least one worker, and queue and batch
size are positive (`clientConfig.validate`).

- `ClientProofs.TypeCorrect`: `Spec => []TypeOK`. `TypeOK` is inductive by itself.
  Two facts carry it: a batch of two or more splits into two batches
  (`HalvesAreBatches`, by cardinality), and the sender never runs its hand-off
  without a piece in hand.
- `ClientProofs.Conservation`: `Spec => []Ownership`. `CountedOnce` is not
  inductive: it says nothing about records on their way. `Ownership` adds that
  the places a record can be in are disjoint (`Apart`), that no place holds it
  twice (`Distinct`), that what is held is not counted (`Uncounted`), and which
  program counters own something (`Phases`: without it, a Close that counts the
  queue could meet a sender that still receives from it). Each action then moves
  records between two places, or takes one part out and counts it
  (`GivenUp`, `TallyOnce`), or moves nothing (`NothingMoves`).
- `NeverCountedTwice` and `NeverLost` are its corollaries: the two halves of the
  accounting that the doc of `Stats` promises, for any number of records, callers
  and workers.

- `ClientProofs.PromiseKept`: `Spec => LedgerSpec`. `Ownership` alone does not
  say enough: a step of the ledger settles records that were *offered*, and after
  Close has returned it settles none as delivered. The invariant `Accounted` adds
  that whatever the pipeline holds or has counted was offered by a caller
  (`Offered`) and that a closed client has no sender and no worker left
  (`Joined`). Under it each action is an action of the ledger or a stutter.
- `ClientGuarantees` takes `Accounted` from there and proves the promises of one part after
  the other, each of its invariants resting on those before it:
  - `CountsAgree` (`PoolCounts`) is inductive relative to `TypeOK`: a hand-off, a receive
    and a completion move one batch between the three places counted.
  - `AnsweredOnce` (`RepliedOnce`) and `ErrorsSurface` (`FailureSurfaces`). Counting replies is
    not inductive: `Answered` says who may still answer. A Flush is with at most one server,
    its request in the rendezvous, with the sender, or a waiter of the pool, and while it is its channel is
    empty (`OneServer`); and a Flush that has been answered returns that verdict, is about to,
    or has returned for its own context (`Verdict`). An error leaves the pool only in
    the one reply a Flush is sent, so each step keeps the errors taken on equal to the one held
    and the Flush calls answered with one (`ErrorsCounted`, which includes that these are finitely many).
  - `BatchesAreTimed` (`TimedBatch`). The property speaks of the waiting sender; `Clock` adds
    the sender inside a drain, that it has no batch anywhere else, and that it has
    disarmed the timer before it goes.
  - `CloseIsQuiet` (`CloseLeavesNothingRunning`). `Down` says why nothing is left behind the
    sender and the workers: the job channel is closed only on the sender's way out, a worker
    exits only from a closed and empty one, and the waiters are released before the
    sender exits.
  - `StatsAddUp` (`StatsBalance`). `Settled` adds that the Enqueue calls still running when
    Close has counted the queue are the ones `racing` names; whatever else was
    offered has no place left to be but its counter.
  - `CleanCloseDelivers` (`CleanCloseLosesNothing`). A record is filed as lost to shutdown by a
    worker that was cut off, by an abandoned hand-off, or by the count of the queue.
    `Stopping` orders the shutdown: the sender stops only when told to, after Close's flush, and
    the worker context ends behind the sender or with the budget. `Delivered` adds that
    the last drain has emptied the queue of the records that flush was for.
  - `FlushLagBounded` (`FlushLag`). Records flow one way, from the queue through the
    sender and the job channel to the workers (`Flows`), so a place they have left stays
    empty of them. `Awaited` says what holds behind the drain of a flush, and of
    each waiter that the batches of its records still in the channel lie within its target
    (`Within`): with `PoolCounts`, once as many batches are completed there is none
    in the channel, and the worker whose completion answered is free of them. `Called`
    ties requests, waiters and replies to a call that was made.

`UploadAssumption`: the records are finitely many and there is one; ceiling, timeout
and the caps on waits are positive; twice the backoff's cap, the configured backoff and
`maxRetryAfter` fit a duration, as the code's constants (half a minute and a minute) do with room to spare. A header may
say any number of seconds, whatever an int holds (`MaxInt`), a date lie as far ahead as `t.Sub` saturates.

- `UploadProofs.TypeCorrect`, `EachSettledOnce`: `TypeOK` is inductive, and `Settled`
  is relative to it. A step settles the first piece, splits it, or leaves the
  records alone (`StepShape`, `Elsewhere`): one case each.
- `UploadProofs.TimeBounded` and `NoneRetriedLate`. `WallClock` says nothing of how
  the time was spent, so the invariant `TimeInv` adds `Inherited` (every piece is
  held to the job's own deadline) and `Timed`, which relates the clock to `Used`, the
  number of pieces tried. A piece of k records still to try stands for the 2k-1
  it can be split into, so settling one uses up at least one and splitting
  exactly one (`UsedGrows`), and there are never more pieces than uncounted records
  (`PiecesFit`, by an injection). Before a piece's first attempt the clock is at most
  the ceiling plus a timeout per piece tried; a retry starts within the ceiling.
- `UploadProofs.VerdictTrue` (`VerdictTellsLoss`). The error that `upload` returns is the first
  of the job's pieces, kept from the step that counts their records; the helper `Told` says so
  while pieces are still to come.
- `UploadProofs.SleepsAsTold` (`WaitsAsTold`). The property compares the code's arithmetic with
  arithmetic that has no width. `NoWrap`, by induction over the attempts, says that a duration
  below the cap is the number of ticks doubled as often, and that the one doubling that passes the cap does not
  pass the width; `CapIs` and `Parsed` conclude for `backoff` and `parseRetryAfter`. The
  invariant `Heard` ties the parsed wait to the one meant, through retries and splits; `Forgotten`
  says that it is gone once an attempt has failed without an answer. That the
  recursive functions `Doubled` and `Grown` exist at all is `IterationExists`.

`SourceCacheAssumption`: the nil pointer is no generation and no site, nobody is no goroutine,
and a generation holds at least one discovery.

- `SourceCacheProofs.TypeCorrect` and `SecondChanceHolds`. `SecondChance` compares the two pointers
  before and after a step; the steps of a rotation read what an earlier step of the
  same goroutine checked. The invariant `Locked` adds that whoever is in one of the three
  publishing phases holds the mutex, and what it knows there: hot is still the generation it
  filled, and, once that is published as cold, hot and cold are the same.
- `SourceCacheProofs.NeverForgotten` (`NeverEvicted`) and `PromotionMoves` (`HeldOnce`). Neither
  is inductive: a rotation reads a count that other goroutines have yet to bring up to
  date. `CacheInv` has, beside typing, `Locked` and `HeldOnce`, five parts. `Collected`: an
  address nothing refers to holds nothing. `Current` names the lookups whose use will
  count, and says that they work on the generations of the moment; `Crossing` says the same of a
  rotation's own steps, and which lookups it has crossed. `Due`: whoever is about to retire hot
  has counted it full. `Kept`: a site used within the last `Max` discoveries is in hot, or
  else in cold and was last used before the present count began, so that a full count
  finds it in hot.

`DropReportsAssumption`: the reason of what Close finds in the queue is a reason; the interval is positive, and
creating the ticker takes less than one.

- `DropReportsProofs.FreshHolds`. `Fresh` says nothing of the ticker. The invariant `Paced` relates the
  two clocks: after the first report the ticker is due exactly when the interval ends, or has
  fired; before it, within two intervals.
- `DropReportsProofs.ToldOnceHolds`. `ToldOnce` is inductive with `Reporting`: a report under
  way tells of no more than was dropped.

`LimiterAssumption`: a positive limit and window, the window within the clock's range.

- `LimiterProofs.TypeCorrect` and `NoABA`: the arrival time neither wraps nor moves
  back (`MovesForward`), to the end of the clock.
- `LimiterProofs.RateKept`. `RateBound` speaks of admitted calls only. The
  invariant `RateInv` adds that a call about to swap was entitled to on what it
  loaded (`Justified`) and that the arrival time has been paid for: for every
  instant a, it is at least an interval past a for each call admitted on a reading
  from a on (`Paid`), and at most a window past the clock.
- `LimiterProofs.BurstIsExact` (`ExactBurst`): once all calls have read one and the same
  instant and are over, all of them are admitted or exactly a window's worth. `Exact` relates the arrival time to the
  number of calls admitted (`Arrived`) while there is one reading (`OneReading`): it is that
  instant and an interval for each, and a call is refused only when one more would not fit the window.

- `LimiterProofs.DecidedOneAtATime` (`GateSpec`): each step of a call is a step of the gate or
  a stutter. A refusal decides on the value it has just loaded; an admission decided earlier,
  on a value the swap has found unchanged, and `Justified` says that it is still entitled. A
  lost swap has decided nothing.

The model of derivation assumes nothing of its constants.

- `DerivationProofs.StayApart` (`HandlersApart`). The property speaks of what each handler reads; it is not
  inductive, as it does not say who may write there. `Apart` adds that an array is one handler's
  list to its very end, so that nothing can be appended behind it in place, and that no list
  refers to the caller's slice (`Remembers`). A derivation copies the parent's array and leaves every
  other as it was (`DerivedHasItsOwn`). The theorem is about `DerivationSpec`; `Handler` starts the same way, and its
  other steps, a record and a turn of the era, leave those variables alone.

`BuffersAssumption`: records and cells are numbers, those of the records positive; the
queue and a batch hold at least one record.

- `BuffersProofs.Shared`: `Spec => []BuffersInv`, and its four corollaries
  `NeverGivenBackTwice` (`OneOwner`), `QueuedAsEncoded` (`QueuedIntact`),
  `HalvesReadTheirRecords` (`RawIntact`) and `WireCarriesWholeRecords` (`BodyIntact`). `OneOwner`
  says that nothing uses a pooled buffer; it is not inductive, as it does not say that
  whoever gives a buffer back is the last to use it. `BuffersInv` has two kinds of
  parts:
  - who may hold a cell together with whom: `RecordsApart` for record buffers, in an Enqueue call,
    queued or just received; `BatchesApart` for batches at different places (`Strangers`:
    neither uses the set of buffers the other may release); `BodiesApart` for the bodies of split
    batches, which no set of buffers holds, also while `net/http` still reads them;
  - what each cell that is still read contains: `HeldIntact`, `QueuedIntact`,
    `BatchesIntact`, and `Accumulated` for what the sender has packed so far.

  There is a lemma for each action, and under it one for what the action writes and one for what it
  leaves alone. They rest on an algebra of packed sequences (`Encodings`, `EndsOf`,
  `CutEncodings`): what a prefix, a half and a rebased range of a packing contain. Where it needs
  induction over a length, it goes by the least element of a set of counterexamples
  (`Reaches`). A split (`SplitKeeps`, `HalvesIntact`) hands each half its own range of the
  records, and its boundaries rebased to it.

Only model-checked: `SameAsDocument` and `GroupsAsPlaced` of `Handler`, and all
liveness, which is out of TLAPS' reach. The attribute tree is recursive over data, by RECURSIVE
operators, which leave the provers without their SMT backend; what a recursion over a tree computes for
every input would also need an induction over trees.

## 7. Not modelled

Of `upload`, the text of a Retry-After header and the error reports; of a batch, the gzip stream; of the handler, `Enabled`, `WithLevel` and a custom
`Converter`, which is handed the same arguments; of the source cache, a program counter that
does not symbolize, which changes nothing. Not planned: `version.go`, `doc.go`, the
example program, `net/http` and its connection pool, formatting of errors, and
byte-for-byte JSON output (`fastjson`, `json.go`), which is a function best compared with
`encoding/json` by the repository's own fuzz tests. `Stats` as a snapshot taken while the
counters move is documented as such and promises nothing. Callbacks that re-enter the
client from `OnError` are outside the package's contract and outside the model.
