------------------------------- MODULE Client -------------------------------
(***************************************************************************)
(* The delivery pipeline of one Client: Enqueue, Flush and Close on the    *)
(* callers' goroutines, the sender goroutine that assembles batches, and   *)
(* the upload pool (client.go, sender.go, the worker side of transport.go).*)
(*                                                                         *)
(* A record is an element of Records, one per Enqueue call; a batch is the *)
(* set of its records (no property tells its byte layout apart); a counter *)
(* of Stats is the history of the records added to it, kept per record in  *)
(* `counted`. The retry loop of one upload is collapsed into its outcome.  *)
(***************************************************************************)
EXTENDS Integers, Sequences, FiniteSets

CONSTANTS
    Records,     \* the Enqueue calls, each with its record
    Callers,     \* the Flush calls an application makes
    Closer,      \* the Close call, which flushes through a context of its own
    Background,  \* the client's worker context, as opposed to a Flush context
    Workers,     \* the upload goroutines; MaxInFlight is their number
    QueueSize,   \* WithMaxQueueSize
    BatchSize,   \* WithBatchSize
    Faults       \* the outcomes of the environment a model lets happen

\* What the data and the network may do to a record or a batch.
FaultKinds == {"burst",     \* WithBurstProtection refuses a record
               "encode",    \* the encoder rejects an event
               "local",     \* a record over the limit by itself, compression off
               "bytes",     \* a batch reaches MaxBatchBytes before BatchSize
               "pack",      \* compressing or splitting a batch fails
               "overLimit", \* a packed body over the hard request limit
               "tooLarge",  \* the server answers 413
               "reject",    \* a terminal status, or the retry budget runs out
               "expire"}    \* a caller's Flush context ends

ASSUME ClientAssumption ==
    /\ Closer \notin Callers
    /\ Background \notin Callers \cup {Closer}
    /\ QueueSize \in Nat \ {0} /\ BatchSize \in Nat \ {0}
    /\ IsFiniteSet(Records)
    /\ IsFiniteSet(Workers) /\ Workers # {}
    /\ Faults \subseteq FaultKinds

Flushes == Callers \cup {Closer}
Contexts == Flushes \cup {Background}
Buckets == {"sent", "queueFull", "burst", "backlog", "rejected", "oversize", "closed"}

VARIABLES
    \* Enqueue: where each call is, and Stats
    call,        \* [Records -> CallStates]
    enqueued,    \* records counted in Stats.Enqueued
    counted,     \* [Records -> Seq(Buckets)], terminal counters, in order
    queue,       \* the record channel
    \* the client's channels and contexts
    done,        \* closed first by Close: Enqueue refuses from here on
    shutdown,    \* closed by Close after its flush: the sender drains and stops
    senderDone,  \* closed when the sender has exited
    cancelled,   \* the worker context is cancelled
    \* the sender goroutine
    spc,         \* its program counter
    sctx,        \* the context its current hand-offs wait under
    resume,      \* where it goes on when the current batch is dispatched
    buf,         \* records accumulated and not yet packed
    todo,        \* packed pieces still to hand off (the recursion of dispatch)
    hand,        \* the piece at the hand-off, {} if none
    armed,       \* the sender's view of the batch timer
    timer,       \* the timer itself: off, running, or fired and unread
    \* the upload pool
    jobs,        \* the job channel
    jobsClosed,
    wpc,         \* [Workers -> {"idle", "upload", "exited"}]
    work,        \* [Workers -> set of pieces still to upload]
    werr,        \* [Workers -> BOOLEAN], the current job has failed
    dispatched, completed, poolClosed,
    perr,        \* an error no Flush has taken yet
    waiters,     \* [flush, target]: Flush calls waiting for completed to reach target
    \* Flush and Close calls
    fpc,         \* [Flushes -> {"idle", "offering", "waiting", "returned"}]
    expired,     \* [Flushes -> BOOLEAN], the call's context is done
    reply,       \* [Flushes -> Seq({"nil", "err"})], everything sent on its reply channel
    result,      \* [Flushes -> what the call returned]
    cpc,         \* Close's program counter
    \* history, for the properties only
    before,      \* [Flushes -> records whose Enqueue had returned when it was called]
    racing,      \* Enqueue calls still running when Close counted the queue
    failures     \* how many times the pool has taken an error on

callVars   == <<call, enqueued, queue>>
chanVars   == <<done, shutdown, senderDone, cancelled>>
timerVars  == <<armed, timer>>
batchVars  == <<sctx, resume, buf, todo, hand>>
senderVars == <<spc, batchVars, timerVars>>
workerVars == <<jobs, jobsClosed, wpc, work, werr>>
poolVars   == <<dispatched, completed, poolClosed, perr, waiters, reply, failures>>
flushVars  == <<fpc, expired, result, before>>
closeVars  == <<cpc, racing>>
vars == <<callVars, counted, chanVars, senderVars, workerVars, poolVars,
          flushVars, closeVars>>

CallStates == {"idle", "admitted", "offering", "returned", "refused", "failed"}
SenderStates == {"select", "drain", "dispatch", "handOff", "record", "await",
                 "stop", "joining", "exiting", "exited"}
CloseStates == {"idle", "flushing", "waiting", "aborting", "counting", "closed"}
Batches == (SUBSET Records) \ {{}}

\* A client fresh from NewClient, but for what Enqueue has done to it.
Fresh ==
    /\ counted = [r \in Records |-> <<>>]
    /\ done = FALSE /\ shutdown = FALSE /\ senderDone = FALSE /\ cancelled = FALSE
    /\ spc = "select" /\ sctx = Background /\ resume = "select"
    /\ buf = {} /\ todo = {} /\ hand = {}
    /\ armed = FALSE /\ timer = "off"
    /\ jobs = <<>> /\ jobsClosed = FALSE
    /\ wpc = [w \in Workers |-> "idle"]
    /\ work = [w \in Workers |-> {}]
    /\ werr = [w \in Workers |-> FALSE]
    /\ dispatched = 0 /\ completed = 0 /\ poolClosed = FALSE
    /\ perr = FALSE /\ waiters = {} /\ failures = 0
    /\ fpc = [f \in Flushes |-> "idle"]
    /\ expired = [f \in Flushes |-> FALSE]
    /\ reply = [f \in Flushes |-> <<>>]
    /\ result = [f \in Flushes |-> "none"]
    /\ before = [f \in Flushes |-> {}]
    /\ cpc = "idle" /\ racing = {}

Init ==
    /\ Fresh
    /\ call = [r \in Records |-> "idle"]
    /\ enqueued = {} /\ queue = <<>>

\* Stats with the records S added to counter b.
Tally(S, b) == [r \in Records |-> IF r \in S THEN Append(counted[r], b)
                                             ELSE counted[r]]

-----------------------------------------------------------------------------
(* Enqueue. The check of done is a step of its own: everything after it    *)
(* may run once Close is under way.                                        *)

EnqueueEntry(r) ==
    /\ call[r] = "idle"
    /\ ~done
    /\ call' = [call EXCEPT ![r] = "admitted"]
    /\ UNCHANGED <<enqueued, queue, counted>>

EnqueueClosed(r) ==
    /\ call[r] = "idle"
    /\ done
    /\ call' = [call EXCEPT ![r] = "refused"]
    /\ enqueued' = enqueued \cup {r}
    /\ counted' = Tally({r}, "closed")
    /\ UNCHANGED queue

\* The record is counted as offered and as dropped for reason b.
EnqueueShed(r, b) ==
    /\ call' = [call EXCEPT ![r] = "returned"]
    /\ enqueued' = enqueued \cup {r}
    /\ counted' = Tally({r}, b)
    /\ UNCHANGED queue

EnqueueBurst(r) ==
    /\ call[r] = "admitted"
    /\ "burst" \in Faults
    /\ EnqueueShed(r, "burst")

\* len(queue) == cap(queue), read before the encode.
EnqueuePrecheck(r) ==
    /\ call[r] = "admitted"
    /\ Len(queue) = QueueSize
    /\ EnqueueShed(r, "queueFull")

\* An event that does not encode is returned to the caller and counted nowhere.
EnqueueEncodeFails(r) ==
    /\ call[r] = "admitted"
    /\ Len(queue) < QueueSize /\ "encode" \in Faults
    /\ call' = [call EXCEPT ![r] = "failed"]
    /\ UNCHANGED <<enqueued, queue, counted>>

EnqueueOversize(r) ==
    /\ call[r] = "admitted"
    /\ Len(queue) < QueueSize /\ "local" \in Faults
    /\ EnqueueShed(r, "oversize")

EnqueueEncode(r) ==
    /\ call[r] = "admitted"
    /\ Len(queue) < QueueSize
    /\ call' = [call EXCEPT ![r] = "offering"]
    /\ enqueued' = enqueued \cup {r}
    /\ UNCHANGED <<queue, counted>>

\* The non-blocking send, and its default branch.
EnqueueSend(r) ==
    /\ call[r] = "offering"
    /\ call' = [call EXCEPT ![r] = "returned"]
    /\ \/ /\ Len(queue) < QueueSize
          /\ queue' = Append(queue, r)
          /\ UNCHANGED counted
       \/ /\ Len(queue) = QueueSize
          /\ counted' = Tally({r}, "queueFull")
          /\ UNCHANGED queue
    /\ UNCHANGED enqueued

Enqueue(r) ==
    /\ \/ EnqueueEntry(r) \/ EnqueueClosed(r) \/ EnqueueBurst(r)
       \/ EnqueuePrecheck(r) \/ EnqueueEncodeFails(r) \/ EnqueueOversize(r)
       \/ EnqueueEncode(r) \/ EnqueueSend(r)
    /\ UNCHANGED <<chanVars, senderVars, workerVars, poolVars, flushVars, closeVars>>

-----------------------------------------------------------------------------
(* The sender: its timer, the batch it accumulates, and flush.             *)

\* Called by appendRecord when the batch b has just become non-empty.
ArmsOnSecond(b) == Cardinality(b) = 2 /\ ~armed
Arms(b) == Cardinality(b) = 1 /\ ~armed

\* The timer once appendRecord has made the batch b.
ArmedBy(b) == armed \/ Arms(b)
TimerBy(b) == IF Arms(b) THEN "running" ELSE timer

\* disarm, with the timer in state a, t: a timer that is armed but neither
\* running nor fired would block the receive from its channel for good.
Disarm(a, t) ==
    /\ a => t # "off"
    /\ armed' = FALSE
    /\ timer' = IF a THEN "off" ELSE t

MayBeFull(b)  == Cardinality(b) >= BatchSize \/ "bytes" \in Faults
MayHaveRoom(b) == Cardinality(b) < BatchSize

\* The sender accumulates b and goes on receiving.
Accumulate(b) ==
    /\ buf' = b
    /\ armed' = ArmedBy(b) /\ timer' = TimerBy(b)
    /\ UNCHANGED <<spc, sctx, resume, todo, hand, counted>>

\* flush(ctx) of the batch b; the run loop goes on at next.
Flush(ctx, b, next) ==
    /\ sctx' = ctx /\ buf' = {}
    /\ \/ /\ b = {}
          /\ spc' = next
          /\ UNCHANGED <<todo, resume, counted>>
       \/ /\ b # {} /\ "pack" \in Faults
          /\ counted' = Tally(b, "rejected")
          /\ spc' = next
          /\ UNCHANGED <<todo, resume>>
       \/ /\ b # {}
          /\ todo' = {b}
          /\ spc' = "dispatch" /\ resume' = next
          /\ UNCHANGED counted
    /\ UNCHANGED hand

\* What the sender's steps leave alone, each in its own part of the client.
OtherThanSender == <<call, enqueued, done, shutdown, cancelled, wpc, work, werr,
                     completed, failures, expired, result, before, closeVars>>
OtherThanBatch == <<senderDone, jobs, jobsClosed, dispatched, poolClosed, perr,
                    waiters, reply>>

SelectReceive ==
    /\ spc = "select" /\ queue # <<>>
    /\ queue' = Tail(queue)
    /\ LET b == buf \cup {Head(queue)} IN
       \/ MayHaveRoom(b) /\ Accumulate(b)
       \/ /\ MayBeFull(b)
          /\ Disarm(ArmedBy(b), TimerBy(b))
          /\ Flush(Background, b, "select")
    /\ UNCHANGED <<OtherThanBatch, fpc>>

\* A fire on an empty batch is consumed and does nothing.
SelectTimer ==
    /\ spc = "select" /\ timer = "fired"
    /\ armed' = FALSE /\ timer' = "off"
    /\ Flush(Background, buf, "select")
    /\ UNCHANGED <<OtherThanBatch, fpc, queue>>

\* The rendezvous on flushC: the request is handed over in one step.
SelectFlush(f) ==
    /\ spc = "select" /\ fpc[f] = "offering"
    /\ fpc' = [fpc EXCEPT ![f] = "waiting"]
    /\ spc' = "drain" /\ sctx' = f
    /\ UNCHANGED <<OtherThanBatch, queue, counted, resume, buf, todo, hand, timerVars>>

SelectShutdown ==
    /\ spc = "select" /\ shutdown
    /\ spc' = "drain" /\ sctx' = Background
    /\ UNCHANGED <<OtherThanBatch, fpc, queue, counted, resume, buf, todo, hand, timerVars>>

\* drain flushes at the size thresholds, without touching the timer.
DrainReceive ==
    /\ spc = "drain" /\ queue # <<>>
    /\ queue' = Tail(queue)
    /\ LET b == buf \cup {Head(queue)} IN
       \/ MayHaveRoom(b) /\ Accumulate(b)
       \/ /\ MayBeFull(b)
          /\ armed' = ArmedBy(b) /\ timer' = TimerBy(b)
          /\ Flush(sctx, b, "drain")
    /\ UNCHANGED <<OtherThanBatch, fpc>>

DrainedEarly == TRUE
Drained == queue = <<>>

\* The queue is momentarily empty: disarm, and flush what was accumulated.
DrainFinish ==
    /\ spc = "drain" /\ Drained
    /\ Disarm(armed, timer)
    /\ Flush(sctx, buf, IF sctx = Background THEN "stop" ELSE "await")
    /\ UNCHANGED <<OtherThanBatch, fpc, queue>>

-----------------------------------------------------------------------------
(* dispatch and handOff.                                                   *)

\* What is left of a set of pieces after one was halved.
HalvedKeepingParent(pieces, b, h) == pieces \cup {h, b \ h}
Halved(pieces, b, h) == (pieces \ {b}) \cup {h, b \ h}

\* The left halves a batch of two or more can be cut into.
HalvesMaybeEmpty(b) == {h \in SUBSET b : Cardinality(h) <= Cardinality(b) \div 2}
Halves(b) == {h \in SUBSET b : Cardinality(h) = Cardinality(b) \div 2}

\* One piece is resolved; the pieces in rest are still to dispatch.
Continue(rest) ==
    /\ todo' = rest
    /\ spc' = IF rest = {} THEN resume ELSE "dispatch"
    /\ resume' = IF rest = {} THEN "select" ELSE resume
    /\ UNCHANGED <<sctx, buf>>

DispatchFits(b) ==
    /\ hand' = b /\ todo' = todo \ {b}
    /\ spc' = "handOff"
    /\ UNCHANGED <<counted, sctx, resume, buf>>

DispatchSplit(b) ==
    /\ "overLimit" \in Faults /\ Cardinality(b) > 1
    /\ \E h \in Halves(b) : todo' = Halved(todo, b, h)
    /\ UNCHANGED <<counted, spc, sctx, resume, buf, hand>>

DispatchOversize(b) ==
    /\ "overLimit" \in Faults /\ Cardinality(b) = 1
    /\ counted' = Tally(b, "oversize")
    /\ Continue(todo \ {b})
    /\ UNCHANGED hand

DispatchSplitFails(b) ==
    /\ {"overLimit", "pack"} \subseteq Faults /\ Cardinality(b) > 1
    /\ counted' = Tally(b, "rejected")
    /\ Continue(todo \ {b})
    /\ UNCHANGED hand

Dispatch ==
    /\ spc = "dispatch"
    /\ \E b \in todo : \/ DispatchFits(b) \/ DispatchSplit(b)
                       \/ DispatchOversize(b) \/ DispatchSplitFails(b)
    /\ UNCHANGED <<OtherThanBatch, fpc, queue, timerVars>>

HandOffSend ==
    /\ spc = "handOff" /\ Len(jobs) < Cardinality(Workers)
    /\ jobs' = Append(jobs, hand)
    /\ hand' = {} /\ spc' = "record"
    /\ UNCHANGED <<senderDone, jobsClosed, dispatched, poolClosed, perr, waiters,
                   reply, fpc, queue, counted, sctx, resume, buf, todo, timerVars>>

\* Counted after the send, so a worker may already have completed the batch.
CountDispatchOnce == IF dispatched = 0 THEN 1 ELSE dispatched
CountDispatch == dispatched + 1

RecordDispatch ==
    /\ spc = "record"
    /\ dispatched' = CountDispatch
    /\ Continue(todo)
    /\ UNCHANGED <<senderDone, jobs, jobsClosed, poolClosed, perr, waiters, reply,
                   fpc, queue, counted, hand, timerVars>>

CtxDone(ctx) == IF ctx = Background THEN cancelled ELSE expired[ctx]

\* abandon: one loss, filed by whether Close has begun.
AbandonedUncounted(b) == IF done THEN Tally(b, "closed") ELSE counted
Abandoned(b) == Tally(b, IF done THEN "closed" ELSE "backlog")

\* The select takes any ready branch: this one may be taken with a slot free.
HandOffAbandon ==
    /\ spc = "handOff" /\ CtxDone(sctx)
    /\ counted' = Abandoned(hand)
    /\ hand' = {} /\ Continue(todo)
    /\ UNCHANGED <<OtherThanBatch, fpc, queue, timerVars>>

-----------------------------------------------------------------------------
(* The pool's mutex-protected part: await, complete, signalLocked.         *)

SatisfiedPast(c, target) == c > target
Satisfied(c, target) == c >= target

KeptAnswered(ready) == waiters
Kept(ready) == waiters \ ready

LatestError(old, failing) == failing
FirstError(old, failing) == old \/ failing

Reply(f, e) == reply' = [reply EXCEPT ![f] = Append(@, IF e THEN "err" ELSE "nil")]

\* signalLocked with c uploads completed, the pool closed or not, and e the
\* error held. The first waiter in registration order takes the error; waiters
\* that wait for the same target are taken in either order.
Signal(c, isClosed, e) ==
    LET ready == {x \in waiters : Satisfied(c, x.target) \/ isClosed} IN
    /\ waiters' = Kept(ready)
    /\ \/ ready = {} /\ perr' = e /\ UNCHANGED reply
       \/ \E first \in ready :
            /\ \A x \in ready : first.target <= x.target
            /\ reply' = [f \in Flushes |->
                           IF \E x \in ready : x.flush = f
                           THEN Append(reply[f], IF e /\ f = first.flush THEN "err" ELSE "nil")
                           ELSE reply[f]]
            /\ perr' = FALSE

Await ==
    /\ spc = "await"
    /\ \/ /\ Satisfied(completed, dispatched) \/ poolClosed
          /\ Reply(sctx, perr)
          /\ perr' = FALSE
          /\ UNCHANGED waiters
       \/ /\ ~(Satisfied(completed, dispatched) \/ poolClosed)
          /\ waiters' = waiters \cup {[flush |-> sctx, target |-> dispatched]}
          /\ UNCHANGED <<perr, reply>>
    /\ spc' = "select" /\ sctx' = Background
    /\ UNCHANGED <<senderDone, jobs, jobsClosed, dispatched, poolClosed, fpc, queue,
                   counted, resume, buf, todo, hand, timerVars>>

-----------------------------------------------------------------------------
(* The sender's deferred calls: stop the timer, shut the pool down, exit.  *)

SenderStop ==
    /\ spc = "stop" /\ spc' = "joining"
    /\ timer' = "off"
    /\ jobsClosed' = TRUE
    /\ UNCHANGED <<senderDone, jobs, dispatched, poolClosed, perr, waiters, reply,
                   fpc, queue, counted, batchVars, armed>>

\* wg.Wait has returned: release every waiter that is left.
SenderJoined ==
    /\ spc = "joining" /\ \A w \in Workers : wpc[w] = "exited"
    /\ spc' = "exiting"
    /\ poolClosed' = TRUE
    /\ Signal(completed, TRUE, perr)
    /\ UNCHANGED <<senderDone, jobs, jobsClosed, dispatched, fpc, queue, counted,
                   batchVars, timerVars>>

SenderExit ==
    /\ spc = "exiting" /\ spc' = "exited"
    /\ senderDone' = TRUE
    /\ UNCHANGED <<jobs, jobsClosed, dispatched, poolClosed, perr, waiters, reply,
                   fpc, queue, counted, batchVars, timerVars>>

Sender ==
    /\ \/ SelectReceive \/ SelectTimer \/ SelectShutdown
       \/ \E f \in Flushes : SelectFlush(f)
       \/ DrainReceive \/ DrainFinish
       \/ Dispatch \/ HandOffSend \/ RecordDispatch \/ HandOffAbandon \/ Await
       \/ SenderStop \/ SenderJoined \/ SenderExit
    /\ UNCHANGED OtherThanSender

\* The batch interval passes.
TimerFires ==
    /\ timer = "running" /\ timer' = "fired"
    /\ UNCHANGED <<callVars, counted, chanVars, spc, batchVars, armed, workerVars,
                   poolVars, flushVars, closeVars>>

-----------------------------------------------------------------------------
(* The upload workers. One step is the outcome of one piece: a piece the   *)
(* server calls too large is halved and both halves stay with the worker.  *)

WorkerReceive(w) ==
    /\ wpc[w] = "idle" /\ jobs # <<>>
    /\ jobs' = Tail(jobs)
    /\ work' = [work EXCEPT ![w] = {Head(jobs)}]
    /\ wpc' = [wpc EXCEPT ![w] = "upload"]
    /\ werr' = [werr EXCEPT ![w] = FALSE]
    /\ UNCHANGED <<counted, jobsClosed, poolVars>>

\* The range over jobs ends: the channel is closed and drained.
WorkerExit(w) ==
    /\ wpc[w] = "idle" /\ jobs = <<>> /\ jobsClosed
    /\ wpc' = [wpc EXCEPT ![w] = "exited"]
    /\ UNCHANGED <<counted, jobs, jobsClosed, work, werr, poolVars>>

\* Worker w is finished with the piece b, counted under one reason.
Resolve(w, b, bucket) ==
    /\ counted' = Tally(b, bucket)
    /\ work' = [work EXCEPT ![w] = @ \ {b}]
    /\ werr' = [werr EXCEPT ![w] = @ \/ bucket # "sent"]
    /\ UNCHANGED <<jobs, jobsClosed, wpc, poolVars>>

UploadSent(w) == \E b \in work[w] : Resolve(w, b, "sent")

UploadRejected(w) == "reject" \in Faults /\ \E b \in work[w] : Resolve(w, b, "rejected")

UploadOversize(w) ==
    /\ "tooLarge" \in Faults
    /\ \E b \in work[w] : Cardinality(b) = 1 /\ Resolve(w, b, "oversize")

UploadSplit(w) ==
    /\ "tooLarge" \in Faults
    /\ \E b \in work[w] :
         /\ Cardinality(b) > 1
         /\ \E h \in Halves(b) : work' = [work EXCEPT ![w] = Halved(@, b, h)]
    /\ UNCHANGED <<counted, jobs, jobsClosed, wpc, werr, poolVars>>

UploadSplitFails(w) ==
    /\ {"tooLarge", "pack"} \subseteq Faults
    /\ \E b \in work[w] : Cardinality(b) > 1 /\ Resolve(w, b, "rejected")

\* The request or the backoff is cut short by the cancelled worker context.
UploadCancelled(w) == cancelled /\ \E b \in work[w] : Resolve(w, b, "closed")

\* complete(err), under the pool's lock: an error is taken on unless one is held.
UploadComplete(w) ==
    /\ wpc[w] = "upload" /\ work[w] = {}
    /\ completed' = completed + 1
    /\ failures' = failures + (IF werr[w] /\ ~perr THEN 1 ELSE 0)
    /\ Signal(completed + 1, poolClosed, FirstError(perr, werr[w]))
    /\ wpc' = [wpc EXCEPT ![w] = "idle"]
    /\ werr' = [werr EXCEPT ![w] = FALSE]
    /\ UNCHANGED <<counted, jobs, jobsClosed, work, dispatched, poolClosed>>

Upload(w) ==
    /\ \/ UploadSent(w) \/ UploadRejected(w) \/ UploadOversize(w)
       \/ UploadSplit(w) \/ UploadSplitFails(w) \/ UploadCancelled(w)
    /\ UNCHANGED <<callVars, chanVars, senderVars, flushVars, closeVars>>

Worker(w) ==
    \/ Upload(w)
    \/ /\ WorkerReceive(w) \/ WorkerExit(w) \/ UploadComplete(w)
       /\ UNCHANGED <<callVars, chanVars, senderVars, flushVars, closeVars>>

-----------------------------------------------------------------------------
(* Flush and Close on their callers' goroutines.                           *)

Returned == {r \in enqueued : call[r] = "returned"}

\* Whatever a Flush or Close call does, the sender and the pool stand still.
OtherThanFlush == <<callVars, senderVars, workerVars, poolVars>>

FlushCall(f) ==
    /\ fpc[f] = "idle"
    /\ fpc' = [fpc EXCEPT ![f] = "offering"]
    /\ before' = [before EXCEPT ![f] = Returned]
    /\ UNCHANGED <<counted, chanVars, expired, result, closeVars>>

FlushReturn(f, res) ==
    /\ fpc' = [fpc EXCEPT ![f] = "returned"]
    /\ result' = [result EXCEPT ![f] = res]
    /\ UNCHANGED <<counted, chanVars, expired, before, closeVars>>

FlushSenderGone(f) == fpc[f] = "offering" /\ senderDone /\ FlushReturn(f, "ErrClosed")

FlushReplied(f) ==
    /\ fpc[f] = "waiting" /\ reply[f] # <<>>
    /\ FlushReturn(f, Head(reply[f]))

FlushCtxDone(f) ==
    /\ fpc[f] \in {"offering", "waiting"} /\ expired[f]
    /\ FlushReturn(f, "ctx")

\* A Flush call's own context ends, or Close's budget runs out.
Expire(f) ==
    /\ ~expired[f]
    /\ \/ f = Closer /\ cpc \in {"flushing", "waiting"}
       \/ "expire" \in Faults /\ f # Closer /\ fpc[f] \in {"offering", "waiting"}
    /\ expired' = [expired EXCEPT ![f] = TRUE]
    /\ UNCHANGED <<counted, chanVars, fpc, result, before, closeVars>>

FlushStep(f) ==
    /\ FlushSenderGone(f) \/ FlushReplied(f) \/ FlushCtxDone(f)
    /\ UNCHANGED OtherThanFlush

\* close(done), then Flush under the shutdown timeout.
CloseBegin ==
    /\ cpc = "idle" /\ cpc' = "flushing"
    /\ done' = TRUE
    /\ fpc' = [fpc EXCEPT ![Closer] = "offering"]
    /\ before' = [before EXCEPT ![Closer] = Returned]
    /\ UNCHANGED <<counted, shutdown, senderDone, cancelled, expired, result, racing>>

CloseShutdown ==
    /\ cpc = "flushing" /\ fpc[Closer] = "returned"
    /\ cpc' = "waiting"
    /\ shutdown' = TRUE
    /\ UNCHANGED <<counted, done, senderDone, cancelled, flushVars, racing>>

CloseStopped ==
    /\ cpc = "waiting" /\ senderDone
    /\ cpc' = "counting"
    /\ cancelled' = TRUE
    /\ UNCHANGED <<counted, done, shutdown, senderDone, flushVars, racing>>

BudgetIgnored == TRUE
BudgetSpent == expired[Closer]

WorkLeftRunning == cancelled
WorkCancelled == TRUE

CloseTimeout ==
    /\ cpc = "waiting" /\ BudgetSpent
    /\ cpc' = "aborting"
    /\ cancelled' = WorkCancelled
    /\ UNCHANGED <<counted, done, shutdown, senderDone, flushVars, racing>>

SenderNotAwaited == TRUE
SenderGone == senderDone

CloseAborted ==
    /\ cpc = "aborting" /\ SenderGone
    /\ cpc' = "counting"
    /\ UNCHANGED <<counted, chanVars, flushVars, racing>>

\* The records that slipped into the queue behind the sender, as counted here.
LeftoverIgnored == {}
Leftover == {queue[i] : i \in DOMAIN queue}

CloseLeftover ==
    /\ cpc = "counting" /\ cpc' = "closed"
    /\ counted' = Tally(Leftover, "closed")
    /\ racing' = {r \in Records : call[r] \in {"admitted", "offering"}}
    /\ UNCHANGED <<chanVars, flushVars>>

CloseStep ==
    /\ CloseShutdown \/ CloseStopped \/ CloseTimeout \/ CloseAborted \/ CloseLeftover
    /\ UNCHANGED OtherThanFlush

Call ==
    /\ CloseBegin \/ \E f \in Callers : FlushCall(f)
    /\ UNCHANGED OtherThanFlush

\* Every call has returned: nothing is left to do.
Terminated ==
    /\ cpc = "closed"
    /\ \A r \in Records : call[r] \in {"returned", "refused", "failed"}
    /\ \A f \in Callers : fpc[f] = "returned"
    /\ UNCHANGED vars

Next ==
    \/ \E r \in Records : Enqueue(r)
    \/ Sender \/ TimerFires
    \/ \E w \in Workers : Worker(w)
    \/ \E f \in Flushes : FlushStep(f) \/ (Expire(f) /\ UNCHANGED OtherThanFlush)
    \/ Call \/ CloseStep
    \/ Terminated

Spec == Init /\ [][Next]_vars

-----------------------------------------------------------------------------
(* Fairness. Runnable goroutines run, and time passes; no record has to be *)
(* logged, no Flush or Close has to be called and no caller's context has  *)
(* to end.                                                                 *)

Running ==
    /\ WF_vars(Sender) /\ WF_vars(TimerFires)
    /\ WF_vars(CloseStep)
    /\ \A f \in Flushes : WF_vars(FlushStep(f))
    /\ \A w \in Workers :
         WF_vars((WorkerReceive(w) \/ WorkerExit(w) \/ UploadComplete(w))
                   /\ UNCHANGED <<callVars, chanVars, senderVars, flushVars, closeVars>>)

\* The server may stall for good: an upload is sure to end only once the
\* worker context is cancelled, and Close's own deadline is sure to pass.
StalledFairness ==
    /\ Running
    /\ WF_vars(Expire(Closer) /\ UNCHANGED OtherThanFlush)
    /\ \A w \in Workers : WF_vars(cancelled /\ Upload(w))

\* Every request ends, with an answer or its timeout, and retries are bounded.
ServedFairness ==
    /\ Running
    /\ \A w \in Workers : WF_vars(Upload(w))

-----------------------------------------------------------------------------
(* Type correctness                                                        *)

CallType ==
    /\ call \in [Records -> CallStates]
    /\ enqueued \subseteq Records
    /\ counted \in [Records -> Seq(Buckets)]
    /\ queue \in Seq(Records) /\ Len(queue) <= QueueSize

ChanType ==
    /\ done \in BOOLEAN /\ shutdown \in BOOLEAN
    /\ senderDone \in BOOLEAN /\ cancelled \in BOOLEAN

SenderType ==
    /\ spc \in SenderStates /\ sctx \in Contexts
    /\ resume \in {"select", "drain", "await", "stop"}
    /\ spc \in {"dispatch", "handOff", "record"} \/ resume = "select"
    /\ spc = "await" \/ resume = "await" => sctx \in Flushes
    /\ buf \subseteq Records
    /\ todo \subseteq Batches
    /\ hand \subseteq Records /\ (spc = "handOff" => hand # {})
    /\ armed \in BOOLEAN /\ timer \in {"off", "running", "fired"}

WorkerType ==
    /\ jobs \in Seq(Batches) /\ Len(jobs) <= Cardinality(Workers)
    /\ jobsClosed \in BOOLEAN
    /\ wpc \in [Workers -> {"idle", "upload", "exited"}]
    /\ work \in [Workers -> SUBSET Batches]
    /\ werr \in [Workers -> BOOLEAN]

PoolType ==
    /\ dispatched \in Nat /\ completed \in Nat
    /\ poolClosed \in BOOLEAN /\ perr \in BOOLEAN /\ failures \in Nat
    /\ waiters \subseteq [flush : Flushes, target : Nat]
    /\ reply \in [Flushes -> Seq({"nil", "err"})]

FlushType ==
    /\ fpc \in [Flushes -> {"idle", "offering", "waiting", "returned"}]
    /\ expired \in [Flushes -> BOOLEAN]
    /\ result \in [Flushes -> {"none", "nil", "err", "ctx", "ErrClosed"}]
    /\ before \in [Flushes -> SUBSET Records]
    /\ cpc \in CloseStates
    /\ racing \subseteq Records

\* Every variable stays in its domain: the queue and the job channel within
\* their capacity, every piece in flight a non-empty set of records, a flush
\* answered under the context of a Flush call (sender.go, flush, split, handOff).
TypeOK == CallType /\ ChanType /\ SenderType /\ WorkerType /\ PoolType /\ FlushType

-----------------------------------------------------------------------------
(* Safety                                                                  *)

\* Where a record can be: with its caller, who may keep it, in the queue, in the
\* batch being built, in a piece to dispatch, at the hand-off, in the job
\* channel, or with a worker.
InCalls == {r \in Records : call[r] \in {"idle", "admitted", "offering", "failed"}}
InQueue == {queue[i] : i \in DOMAIN queue}
InTodo  == {r \in Records : \E b \in todo : r \in b}
InJobs  == {r \in Records : \E i \in DOMAIN jobs : r \in jobs[i]}
InWork  == {r \in Records : \E w \in Workers : \E b \in work[w] : r \in b}
InSender == buf \cup InTodo \cup hand

\* A record is added to at most one terminal counter of Stats, whatever splits,
\* retries, expired contexts and shutdowns it goes through (client.go, Stats).
CountedOnce == \A r \in Records : Len(counted[r]) <= 1

\* A record offered and not yet counted is still somewhere in the pipeline: no
\* path of Enqueue, sender or pool drops one silently (client.go, Stats).
NothingLost ==
    \A r \in enqueued :
        \/ counted[r] # <<>>
        \/ call[r] = "offering"
        \/ r \in InQueue \cup InSender \cup InJobs \cup InWork

\* The identity documented on Stats: once Close has returned, Enqueued is the
\* sum of the terminal counters, but for the records of Enqueue calls that were
\* running when Close was called and still are when it counts the queue.
StatsBalance ==
    cpc = "closed" => \A r \in enqueued \ racing : Len(counted[r]) = 1

\* When Close returns, no goroutine of the client is left and nothing is held
\* anywhere but in the queue (client.go, Close; DESIGN's goleak-clean shutdown).
CloseLeavesNothingRunning ==
    cpc = "closed" =>
        /\ senderDone /\ spc = "exited" /\ \A w \in Workers : wpc[w] = "exited"
        /\ InSender \cup InJobs \cup InWork = {} /\ waiters = {}

\* A Close whose budget is not exceeded delivers: with no context expired, no
\* record whose Enqueue had returned is filed as lost to shutdown.
CleanCloseLosesNothing ==
    cpc = "closed" /\ (\A f \in Flushes : ~expired[f]) =>
        \A r \in before[Closer] : counted[r] # <<"closed">>

\* Flush delivers everything enqueued before the call and waits for it to be
\* acknowledged: every such record has its terminal count when Flush returns
\* a delivery verdict (client.go, Flush).
FlushSettles ==
    \A f \in Flushes :
        result[f] \in {"nil", "err"} => \A r \in before[f] : counted[r] # <<>>

\* What a Flush answered by the pool can leave behind although its records were
\* all handed to the workers: fewer uploads than there are slots. With one slot
\* nothing is left (sender.go, await and signalLocked, which count completions
\* and not which batches they were).
FlushLag ==
    \A f \in Flushes :
        result[f] \in {"nil", "err"} =>
            /\ before[f] \cap (InQueue \cup InSender \cup InJobs) = {}
            /\ Cardinality({w \in Workers : \E b \in work[w] : b \cap before[f] # {}})
                 < Cardinality(Workers)

\* The pool's two counts agree with where the batches are: a waiter that waits
\* for completed to reach its target waits for batches that exist.
PoolCounts ==
    dispatched + (IF spc = "record" THEN 1 ELSE 0)
      = completed + Len(jobs) + Cardinality({w \in Workers : wpc[w] = "upload"})

\* One answer per Flush: the send into its channel of capacity 1 cannot block, nor
\* with it the lock, every worker and the sender (sender.go, await and signalLocked).
RepliedOnce == \A f \in Flushes : Len(reply[f]) <= 1

\* Every error the pool takes on reaches one Flush and no other: the errors taken on
\* are the one held, if any, and those that are the answer of a Flush, which has
\* returned it or is about to, unless its own context has ended. An error that
\* finds one held is not taken on (sender.go, complete and takeErrLocked).
FailureSurfaces ==
    LET answered == {f \in Flushes : reply[f] = <<"err">>} IN
    /\ failures = Cardinality(answered) + (IF perr THEN 1 ELSE 0)
    /\ \A f \in answered : result[f] = "err" \/ fpc[f] = "waiting" \/ expired[f]

\* Records waiting in an idle sender are waiting for a timer that is set: a
\* batch that no threshold completes is flushed by the batch interval.
TimedBatch ==
    /\ armed => timer # "off"
    /\ spc = "select" /\ buf # {} => armed

-----------------------------------------------------------------------------
(* The inductive invariant behind CountedOnce and NothingLost.             *)

\* No two parts of the pipeline hold the same record.
Apart ==
    /\ InCalls \cap (InQueue \cup InSender \cup InJobs \cup InWork) = {}
    /\ InQueue \cap (InSender \cup InJobs \cup InWork) = {}
    /\ buf \cap (InTodo \cup hand \cup InJobs \cup InWork) = {}
    /\ InTodo \cap (hand \cup InJobs \cup InWork) = {}
    /\ hand \cap (InJobs \cup InWork) = {}
    /\ InJobs \cap InWork = {}

\* Nor does one part hold a record twice.
Distinct ==
    /\ \A i, j \in DOMAIN queue : queue[i] = queue[j] => i = j
    /\ \A a, b \in todo : a = b \/ a \cap b = {}
    /\ \A i, j \in DOMAIN jobs : i = j \/ jobs[i] \cap jobs[j] = {}
    /\ \A v, w \in Workers : \A a \in work[v], b \in work[w] :
         (v = w /\ a = b) \/ a \cap b = {}

\* What is held is not counted; the queue is, once Close has counted it.
Uncounted ==
    /\ \A r \in InCalls \cup InSender \cup InJobs \cup InWork : counted[r] = <<>>
    /\ cpc # "closed" => \A r \in InQueue : counted[r] = <<>>

\* The hand-off and the workers hold nothing outside their own steps, and Close
\* counts the queue only behind a sender that has exited.
Phases ==
    /\ spc \in {"dispatch", "handOff", "record"} \/ todo = {}
    /\ spc = "handOff" \/ hand = {}
    /\ senderDone => spc = "exited"
    /\ cpc \in {"counting", "closed"} => senderDone
    /\ \A w \in Workers : wpc[w] = "upload" \/ work[w] = {}

\* One owner for every record, and one terminal counter: the conservation law
\* of the pipeline, strong enough to be preserved by every step.
Ownership == Apart /\ Distinct /\ Uncounted /\ Phases /\ CountedOnce /\ NothingLost

-----------------------------------------------------------------------------
(* Liveness                                                                *)

\* Close returns even if the server never answers and no Flush context of a
\* caller ever ends (client.go, Close: abort rather than outlive the timeout).
CloseReturns == StalledFairness => (done ~> cpc = "closed")

\* Flush does not hang, a closed client and a concurrent Close included.
FlushReturns ==
    ServedFairness =>
        \A f \in Callers : fpc[f] = "offering" ~> fpc[f] = "returned"

\* A queued record is delivered or counted without any Flush or Close: the
\* sender never sits on a batch (but see Close on racing Enqueue calls).
EveryRecordSettles ==
    ServedFairness =>
        \A r \in Records : r \in InQueue ~> (counted[r] # <<>> \/ r \in racing)

-----------------------------------------------------------------------------
(* Refinement: the pipeline keeps the ledger's promise.                    *)

Promise == INSTANCE Ledger WITH closed <- (cpc = "closed")
LedgerSpec == Promise!Spec
=============================================================================
