-------------------------- MODULE ClientGuarantees --------------------------
(***************************************************************************)
(* What the pool, the batch timer, Flush and Close promise, for every      *)
(* value of the constants: the two counts of the pool agree with the       *)
(* batches it holds, an upload error surfaces, a waiting batch has its     *)
(* timer set, a Flush answers behind its records but for fewer uploads     *)
(* than there are workers, and Close returns with every goroutine gone and *)
(* every record accounted for, delivered if its budget lasts.              *)
(***************************************************************************)
EXTENDS ClientProofs

\* The workers that are busy with a batch.
Uploading == {w \in Workers : wpc[w] = "upload"}

-----------------------------------------------------------------------------
(* The pool's two counts.                                                  *)

\* Outside the hand-off and the workers' receive and complete, nothing the
\* counts depend on moves.
LEMMA CountsStand ==
    ASSUME PoolCounts, UNCHANGED <<dispatched, completed, jobs, wpc>>,
           spc' = "record" <=> spc = "record"
    PROVE  PoolCounts'
BY DEF PoolCounts

\* The sender counts a batch at the step after it has sent it (handOff and
\* recordDispatch).
LEMMA SenderCounts ==
    ASSUME TypeOK, PoolCounts, Sender
    PROVE  PoolCounts'
<1>1. /\ dispatched \in Nat /\ completed \in Nat /\ jobs \in Seq(Batches)
      /\ Len(jobs) \in Nat /\ resume \in {"select", "drain", "await", "stop"}
  BY LenProperties DEF TypeOK, PoolType, WorkerType, SenderType
<1>2. UNCHANGED <<completed, wpc>>
  BY DEF Sender, OtherThanSender
<1> DEFINE c == Cardinality({w \in Workers : wpc[w] = "upload"})
<1>3. c' = c
  BY <1>2
<1>4. CASE HandOffSend
  <2>1. hand \in Batches
    BY <1>4 DEF TypeOK, SenderType, HandOffSend, Batches
  <2>2. Len(jobs') = Len(jobs) + 1
    BY <1>1, <1>4, <2>1, AppendProperties DEF HandOffSend
  <2>3. spc = "handOff" /\ spc' = "record" /\ dispatched' = dispatched
    BY <1>4 DEF HandOffSend
  <2>4. dispatched = completed + Len(jobs) + c
    BY <1>1, <2>3 DEF PoolCounts
  <2>5. c \in Nat
    BY WorkersFinite, FS_Subset, FS_CardinalityType, ClientAssumption
  <2> HIDE DEF c
  <2>6. dispatched' + 1 = completed' + Len(jobs') + c'
    BY <1>1, <1>2, <1>3, <2>2, <2>3, <2>4, <2>5
  <2> QED
    BY <2>3, <2>6 DEF PoolCounts, c
<1>5. CASE RecordDispatch
  <2>1. spc = "record" /\ spc' # "record" /\ dispatched' = dispatched + 1 /\ jobs' = jobs
    BY <1>1, <1>5 DEF RecordDispatch, CountDispatch, Continue
  <2> QED
    BY <1>1, <1>2, <2>1 DEF PoolCounts
<1>6. CASE ~(HandOffSend \/ RecordDispatch)
  <2>1. /\ spc # "record" /\ spc' # "record" /\ UNCHANGED <<dispatched, jobs>>
    <3>1. CASE SelectReceive \/ SelectTimer \/ DrainReceive \/ DrainFinish
      BY <3>1 DEF SelectReceive, SelectTimer, DrainReceive, DrainFinish, Accumulate, Flush,
         OtherThanBatch
    <3>2. CASE SelectShutdown \/ (\E f \in Flushes : SelectFlush(f)) \/ Await
      BY <3>2 DEF SelectShutdown, SelectFlush, Await, OtherThanBatch
    <3>3. CASE Dispatch \/ HandOffAbandon
      BY <1>1, <3>3 DEF Dispatch, DispatchFits, DispatchSplit, DispatchOversize,
         DispatchSplitFails, HandOffAbandon, Continue, OtherThanBatch
    <3>4. CASE SenderStop \/ SenderJoined \/ SenderExit
      BY <3>4 DEF SenderStop, SenderJoined, SenderExit
    <3> QED
      BY <1>6, <3>1, <3>2, <3>3, <3>4 DEF Sender
  <2> QED
    BY <1>2, <2>1, CountsStand
<1> QED
  BY <1>4, <1>5, <1>6

\* A batch is in the job channel, then with one worker, then completed (worker
\* and complete).
LEMMA WorkerCounts ==
    ASSUME TypeOK, PoolCounts, NEW w \in Workers, Worker(w)
    PROVE  PoolCounts'
<1>1. /\ dispatched \in Nat /\ completed \in Nat /\ jobs \in Seq(Batches)
      /\ Len(jobs) \in Nat /\ wpc \in [Workers -> {"idle", "upload", "exited"}]
  BY LenProperties DEF TypeOK, PoolType, WorkerType
<1>2. IsFiniteSet(Uploading) /\ Cardinality(Uploading) \in Nat
  BY ClientAssumption, FS_Subset, FS_CardinalityType DEF Uploading
<1>3. spc' = spc
  BY DEF Worker, Upload, senderVars
<1> DEFINE held == IF spc = "record" THEN 1 ELSE 0
<1>4. held \in Nat /\ held' = held /\ dispatched + held = completed + Len(jobs) + Cardinality(Uploading)
  BY <1>3 DEF PoolCounts, Uploading
<1>5. SUFFICES dispatched' + held' = completed' + Len(jobs') + Cardinality(Uploading')
  BY DEF PoolCounts, Uploading
<1> HIDE DEF held
<1>6. CASE WorkerReceive(w)
  <2>1. /\ wpc[w] = "idle" /\ wpc' = [wpc EXCEPT ![w] = "upload"]
        /\ UNCHANGED <<dispatched, completed>>
    BY <1>6 DEF WorkerReceive, poolVars
  <2>2. Len(jobs') = Len(jobs) - 1
    BY <1>1, <1>6, HeadTailProperties DEF WorkerReceive
  <2>3. Uploading' = Uploading \cup {w} /\ w \notin Uploading
    BY <1>1, <2>1 DEF Uploading
  <2>4. Cardinality(Uploading') = Cardinality(Uploading) + 1
    BY <1>2, <2>3, FS_AddElement
  <2> QED
    BY <1>1, <1>2, <1>4, <2>1, <2>2, <2>4
<1>7. CASE UploadComplete(w)
  <2>1. /\ wpc[w] = "upload" /\ wpc' = [wpc EXCEPT ![w] = "idle"]
        /\ completed' = completed + 1 /\ UNCHANGED <<dispatched, jobs>>
    BY <1>7 DEF UploadComplete
  <2>2. Uploading' = Uploading \ {w} /\ w \in Uploading
    BY <1>1, <2>1 DEF Uploading
  <2>3. Cardinality(Uploading') = Cardinality(Uploading) - 1
    BY <1>2, <2>2, FS_RemoveElement
  <2> QED
    BY <1>1, <1>2, <1>4, <2>1, <2>3
<1>8. CASE WorkerExit(w)
  <2>1. wpc[w] = "idle" /\ wpc' = [wpc EXCEPT ![w] = "exited"]
        /\ UNCHANGED <<dispatched, completed, jobs>>
    BY <1>8 DEF WorkerExit, poolVars
  <2>2. Uploading' = Uploading
    BY <1>1, <2>1 DEF Uploading
  <2> QED
    BY <1>4, <2>1, <2>2
<1>9. CASE Upload(w)
  <2>1. UNCHANGED <<dispatched, completed, jobs, wpc>>
    BY <1>9 DEF Upload, UploadSent, UploadRejected, UploadOversize, UploadSplit,
       UploadSplitFails, UploadCancelled, Resolve, poolVars
  <2> QED
    BY <1>4, <2>1 DEF Uploading
<1> QED
  BY <1>6, <1>7, <1>8, <1>9 DEF Worker

\* The pool's counts agree with the batches it holds: a Flush that waits for
\* completed to reach its target waits for batches that exist (sender.go,
\* recordDispatch, await and complete).
THEOREM CountsAgree == Spec => []PoolCounts
<1>1. Init => PoolCounts
  <2>1. SUFFICES ASSUME Init PROVE PoolCounts
    OBVIOUS
  <2>2. /\ dispatched = 0 /\ completed = 0 /\ jobs = <<>> /\ spc = "select"
        /\ {w \in Workers : wpc[w] = "upload"} = {}
    BY <2>1 DEF Init, Fresh
  <2>3. Cardinality({w \in Workers : wpc[w] = "upload"}) = 0 /\ Len(jobs) = 0
    BY <2>2, FS_EmptySet
  <2> QED
    BY <2>2, <2>3 DEF PoolCounts
<1>2. TypeOK /\ PoolCounts /\ [Next]_vars => PoolCounts'
  <2> SUFFICES ASSUME TypeOK, PoolCounts, [Next]_vars PROVE PoolCounts'
    OBVIOUS
  <2>1. CASE \/ \E r \in Records : Enqueue(r)
             \/ TimerFires \/ CloseStep \/ Call \/ Terminated \/ UNCHANGED vars
             \/ \E f \in Flushes : FlushStep(f) \/ (Expire(f) /\ UNCHANGED OtherThanFlush)
    <3>1. UNCHANGED <<spc, dispatched, completed, jobs, wpc>>
      BY <2>1 DEF Enqueue, TimerFires, CloseStep, Call, FlushStep, OtherThanFlush, Terminated,
         vars, senderVars, workerVars, poolVars
    <3> QED
      BY <3>1, CountsStand
  <2> QED
    BY <2>1, SenderCounts, WorkerCounts DEF Next
<1> QED
  BY <1>1, <1>2, TypeCorrect, PTL DEF Spec

-----------------------------------------------------------------------------
(* The batch timer.                                                        *)

\* What makes TimedBatch inductive: only an accumulating sender has a batch, its
\* first record arms the timer, and a sender on its way out has disarmed it.
Clock ==
    /\ armed => timer # "off"
    /\ spc \in {"select", "drain"} /\ buf # {} => armed
    /\ spc \notin {"select", "drain"} => buf = {}
    /\ resume = "stop" \/ spc \in {"stop", "joining", "exiting", "exited"} => ~armed

\* Receiving a record makes the batch non-empty and has its timer set
\* (appendRecord).
LEMMA ReceiveArms ==
    ASSUME TypeOK, Clock, spc \in {"select", "drain"}, NEW b, b = buf \cup {Head(queue)}
    PROVE  ArmedBy(b) = TRUE /\ TimerBy(b) # "off"
<1>1. CASE buf = {}
  <2>1. Cardinality(b) = 1
    BY <1>1, FS_Singleton
  <2> QED
    BY <2>1 DEF Clock, ArmedBy, TimerBy, Arms, TypeOK, SenderType
<1>2. CASE buf # {}
  BY <1>2 DEF Clock, ArmedBy, TimerBy, Arms, TypeOK, SenderType
<1> QED
  BY <1>1, <1>2

\* A flush leaves no batch, and a stopping sender flushes behind a disarmed timer.
LEMMA FlushClock ==
    ASSUME TypeOK, NEW ctx, NEW b, NEW next \in {"select", "drain", "await", "stop"},
           Flush(ctx, b, next), spc \in {"select", "drain"},
           next = "stop" => ~armed', armed' => timer' # "off"
    PROVE  Clock'
<1>1. buf' = {} /\ resume = "select"
  BY DEF Flush, TypeOK, SenderType
<1>2. \/ spc' = next /\ resume' = resume
      \/ spc' = "dispatch" /\ resume' = next
  BY DEF Flush
<1> QED
  BY <1>1, <1>2 DEF Clock

\* The sender's steps keep the timer and the batch together (run, drain, flush,
\* disarm).
LEMMA SenderClock ==
    ASSUME TypeOK, Clock, Sender
    PROVE  Clock'
<1>1. /\ SenderType /\ armed \in BOOLEAN /\ resume \in {"select", "drain", "await", "stop"}
      /\ (spc \in {"dispatch", "handOff", "record"} \/ resume = "select")
  BY DEF TypeOK, SenderType
<1> DEFINE b == buf \cup {Head(queue)}
<1>2. ASSUME SelectReceive \/ DrainReceive PROVE Clock'
  <2>1. spc \in {"select", "drain"} /\ ArmedBy(b) = TRUE /\ TimerBy(b) # "off"
    BY <1>2, ReceiveArms DEF SelectReceive, DrainReceive
  <2>2. CASE Accumulate(b)
    BY <1>1, <2>1, <2>2 DEF Accumulate, Clock
  <2>3. CASE SelectReceive /\ ~Accumulate(b)
    <3>1. Disarm(ArmedBy(b), TimerBy(b)) /\ Flush(Background, b, "select")
      BY <2>3 DEF SelectReceive
    <3>2. armed' = FALSE
      BY <3>1 DEF Disarm
    <3> QED
      BY <2>1, <3>1, <3>2, FlushClock
  <2>4. CASE DrainReceive /\ ~Accumulate(b)
    <3>1. armed' = ArmedBy(b) /\ timer' = TimerBy(b) /\ Flush(sctx, b, "drain")
      BY <2>4 DEF DrainReceive
    <3> QED
      BY <2>1, <3>1, FlushClock
  <2> QED
    BY <1>2, <2>2, <2>3, <2>4
<1>3. ASSUME SelectTimer PROVE Clock'
  BY <1>3, FlushClock DEF SelectTimer
<1>4. ASSUME DrainFinish PROVE Clock'
  <2>1. /\ spc = "drain" /\ armed' = FALSE
        /\ \E next \in {"stop", "await"} : Flush(sctx, buf, next)
    BY <1>4 DEF DrainFinish, Disarm
  <2> QED
    BY <2>1, FlushClock
<1>5. ASSUME SelectShutdown \/ (\E f \in Flushes : SelectFlush(f)) \/ Await PROVE Clock'
  BY <1>1, <1>5 DEF SelectShutdown, SelectFlush, Await, timerVars, Clock
<1>6. ASSUME Dispatch \/ HandOffSend \/ RecordDispatch \/ HandOffAbandon PROVE Clock'
  BY <1>1, <1>6 DEF Dispatch, DispatchFits, DispatchSplit, DispatchOversize, DispatchSplitFails,
     HandOffSend, RecordDispatch, HandOffAbandon, Continue, timerVars, Clock
<1>7. ASSUME SenderStop \/ SenderJoined \/ SenderExit PROVE Clock'
  <2>1. /\ spc \in {"stop", "joining", "exiting"} /\ spc' \in {"joining", "exiting", "exited"}
        /\ UNCHANGED <<resume, buf, armed>>
    BY <1>7 DEF SenderStop, SenderJoined, SenderExit, batchVars, timerVars
  <2>2. armed' = FALSE /\ buf' = {}
    BY <1>1, <2>1 DEF Clock
  <2> QED
    BY <2>1, <2>2 DEF Clock
<1> QED
  BY <1>2, <1>3, <1>4, <1>5, <1>6, <1>7 DEF Sender

\* Clock holds in every reachable state.
LEMMA ClockInvariant == Spec => []Clock
<1>1. Init => Clock
  BY DEF Init, Fresh, Clock
<1>2. TypeOK /\ Clock /\ [Next]_vars => Clock'
  <2> SUFFICES ASSUME TypeOK, Clock, [Next]_vars PROVE Clock'
    OBVIOUS
  <2>1. CASE TimerFires
    BY <2>1 DEF TimerFires, batchVars, Clock
  <2>2. CASE \/ \E r \in Records : Enqueue(r)
             \/ \E w \in Workers : Worker(w)
             \/ CloseStep \/ Call \/ Terminated \/ UNCHANGED vars
             \/ \E f \in Flushes : FlushStep(f) \/ (Expire(f) /\ UNCHANGED OtherThanFlush)
    <3>1. UNCHANGED senderVars
      BY <2>2 DEF Enqueue, Worker, Upload, CloseStep, Call, FlushStep, OtherThanFlush,
         Terminated, vars
    <3> QED
      BY <3>1 DEF senderVars, batchVars, timerVars, Clock
  <2> QED
    BY <2>1, <2>2, SenderClock DEF Next
<1> QED
  BY <1>1, <1>2, TypeCorrect, PTL DEF Spec

\* Records that wait in an idle sender wait for a timer that is set, so the
\* batch interval bounds their wait, and disarm never blocks on a timer that
\* neither runs nor has fired (sender.go, run, appendRecord and disarm).
THEOREM BatchesAreTimed == Spec => []TimedBatch
<1>1. Clock => TimedBatch
  BY DEF Clock, TimedBatch
<1> QED
  BY <1>1, ClockInvariant, PTL

-----------------------------------------------------------------------------
(* Shutdown.                                                               *)

\* Behind wg.Wait nothing is left: the job channel is closed only by a sender
\* on its way out, a worker leaves it drained, and the waiters are released.
Down ==
    /\ jobsClosed => spc \in {"joining", "exiting", "exited"}
    /\ \A w \in Workers : wpc[w] = "exited" => jobsClosed /\ jobs = <<>>
    /\ spc \in {"exiting", "exited"} => waiters = {}

\* The sender closes the job channel on its way out and never comes back
\* (run's deferred calls, uploadPool.shutdown).
LEMMA SenderDown ==
    ASSUME TypeOK, Down, Sender
    PROVE  Down'
<1>1. wpc' = wpc /\ SenderType
  BY DEF Sender, OtherThanSender, TypeOK
<1>2. CASE SenderJoined
  <2>1. waiters' = {}
    BY <1>2 DEF SenderJoined, Signal, Kept
  <2> QED
    BY <1>1, <1>2, <2>1 DEF SenderJoined, Down
<1>3. CASE SenderExit
  BY <1>1, <1>3 DEF SenderExit, Down
<1>4. CASE SenderStop
  BY <1>1, <1>4 DEF SenderStop, Down
<1>5. CASE ~(SenderJoined \/ SenderExit \/ SenderStop)
  <2>1. /\ spc \notin {"joining", "exiting", "exited"} /\ spc' \notin {"exiting", "exited"}
        /\ jobsClosed' = jobsClosed
    <3>1. CASE SelectReceive \/ SelectTimer \/ DrainReceive \/ DrainFinish
      BY <3>1 DEF SelectReceive, SelectTimer, DrainReceive, DrainFinish, Accumulate, Flush,
         OtherThanBatch
    <3>2. CASE SelectShutdown \/ (\E f \in Flushes : SelectFlush(f)) \/ HandOffSend \/ Await
      BY <3>2 DEF SelectShutdown, SelectFlush, HandOffSend, Await, OtherThanBatch
    <3>3. CASE Dispatch \/ RecordDispatch \/ HandOffAbandon
      BY <1>1, <3>3 DEF Dispatch, DispatchFits, DispatchSplit, DispatchOversize,
         DispatchSplitFails, RecordDispatch, HandOffAbandon, Continue, SenderType, OtherThanBatch
    <3> QED
      BY <1>5, <3>1, <3>2, <3>3 DEF Sender
  <2> QED
    BY <1>1, <2>1 DEF Down
<1> QED
  BY <1>2, <1>3, <1>4, <1>5

\* A worker leaves only when the job channel is closed and drained, and nothing
\* but the sender adds a waiter (worker, complete).
LEMMA WorkerDown ==
    ASSUME TypeOK, Down, NEW w \in Workers, Worker(w)
    PROVE  Down'
<1>1. wpc \in [Workers -> {"idle", "upload", "exited"}]
  BY DEF TypeOK, WorkerType
<1>2. spc' = spc
  BY DEF Worker, Upload, senderVars
<1>3. CASE WorkerReceive(w)
  BY <1>1, <1>2, <1>3 DEF WorkerReceive, poolVars, Down
<1>4. CASE WorkerExit(w)
  BY <1>1, <1>2, <1>4 DEF WorkerExit, poolVars, Down
<1>5. CASE UploadComplete(w)
  <2>1. waiters' \subseteq waiters
    BY <1>5 DEF UploadComplete, Signal, Kept
  <2> QED
    BY <1>1, <1>2, <1>5, <2>1 DEF UploadComplete, Down
<1>6. CASE Upload(w)
  <2>1. UNCHANGED <<jobs, jobsClosed, wpc, waiters>>
    BY <1>6 DEF Upload, UploadSent, UploadRejected, UploadOversize, UploadSplit,
       UploadSplitFails, UploadCancelled, Resolve, poolVars
  <2> QED
    BY <1>2, <2>1 DEF Down
<1> QED
  BY <1>3, <1>4, <1>5, <1>6 DEF Worker

\* Down holds in every reachable state.
LEMMA DownInvariant == Spec => []Down
<1>1. Init => Down
  BY DEF Init, Fresh, Down
<1>2. TypeOK /\ Down /\ [Next]_vars => Down'
  <2> SUFFICES ASSUME TypeOK, Down, [Next]_vars PROVE Down'
    OBVIOUS
  <2>1. CASE \/ \E r \in Records : Enqueue(r)
             \/ TimerFires \/ CloseStep \/ Call \/ Terminated \/ UNCHANGED vars
             \/ \E f \in Flushes : FlushStep(f) \/ (Expire(f) /\ UNCHANGED OtherThanFlush)
    <3>1. UNCHANGED <<spc, jobs, jobsClosed, wpc, waiters>>
      BY <2>1 DEF Enqueue, TimerFires, CloseStep, Call, FlushStep, OtherThanFlush, Terminated,
         vars, senderVars, workerVars, poolVars
    <3> QED
      BY <3>1 DEF Down
  <2> QED
    BY <2>1, SenderDown, WorkerDown DEF Next
<1> QED
  BY <1>1, <1>2, TypeCorrect, PTL DEF Spec

\* Once Close is past the sender's exit, nothing runs and nothing is held but
\* what the queue holds.
LEMMA NothingRuns ==
    ASSUME Accounted, Clock, Down, cpc \in {"counting", "closed"}
    PROVE  /\ senderDone /\ spc = "exited" /\ \A w \in Workers : wpc[w] = "exited"
           /\ InSender \cup InJobs \cup InWork = {} /\ waiters = {}
<1>1. senderDone /\ spc = "exited" /\ todo = {} /\ hand = {}
  BY DEF Accounted, Ownership, Phases
<1>2. \A w \in Workers : wpc[w] = "exited"
  BY <1>1 DEF Accounted, Joined
<1>3. InWork = {}
  BY <1>2 DEF Accounted, Ownership, Phases, InWork
<1>4. jobs = <<>> /\ waiters = {}
  BY <1>1, <1>2, ClientAssumption DEF Down
<1>5. InJobs = {}
  BY <1>4 DEF InJobs
<1>6. InSender = {}
  BY <1>1 DEF Clock, InSender, InTodo
<1> QED
  BY <1>1, <1>2, <1>3, <1>4, <1>5, <1>6

\* A Close that has returned has left no goroutine of the client running, no
\* waiter unanswered and no record held outside the queue it has counted
\* (client.go, Close; sender.go, run's deferred calls and uploadPool.shutdown).
THEOREM CloseIsQuiet == Spec => []CloseLeavesNothingRunning
<1>1. Accounted /\ Clock /\ Down => CloseLeavesNothingRunning
  BY NothingRuns DEF CloseLeavesNothingRunning
<1> QED
  BY <1>1, AccountedInvariant, ClockInvariant, DownInvariant, PTL

\* What Close has counted: every record offered, but for those of the calls it
\* found running, which it names in racing.
Settled ==
    /\ cpc # "idle" => done
    /\ cpc = "closed" =>
         \A r \in Records : /\ call[r] \in {"admitted", "offering"} => r \in racing
                            /\ r \in enqueued \ racing => counted[r] # <<>>

\* Close has returned: what is still running is Enqueue calls it found admitted,
\* and whoever comes now is refused.
LEMMA EnqueueSettles ==
    ASSUME Accounted, Settled, NEW r \in Records, Enqueue(r)
    PROVE  Settled'
<1>1. /\ UNCHANGED <<done, cpc, racing>>
      /\ call \in [Records -> CallStates] /\ CallType
  BY DEF Enqueue, chanVars, closeVars, Accounted, TypeOK, CallType
<1>2. SUFFICES ASSUME cpc = "closed", NEW q \in Records
               PROVE  /\ call'[q] \in {"admitted", "offering"} => q \in racing
                      /\ q \in enqueued' \ racing => counted'[q] # <<>>
  BY <1>1 DEF Settled
<1>0. done
  BY <1>2 DEF Settled
<1>3. /\ call[q] \in {"admitted", "offering"} => q \in racing
      /\ q \in enqueued \ racing => counted[q] # <<>>
  BY <1>2 DEF Settled
<1>4. CASE r # q
  <2>1. /\ counted' = counted \/ \E b \in Buckets : counted' = Tally({r}, b)
        /\ \E c \in CallStates : call' = [call EXCEPT ![r] = c]
        /\ enqueued' \subseteq enqueued \cup {r}
    BY DEF Enqueue, EnqueueEntry, EnqueueClosed, EnqueueBurst, EnqueuePrecheck,
       EnqueueEncodeFails, EnqueueOversize, EnqueueEncode, EnqueueSend, EnqueueShed, Buckets,
       CallStates
  <2>2. counted'[q] = counted[q]
    BY <1>1, <1>4, <2>1, TallyType DEF CallType
  <2>3. call'[q] = call[q] /\ (q \in enqueued' => q \in enqueued)
    BY <1>1, <1>4, <2>1
  <2> QED
    BY <1>3, <2>2, <2>3
<1>5. CASE r = q /\ r \in racing
  BY <1>5
<1>6. CASE r = q /\ r \notin racing
  <2>1. EnqueueClosed(q)
    BY <1>0, <1>3, <1>6 DEF Enqueue, EnqueueEntry, EnqueueBurst, EnqueuePrecheck,
       EnqueueEncodeFails, EnqueueOversize, EnqueueEncode, EnqueueSend
  <2>2. counted'[q] = Append(counted[q], "closed") /\ counted[q] \in Seq(Buckets)
    BY <1>1, <2>1, TallyType DEF EnqueueClosed, CallType, Buckets
  <2>3. counted'[q] # <<>>
    BY <2>2
  <2>4. call'[q] = "refused"
    BY <1>1, <2>1 DEF EnqueueClosed
  <2> QED
    BY <2>3, <2>4
<1> QED
  BY <1>4, <1>5, <1>6

\* Close counts what the queue still holds, and there is nothing else to count.
LEMMA LeftoverSettles ==
    ASSUME Accounted, Clock, Down, Settled, CloseLeftover, UNCHANGED OtherThanFlush
    PROVE  Settled'
<1>1. /\ cpc = "counting" /\ done' = done /\ call' = call /\ enqueued' = enqueued
      /\ counted' = Tally(Leftover, "closed")
      /\ racing' = {r \in Records : call[r] \in {"admitted", "offering"}}
  BY DEF CloseLeftover, chanVars, OtherThanFlush, callVars
<1>2. InSender \cup InJobs \cup InWork = {}
  BY <1>1, NothingRuns
<1>3. ASSUME NEW r \in Records, r \in enqueued \ racing' PROVE counted'[r] # <<>>
  <2>1. r \in enqueued /\ call[r] # "offering" /\ InQueue = Leftover
    BY <1>1, <1>3 DEF InQueue, Leftover
  <2>2. counted[r] # <<>> \/ r \in Leftover
    BY <1>2, <2>1 DEF Accounted, Ownership, NothingLost
  <2>3. counted[r] \in Seq(Buckets)
    BY DEF Accounted, TypeOK, CallType
  <2>4. /\ r \notin Leftover => counted'[r] = counted[r]
        /\ r \in Leftover => counted'[r] = Append(counted[r], "closed")
    BY <1>1, TallyType DEF Buckets, Accounted, TypeOK, CallType
  <2>5. Append(counted[r], "closed") # <<>>
    BY <2>3
  <2> QED
    BY <2>2, <2>4, <2>5
<1> QED
  BY <1>1, <1>3 DEF Settled

\* Settled holds in every reachable state.
LEMMA SettledInvariant == Spec => []Settled
<1>1. Init => Settled
  BY DEF Init, Fresh, Settled
<1>2. Accounted /\ Clock /\ Down /\ Settled /\ [Next]_vars => Settled'
  <2> SUFFICES ASSUME Accounted, Clock, Down, Settled, [Next]_vars PROVE Settled'
    OBVIOUS
  <2>1. CASE UNCHANGED <<done, cpc, racing, call, enqueued, counted>>
    BY <2>1 DEF Settled
  <2>2. CASE Sender \/ \E w \in Workers : Worker(w)
    <3>1. UNCHANGED <<done, cpc, racing, call, enqueued>>
      BY <2>2 DEF Sender, OtherThanSender, Worker, Upload, callVars, chanVars, closeVars
    <3>2. CASE cpc = "closed"
      <4>1. /\ spc = "exited" /\ \A w \in Workers : wpc[w] = "exited" /\ work[w] = {}
        BY <3>2, NothingRuns, ClosedIsStill DEF InWork, Accounted, Ownership, Phases
      <4>2. ~Sender
        BY <4>1 DEF Sender, SelectReceive, SelectTimer, SelectShutdown, SelectFlush,
           DrainReceive, DrainFinish, Dispatch, HandOffSend, RecordDispatch, HandOffAbandon,
           Await, SenderStop, SenderJoined, SenderExit
      <4>3. \A w \in Workers : ~Worker(w)
        BY <4>1 DEF Worker, Upload, WorkerReceive, WorkerExit, UploadComplete, UploadSent,
           UploadRejected, UploadOversize, UploadSplit, UploadSplitFails, UploadCancelled
      <4> QED
        BY <2>2, <4>2, <4>3
    <3> QED
      BY <3>1, <3>2 DEF Settled
  <2>3. CASE TimerFires \/ Terminated \/ UNCHANGED vars
    BY <2>1, <2>3 DEF TimerFires, Terminated, vars, callVars, chanVars, closeVars
  <2>4. CASE Call \/ \E f \in Flushes : FlushStep(f) \/ (Expire(f) /\ UNCHANGED OtherThanFlush)
    <3>1. UNCHANGED <<call, enqueued, counted, racing>>
      BY <2>4 DEF Call, CloseBegin, FlushCall, FlushStep, FlushSenderGone, FlushReplied,
         FlushCtxDone, FlushReturn, Expire, OtherThanFlush, callVars, closeVars
    <3>2. (UNCHANGED <<done, cpc>>) \/ (done' = TRUE /\ cpc' = "flushing")
      BY <2>4 DEF Call, CloseBegin, FlushCall, FlushStep, FlushSenderGone, FlushReplied,
         FlushCtxDone, FlushReturn, Expire, chanVars, closeVars
    <3> QED
      BY <3>1, <3>2 DEF Settled
  <2>5. CASE CloseStep
    <3>1. CASE CloseShutdown \/ CloseStopped \/ CloseTimeout \/ CloseAborted
      <4>1. /\ UNCHANGED <<done>> /\ cpc # "idle"
            /\ cpc' # "closed"
        BY <3>1 DEF CloseShutdown, CloseStopped, CloseTimeout, CloseAborted, chanVars
      <4> QED
        BY <4>1 DEF Settled
    <3> QED
      BY <2>5, <3>1, LeftoverSettles DEF CloseStep
  <2> QED
    BY <2>2, <2>3, <2>4, <2>5, EnqueueSettles DEF Next
<1> QED
  BY <1>1, <1>2, AccountedInvariant, ClockInvariant, DownInvariant, PTL DEF Spec

\* The identity documented on Stats: once Close has returned, every record it
\* was offered is in exactly one terminal counter, but for the records of the
\* Enqueue calls that it found running (client.go, Stats and Close).
THEOREM StatsAddUp == Spec => []StatsBalance
<1>1. Accounted /\ Settled => StatsBalance
  <2> SUFFICES ASSUME Accounted, Settled, cpc = "closed", NEW r \in enqueued \ racing
               PROVE  Len(counted[r]) = 1
    BY DEF StatsBalance
  <2>1. r \in Records /\ counted[r] \in Seq(Buckets)
    BY DEF Accounted, TypeOK, CallType
  <2>2. Len(counted[r]) <= 1
    BY <2>1 DEF Accounted, Ownership, CountedOnce
  <2>3. counted[r] # <<>>
    BY <2>1 DEF Settled
  <2>4. Len(counted[r]) \in Nat \ {0}
    BY <2>1, <2>3, EmptySeq
  <2>5. \A n \in Nat \ {0} : n <= 1 => n = 1
    OBVIOUS
  <2> QED
    BY <2>2, <2>4, <2>5
<1> QED
  BY <1>1, AccountedInvariant, SettledInvariant, PTL

-----------------------------------------------------------------------------
(* A Close within its budget delivers.                                     *)

\* The sender is on its way out, behind its last drain.
Ending == resume = "stop" \/ spc \in {"stop", "joining", "exiting", "exited"}

\* How shutdown proceeds: the sender stops only when told to, it is told to after
\* Close's flush, and the worker context ends behind the sender or with the budget.
Stopping ==
    /\ Ending => shutdown
    /\ spc = "drain" \/ resume = "drain" => sctx # Background \/ shutdown
    /\ shutdown => cpc \notin {"idle", "flushing"}
    /\ done <=> cpc # "idle"
    /\ cancelled => done /\ (senderDone \/ expired[Closer])

\* The sender's steps under Stopping (run, drain, dispatch).
LEMMA SenderStopping ==
    ASSUME TypeOK, Stopping, Sender
    PROVE  Stopping'
<1>1. /\ resume \in {"select", "drain", "await", "stop"} /\ sctx \in Contexts
      /\ (spc \in {"dispatch", "handOff", "record"} \/ resume = "select")
      /\ Background \notin Flushes
  BY ClientAssumption DEF TypeOK, SenderType, Flushes
<1>2. UNCHANGED <<shutdown, done, cancelled, expired, cpc>>
  BY DEF Sender, OtherThanSender, closeVars
<1>3. senderDone => senderDone'
  BY DEF Sender, SelectReceive, SelectTimer, SelectShutdown,
     SelectFlush, DrainReceive, DrainFinish, Dispatch, HandOffSend, RecordDispatch,
     HandOffAbandon, Await, SenderStop, SenderJoined, SenderExit, OtherThanBatch
<1> SUFFICES /\ Ending' => shutdown
             /\ spc' = "drain" \/ resume' = "drain" => sctx' # Background \/ shutdown
  BY <1>2, <1>3 DEF Stopping
<1>4. CASE SelectReceive \/ SelectTimer \/ DrainReceive
  <2>1. spc \in {"select", "drain"} /\ resume = "select"
    BY <1>1, <1>4 DEF SelectReceive, SelectTimer, DrainReceive
  <2>2. CASE SelectReceive \/ SelectTimer
    BY <2>1, <2>2 DEF SelectReceive, SelectTimer, Accumulate, Flush, Ending
  <2>3. CASE DrainReceive
    <3>1. /\ spc = "drain" /\ sctx' = sctx /\ spc' \in {"drain", "dispatch"}
          /\ resume' \in {"select", "drain"}
      BY <2>1, <2>3 DEF DrainReceive, Accumulate, Flush
    <3> QED
      BY <3>1 DEF Stopping, Ending
  <2> QED
    BY <1>4, <2>2, <2>3
<1>5. CASE DrainFinish
  <2>1. /\ spc = "drain" /\ resume = "select" /\ sctx' = sctx
        /\ Flush(sctx, buf, IF sctx = Background THEN "stop" ELSE "await")
    BY <1>1, <1>5 DEF DrainFinish, Flush
  <2>2. CASE sctx = Background
    BY <2>1, <2>2 DEF Stopping, Flush, Ending
  <2>3. CASE sctx # Background
    BY <2>1, <2>3 DEF Flush, Ending
  <2> QED
    BY <2>2, <2>3
<1>6. CASE SelectShutdown \/ (\E f \in Flushes : SelectFlush(f)) \/ Await
  BY <1>1, <1>6 DEF SelectShutdown, SelectFlush, Await, Ending
<1>7. CASE Dispatch \/ HandOffSend \/ RecordDispatch \/ HandOffAbandon
  BY <1>1, <1>7 DEF Dispatch, DispatchFits, DispatchSplit, DispatchOversize,
     DispatchSplitFails, HandOffSend, RecordDispatch, HandOffAbandon, Continue, Stopping, Ending
<1>8. CASE SenderStop \/ SenderJoined \/ SenderExit
  BY <1>1, <1>8 DEF SenderStop, SenderJoined, SenderExit, batchVars, Stopping, Ending
<1> QED
  BY <1>4, <1>5, <1>6, <1>7, <1>8 DEF Sender

\* Stopping holds in every reachable state.
LEMMA StoppingInvariant == Spec => []Stopping
<1>1. Init => Stopping
  BY DEF Init, Fresh, Stopping, Ending
<1>2. TypeOK /\ Stopping /\ [Next]_vars => Stopping'
  <2> SUFFICES ASSUME TypeOK, Stopping, [Next]_vars PROVE Stopping'
    OBVIOUS
  <2>0. /\ expired \in [Flushes -> BOOLEAN] /\ Closer \in Flushes
        /\ ((spc \in {"dispatch", "handOff", "record"}) \/ resume = "select")
    BY DEF TypeOK, FlushType, SenderType, Flushes
  <2>1. CASE \/ \E r \in Records : Enqueue(r)
             \/ TimerFires \/ Terminated \/ UNCHANGED vars
             \/ \E w \in Workers : Worker(w)
    <3>1. UNCHANGED <<spc, resume, sctx, shutdown, done, cancelled, senderDone, expired, cpc>>
      BY <2>1 DEF Enqueue, TimerFires, Terminated, Worker, Upload, vars, chanVars, senderVars,
         batchVars, flushVars, closeVars
    <3> QED
      BY <3>1 DEF Stopping, Ending
  <2>2. ASSUME NEW f \in Flushes, FlushStep(f) \/ (Expire(f) /\ UNCHANGED OtherThanFlush)
        PROVE  Stopping'
    <3>1. /\ UNCHANGED <<spc, resume, sctx, shutdown, done, cancelled, senderDone, cpc>>
          /\ (expired[Closer] => expired'[Closer])
      BY <2>0, <2>2 DEF FlushStep, FlushSenderGone, FlushReplied, FlushCtxDone, FlushReturn,
         Expire, OtherThanFlush, chanVars, senderVars, batchVars, closeVars
    <3> QED
      BY <3>1 DEF Stopping, Ending
  <2>3. CASE Call
    <3>1. UNCHANGED <<spc, resume, sctx, shutdown, cancelled, senderDone, expired>>
      BY <2>3 DEF Call, CloseBegin, FlushCall, OtherThanFlush, chanVars, senderVars, batchVars
    <3>2. (UNCHANGED <<done, cpc>>) \/ (cpc = "idle" /\ cpc' = "flushing" /\ done')
      BY <2>3 DEF Call, CloseBegin, FlushCall, chanVars, closeVars
    <3> QED
      BY <3>1, <3>2 DEF Stopping, Ending
  <2>4. CASE CloseStep
    <3>1. UNCHANGED <<spc, resume, sctx, senderDone, expired, done>>
      BY <2>4 DEF CloseStep, CloseShutdown, CloseStopped, CloseTimeout, CloseAborted,
         CloseLeftover, OtherThanFlush, chanVars, senderVars, batchVars, flushVars
    <3>2. CASE CloseShutdown
      BY <3>1, <3>2 DEF CloseShutdown, Stopping, Ending
    <3>3. CASE CloseStopped \/ CloseTimeout
      <4>1. /\ cpc = "waiting" /\ cpc' \in {"counting", "aborting"} /\ shutdown' = shutdown
            /\ (senderDone \/ expired[Closer])
        BY <3>3 DEF CloseStopped, CloseTimeout, BudgetSpent
      <4>2. done
        BY <4>1 DEF Stopping
      <4> QED
        BY <3>1, <4>1, <4>2 DEF Stopping, Ending
    <3>4. CASE CloseAborted \/ CloseLeftover
      BY <3>1, <3>4 DEF CloseAborted, CloseLeftover, chanVars, Stopping, Ending
    <3> QED
      BY <2>4, <3>2, <3>3, <3>4 DEF CloseStep
  <2> QED
    BY <2>1, <2>2, <2>3, <2>4, SenderStopping DEF Next
<1> QED
  BY <1>1, <1>2, TypeCorrect, PTL DEF Spec

\* Nothing but a cut-off, an abandoned hand-off behind one and the count of the
\* queue files a record as lost to shutdown, and none of these meets a record that
\* Close's flush was for.
Delivered ==
    /\ \A r \in before[Closer] : call[r] = "returned"
    /\ Ending => before[Closer] \cap InQueue = {}
    /\ ~done => \A r \in Records : counted[r] # <<"closed">>
    /\ (\A f \in Flushes : ~expired[f]) => \A r \in before[Closer] : counted[r] # <<"closed">>

\* What Delivered rests on.
Orderly == Accounted /\ Stopping /\ Settled

\* Filing records under another reason.
LEMMA OtherReason ==
    ASSUME CallType, NEW S, NEW b \in Buckets \ {"closed"}, counted' = Tally(S, b)
    PROVE  \A r \in Records : counted[r] # <<"closed">> => counted'[r] # <<"closed">>
<1>1. ASSUME NEW s \in Seq(Buckets) PROVE Append(s, b) # <<"closed">>
  <2>1. /\ Len(s) \in Nat /\ Len(Append(s, b)) = Len(s) + 1 /\ Append(s, b)[Len(s) + 1] = b
    BY LenProperties, AppendProperties
  <2>2. Len(<<"closed">>) = 1 /\ <<"closed">>[1] = "closed"
    OBVIOUS
  <2> QED
    BY <2>1, <2>2
<1>2. \A r \in Records : counted[r] \in Seq(Buckets)
        /\ (counted'[r] = counted[r] \/ counted'[r] = Append(counted[r], b))
  BY TallyType DEF CallType
<1> QED
  BY <1>1, <1>2

\* While no context has ended, the worker context is cancelled only behind a
\* sender that has exited.
LEMMA CancelledLate ==
    ASSUME Orderly, \A f \in Flushes : ~expired[f], cancelled
    PROVE  spc = "exited" /\ \A w \in Workers : work[w] = {}
<1>1. senderDone
  BY DEF Orderly, Stopping, Flushes
<1>2. spc = "exited"
  BY <1>1 DEF Orderly, Accounted, Ownership, Phases
<1>3. \A w \in Workers : wpc[w] = "exited"
  BY <1>2 DEF Orderly, Accounted, Joined
<1> QED
  BY <1>2, <1>3 DEF Orderly, Accounted, Ownership, Phases

\* Enqueue adds its own record to the queue and no other.
LEMMA QueueGrows ==
    ASSUME CallType, NEW r \in Records, Enqueue(r)
    PROVE  InQueue' \subseteq InQueue \cup {r}
<1>1. queue' = queue \/ queue' = Append(queue, r)
  BY DEF Enqueue, EnqueueEntry, EnqueueClosed, EnqueueBurst, EnqueuePrecheck,
     EnqueueEncodeFails, EnqueueOversize, EnqueueEncode, EnqueueSend, EnqueueShed
<1>2. CASE queue' = Append(queue, r)
  <2>1. /\ queue \in Seq(Records) /\ Len(queue) \in Nat /\ DOMAIN queue = 1 .. Len(queue)
        /\ DOMAIN queue' = 1 .. Len(queue) + 1 /\ queue'[Len(queue) + 1] = r
        /\ \A i \in 1 .. Len(queue) : queue'[i] = queue[i]
    BY <1>2, LenProperties, AppendProperties DEF CallType
  <2>2. \A i \in DOMAIN queue' : i = Len(queue) + 1 \/ i \in 1 .. Len(queue)
    BY <2>1
  <2> QED
    BY <2>1, <2>2 DEF InQueue
<1> QED
  BY <1>1, <1>2 DEF InQueue

\* An Enqueue that is still running is of a record that came too late for Close.
LEMMA EnqueueDelivers ==
    ASSUME Orderly, Delivered, NEW r \in Records, Enqueue(r)
    PROVE  Delivered'
<1>1. /\ UNCHANGED <<done, before, expired, spc, resume>>
      /\ call \in [Records -> CallStates] /\ CallType
      /\ before[Closer] \subseteq Records
  BY DEF Enqueue, chanVars, senderVars, batchVars, flushVars, Orderly, Accounted, TypeOK,
     CallType, FlushType, Flushes
<1>2. call[r] \in {"idle", "admitted", "offering"} /\ r \notin before[Closer]
  BY DEF Enqueue, EnqueueEntry, EnqueueClosed, EnqueueBurst, EnqueuePrecheck,
     EnqueueEncodeFails, EnqueueOversize, EnqueueEncode, EnqueueSend, Delivered
<1>3. /\ \E c \in CallStates : call' = [call EXCEPT ![r] = c]
      /\ \/ counted' = counted
         \/ \E b \in Buckets : counted' = Tally({r}, b) /\ (~done => b # "closed")
  BY DEF Enqueue, EnqueueEntry, EnqueueClosed, EnqueueBurst, EnqueuePrecheck,
     EnqueueEncodeFails, EnqueueOversize, EnqueueEncode, EnqueueSend, EnqueueShed, Buckets,
     CallStates
<1>4. \A q \in before[Closer] : call'[q] = call[q] /\ counted'[q] = counted[q]
  BY <1>1, <1>2, <1>3, TallyType DEF CallType
<1>5. InQueue' \subseteq InQueue \cup {r}
  BY <1>1, QueueGrows
<1>6. ~done => \A q \in Records : counted'[q] # <<"closed">>
  <2>1. ~done => counted' = counted \/ \E b \in Buckets \ {"closed"} : counted' = Tally({r}, b)
    BY <1>3
  <2> QED
    BY <1>1, <2>1, OtherReason DEF Delivered
<1>7. Ending' = Ending
  BY <1>1 DEF Ending
<1> QED
  BY <1>1, <1>2, <1>4, <1>5, <1>6, <1>7 DEF Delivered

\* The sender files records as rejected, oversize or dropped behind an outage, and
\* as lost to shutdown only when a context has ended (abandon).
LEMMA SenderDelivers ==
    ASSUME Orderly, Delivered, Sender
    PROVE  Delivered'
<1>1. /\ UNCHANGED <<call, done, before, expired, cancelled>>
      /\ CallType /\ before[Closer] \subseteq Records
      /\ expired \in [Flushes -> BOOLEAN] /\ sctx \in Contexts
      /\ resume \in {"select", "drain", "await", "stop"}
  BY DEF Sender, OtherThanSender, Orderly, Accounted, TypeOK, FlushType, SenderType, Flushes
<1>2. /\ InQueue' \subseteq InQueue
      /\ Ending' => Ending \/ InQueue' = {}
  <2>1. CASE SelectReceive \/ DrainReceive
    <3>1. queue # <<>> /\ queue' = Tail(queue)
      BY <2>1 DEF SelectReceive, DrainReceive
    <3>2. InQueue' \subseteq InQueue
      BY <3>1, QueueTail DEF Orderly, Accounted, Ownership
    <3>3. ~Ending'
      BY <2>1 DEF SelectReceive, DrainReceive, Accumulate, Flush, Ending, Orderly, Accounted,
         TypeOK, SenderType
    <3> QED
      BY <3>2, <3>3
  <2>2. CASE DrainFinish
    <3>1. queue = <<>> /\ queue' = queue
      BY <2>2 DEF DrainFinish, Drained
    <3>2. InQueue' = {} /\ InQueue = {}
      BY <3>1 DEF InQueue
    <3> QED
      BY <3>2
  <2>3. CASE ~(SelectReceive \/ DrainReceive \/ DrainFinish)
    <3>1. queue' = queue
      BY <2>3 DEF Sender, SelectTimer, SelectShutdown, SelectFlush, Dispatch, HandOffSend,
         RecordDispatch, HandOffAbandon, Await, SenderStop, SenderJoined, SenderExit
    <3>2. Ending' => Ending
      <4>1. CASE SelectTimer \/ SelectShutdown \/ (\E f \in Flushes : SelectFlush(f)) \/ Await
        BY <4>1 DEF SelectTimer, SelectShutdown, SelectFlush, Await, Flush, Ending
      <4>2. CASE Dispatch \/ HandOffSend \/ RecordDispatch \/ HandOffAbandon
        BY <1>1, <4>2 DEF Dispatch, DispatchFits, DispatchSplit, DispatchOversize,
           DispatchSplitFails, HandOffSend, RecordDispatch, HandOffAbandon, Continue, Ending
      <4>3. CASE SenderStop \/ SenderJoined \/ SenderExit
        BY <4>3 DEF SenderStop, SenderJoined, SenderExit, Ending
      <4> QED
        BY <2>3, <4>1, <4>2, <4>3 DEF Sender
    <3> QED
      BY <3>1, <3>2 DEF InQueue
  <2> QED
    BY <2>1, <2>2, <2>3
<1>3. \/ counted' = counted
      \/ \E S : \E b \in Buckets \ {"closed"} : counted' = Tally(S, b)
      \/ done /\ \E f \in Flushes : expired[f]
  <2>1. CASE HandOffAbandon
    <3>1. spc = "handOff" /\ CtxDone(sctx) /\ counted' = Abandoned(hand)
      BY <2>1 DEF HandOffAbandon
    <3>2. \E f \in Flushes : expired[f]
      <4>1. CASE sctx = Background
        <5>1. cancelled /\ spc # "exited"
          BY <3>1, <4>1 DEF CtxDone
        <5> QED
          BY <5>1, CancelledLate
      <4>2. CASE sctx # Background
        BY <1>1, <3>1, <4>2 DEF CtxDone, Contexts
      <4> QED
        BY <4>1, <4>2
    <3>3. ~done => counted' = Tally(hand, "backlog")
      BY <3>1 DEF Abandoned
    <3> QED
      BY <3>2, <3>3 DEF Buckets
  <2>2. CASE Dispatch
    BY <2>2 DEF Dispatch, DispatchFits, DispatchSplit, DispatchOversize, DispatchSplitFails,
       Buckets
  <2>3. CASE ~(HandOffAbandon \/ Dispatch)
    BY <2>3 DEF Sender, SelectReceive, SelectTimer, SelectShutdown, SelectFlush, DrainReceive,
       DrainFinish, HandOffSend, RecordDispatch, Await, SenderStop, SenderJoined, SenderExit,
       Accumulate, Flush, OtherThanBatch, Buckets
  <2> QED
    BY <2>1, <2>2, <2>3
<1>4. ~(done /\ \E f \in Flushes : expired[f]) =>
        \A r \in Records : counted[r] # <<"closed">> => counted'[r] # <<"closed">>
  BY <1>1, <1>3, OtherReason
<1> QED
  BY <1>1, <1>2, <1>4 DEF Delivered

\* A worker files records as lost to shutdown only when its context is cancelled.
LEMMA WorkerDelivers ==
    ASSUME Orderly, Delivered, NEW w \in Workers, Worker(w)
    PROVE  Delivered'
<1>1. /\ UNCHANGED <<call, done, before, expired, queue, spc, resume>>
      /\ CallType /\ before[Closer] \subseteq Records
  BY DEF Worker, Upload, callVars, chanVars, senderVars, batchVars, flushVars, Orderly,
     Accounted, TypeOK, FlushType, Flushes
<1>2. InQueue' = InQueue /\ Ending' = Ending
  BY <1>1 DEF InQueue, Ending
<1>3. \/ counted' = counted
      \/ \E b \in work[w] : \E c \in Buckets \ {"closed"} : counted' = Tally(b, c)
      \/ cancelled /\ work[w] # {}
  BY DEF Worker, WorkerReceive, WorkerExit, UploadComplete, Upload, UploadSent,
     UploadRejected, UploadOversize, UploadSplit, UploadSplitFails, UploadCancelled, Resolve,
     Buckets
<1>4. cancelled /\ work[w] # {} => done /\ \E f \in Flushes : expired[f]
  BY CancelledLate DEF Orderly, Stopping
<1>5. ~(done /\ \E f \in Flushes : expired[f]) =>
        \A r \in Records : counted[r] # <<"closed">> => counted'[r] # <<"closed">>
  BY <1>1, <1>3, <1>4, OtherReason
<1> QED
  BY <1>1, <1>2, <1>5 DEF Delivered

\* Close files what is left in the queue behind the sender, where nothing that it
\* was called for is.
LEMMA CloseDelivers ==
    ASSUME Orderly, Delivered, CloseStep
    PROVE  Delivered'
<1>1. /\ UNCHANGED <<call, queue, spc, resume, before, expired>>
      /\ done' = done /\ CallType /\ before[Closer] \subseteq Records
  BY DEF CloseStep, CloseShutdown, CloseStopped, CloseTimeout, CloseAborted, CloseLeftover,
     OtherThanFlush, callVars, chanVars, senderVars, batchVars, flushVars, Orderly, Accounted,
     TypeOK, FlushType, Flushes
<1>2. InQueue' = InQueue /\ Ending' = Ending
  BY <1>1 DEF InQueue, Ending
<1>3. CASE CloseShutdown \/ CloseStopped \/ CloseTimeout \/ CloseAborted
  <2>1. counted' = counted
    BY <1>3 DEF CloseShutdown, CloseStopped, CloseTimeout, CloseAborted
  <2> QED
    BY <1>1, <1>2, <2>1 DEF Delivered
<1>4. CASE CloseLeftover
  <2>1. cpc = "counting" /\ counted' = Tally(InQueue, "closed")
    BY <1>4 DEF CloseLeftover, Leftover, InQueue
  <2>2. done /\ spc = "exited"
    BY <2>1 DEF Orderly, Settled, Accounted, Ownership, Phases
  <2>3. before[Closer] \cap InQueue = {}
    BY <2>2 DEF Delivered, Ending
  <2>4. \A r \in before[Closer] : counted'[r] = counted[r]
    BY <1>1, <2>1, <2>3, TallyType DEF CallType, Buckets
  <2> QED
    BY <1>1, <1>2, <2>2, <2>4 DEF Delivered
<1> QED
  BY <1>3, <1>4 DEF CloseStep

\* Calling Flush or Close, waiting in it and giving up on it.
LEMMA CallDelivers ==
    ASSUME Orderly, Delivered,
           Call \/ \E f \in Flushes : FlushStep(f) \/ (Expire(f) /\ UNCHANGED OtherThanFlush)
    PROVE  Delivered'
<1>1. /\ UNCHANGED <<call, queue, spc, resume, counted>>
      /\ before \in [Flushes -> SUBSET Records] /\ expired \in [Flushes -> BOOLEAN]
      /\ Closer \in Flushes /\ Closer \notin Callers
  BY ClientAssumption DEF Call, CloseBegin, FlushCall, FlushStep, FlushSenderGone,
     FlushReplied, FlushCtxDone, FlushReturn, Expire, OtherThanFlush, callVars, senderVars,
     batchVars, Orderly, Accounted, TypeOK, FlushType, Flushes
<1>2. InQueue' = InQueue /\ Ending' = Ending
  BY <1>1 DEF InQueue, Ending
<1>3. CASE CloseBegin
  <2>1. /\ ~done /\ ~Ending /\ done' /\ before'[Closer] = Returned
    BY <1>1, <1>3 DEF CloseBegin, Orderly, Stopping
  <2>2. Returned \subseteq Records /\ \A r \in Returned : call[r] = "returned"
    BY DEF Returned, Orderly, Accounted, TypeOK, CallType
  <2> QED
    BY <1>1, <1>2, <2>1, <2>2 DEF Delivered
<1>4. CASE ~CloseBegin
  <2>1. /\ done' = done /\ before'[Closer] = before[Closer]
        /\ \A f \in Flushes : expired[f] => expired'[f]
    BY <1>1, <1>4 DEF Call, FlushCall, FlushStep, FlushSenderGone, FlushReplied, FlushCtxDone,
       FlushReturn, Expire, chanVars
  <2> QED
    BY <1>1, <1>2, <2>1 DEF Delivered
<1> QED
  BY <1>3, <1>4

\* A Close whose budget lasts delivers everything whose Enqueue had returned when
\* it was called, for any number of records, callers, workers and faults: none of
\* them is filed as lost to shutdown (client.go, Close; sender.go, drain).
THEOREM CleanCloseDelivers == Spec => []CleanCloseLosesNothing
<1>1. Init => Delivered
  <2>1. ASSUME Init PROVE Delivered
    <3>1. /\ before[Closer] = {} /\ queue = <<>> /\ \A r \in Records : counted[r] = <<>>
      BY <2>1 DEF Init, Fresh, Flushes
    <3>2. <<>> # <<"closed">>
      OBVIOUS
    <3> QED
      BY <3>1, <3>2 DEF Delivered
  <2> QED
    BY <2>1
<1>2. Accounted /\ Stopping /\ Settled /\ Delivered /\ [Next]_vars => Delivered'
  <2> SUFFICES ASSUME Accounted, Stopping, Settled, Delivered, [Next]_vars PROVE Delivered'
    OBVIOUS
  <2>0. Orderly
    BY DEF Orderly
  <2>1. CASE TimerFires \/ Terminated \/ UNCHANGED vars
    <3>1. UNCHANGED <<call, queue, spc, resume, counted, done, before, expired>>
      BY <2>1 DEF TimerFires, Terminated, vars, callVars, chanVars, senderVars, batchVars,
         flushVars
    <3>2. InQueue' = InQueue /\ Ending' = Ending
      BY <3>1 DEF InQueue, Ending
    <3> QED
      BY <3>1, <3>2 DEF Delivered
  <2> QED
    BY <2>0, <2>1, EnqueueDelivers, SenderDelivers, WorkerDelivers, CloseDelivers, CallDelivers
    DEF Next
<1>3. Delivered => CleanCloseLosesNothing
  BY DEF Delivered, CleanCloseLosesNothing
<1> QED
  BY <1>1, <1>2, <1>3, AccountedInvariant, StoppingInvariant, SettledInvariant, PTL DEF Spec

-----------------------------------------------------------------------------
(* What a Flush that was answered leaves behind.                           *)

\* The calls' side of a flush: a request in progress is of a call that has been
\* made, and a verdict comes from the reply channel.
Called ==
    /\ poolClosed => spc \in {"exiting", "exited"}
    /\ cpc = "idle" => fpc[Closer] = "idle"
    /\ \A f \in Flushes : fpc[f] = "idle" => /\ sctx # f /\ reply[f] = <<>>
                                             /\ \A x \in waiters : x.flush # f
    /\ \A f \in Flushes : /\ result[f] \in {"nil", "err"} => reply[f] # <<>>
                          /\ \A r \in before[f] : call[r] = "returned"

\* signalLocked answers waiters and takes back no answer.
LEMMA SignalAnswers ==
    ASSUME PoolType, NEW c, NEW isClosed, NEW e, Signal(c, isClosed, e)
    PROVE  /\ waiters' = {x \in waiters : ~(Satisfied(c, x.target) \/ isClosed)}
           /\ \A f \in Flushes :
                /\ reply[f] # <<>> => reply'[f] # <<>>
                /\ reply'[f] # reply[f] =>
                     \E x \in waiters : x.flush = f /\ (Satisfied(c, x.target) \/ isClosed)
<1> DEFINE ready == {x \in waiters : Satisfied(c, x.target) \/ isClosed}
<1>1. waiters' = {x \in waiters : ~(Satisfied(c, x.target) \/ isClosed)}
  BY DEF Signal, Kept
<1>2. \A f \in Flushes :
        \/ reply'[f] = reply[f]
        \/ /\ \E x \in ready : x.flush = f
           /\ \E m \in {"nil", "err"} : reply'[f] = Append(reply[f], m)
  BY DEF Signal
<1>3. \A f \in Flushes : \A m \in {"nil", "err"} : Append(reply[f], m) # <<>>
  <2>1. \A f \in Flushes : reply[f] \in Seq({"nil", "err"})
    BY DEF PoolType
  <2> QED
    BY <2>1, AppendProperties
<1> QED
  BY <1>1, <1>2, <1>3

\* The sender serves calls that have been made (run, drain and await).
LEMMA SenderCalled ==
    ASSUME TypeOK, Called, Sender
    PROVE  Called'
<1>1. /\ UNCHANGED <<cpc, result, before, call>>
      /\ fpc \in [Flushes -> {"idle", "offering", "waiting", "returned"}]
      /\ reply \in [Flushes -> Seq({"nil", "err"})] /\ PoolType
      /\ Background \notin Flushes /\ Closer \in Flushes
      /\ sctx \in Contexts
      /\ resume \in {"select", "drain", "await", "stop"}
      /\ (spc = "await" => sctx \in Flushes)
  BY ClientAssumption DEF Sender, OtherThanSender, closeVars, TypeOK, FlushType, PoolType,
     SenderType, Flushes
<1>2. poolClosed' => spc' \in {"exiting", "exited"}
  <2>1. CASE SelectReceive \/ SelectTimer \/ SelectShutdown \/ DrainReceive \/ DrainFinish
             \/ (\E f \in Flushes : SelectFlush(f))
    BY <2>1 DEF SelectReceive, SelectTimer, SelectShutdown, SelectFlush, DrainReceive,
       DrainFinish, OtherThanBatch, Called
  <2>2. CASE Dispatch \/ HandOffSend \/ RecordDispatch \/ HandOffAbandon \/ Await
    BY <2>2 DEF Dispatch, HandOffSend, RecordDispatch, HandOffAbandon, Await, OtherThanBatch,
       Called
  <2>3. CASE SenderStop \/ SenderJoined \/ SenderExit
    BY <2>3 DEF SenderStop, SenderJoined, SenderExit, Called
  <2> QED
    BY <2>1, <2>2, <2>3 DEF Sender
<1>3. ASSUME UNCHANGED fpc, \A f \in Flushes : reply[f] # <<>> => reply'[f] # <<>>,
             \A f \in Flushes : fpc[f] = "idle" =>
               sctx' # f /\ reply'[f] = <<>> /\ \A x \in waiters' : x.flush # f
      PROVE  Called'
  BY <1>1, <1>2, <1>3 DEF Called
<1>4. CASE SelectReceive \/ SelectTimer \/ SelectShutdown \/ DrainReceive \/ DrainFinish
  <2>1. UNCHANGED <<fpc, reply, waiters>> /\ sctx' \in {sctx, Background}
    BY <1>4 DEF SelectReceive, SelectTimer, SelectShutdown, DrainReceive, DrainFinish,
       Accumulate, Flush, OtherThanBatch
  <2> QED
    BY <1>1, <1>3, <2>1 DEF Called
<1>5. ASSUME NEW g \in Flushes, SelectFlush(g) PROVE Called'
  <2>1. /\ UNCHANGED <<reply, waiters>> /\ sctx' = g /\ fpc' = [fpc EXCEPT ![g] = "waiting"]
        /\ fpc[g] = "offering"
    BY <1>5 DEF SelectFlush, OtherThanBatch
  <2>2. \A f \in Flushes : fpc'[f] = "idle" => f # g /\ fpc[f] = "idle"
    BY <1>1, <2>1
  <2>3. cpc' = "idle" => fpc'[Closer] = "idle"
    BY <1>1, <2>1 DEF Called
  <2> QED
    BY <1>1, <1>2, <2>1, <2>2, <2>3 DEF Called
<1>6. CASE Dispatch \/ HandOffSend \/ RecordDispatch \/ HandOffAbandon \/ SenderStop \/ SenderExit
  <2>1. UNCHANGED <<fpc, reply, waiters, sctx>>
    BY <1>6 DEF Dispatch, DispatchFits, DispatchSplit, DispatchOversize, DispatchSplitFails,
       HandOffSend, RecordDispatch, HandOffAbandon, SenderStop, SenderExit, Continue,
       OtherThanBatch, batchVars
  <2> QED
    BY <1>1, <1>3, <2>1 DEF Called
<1>7. CASE Await
  <2>1. /\ fpc' = fpc /\ sctx' = Background /\ sctx \in Flushes /\ fpc[sctx] # "idle"
        /\ waiters' \subseteq waiters \cup {[flush |-> sctx, target |-> dispatched]}
        /\ \/ reply' = reply
           \/ \E m \in {"nil", "err"} : reply' = [reply EXCEPT ![sctx] = Append(@, m)]
    BY <1>1, <1>7 DEF Await, Reply, Called
  <2>2. \A f \in Flushes : \A m \in {"nil", "err"} : Append(reply[f], m) # <<>>
    <3>1. \A s \in Seq({"nil", "err"}) : \A m \in {"nil", "err"} : Append(s, m) # <<>>
      OBVIOUS
    <3> QED
      BY <1>1, <3>1
  <2>3. \A f \in Flushes : /\ reply[f] # <<>> => reply'[f] # <<>>
                           /\ fpc[f] = "idle" => reply'[f] = reply[f]
    <3>1. CASE reply' = reply
      BY <3>1
    <3>2. ASSUME NEW m \in {"nil", "err"}, reply' = [reply EXCEPT ![sctx] = Append(@, m)]
          PROVE  \A f \in Flushes : reply'[f] = IF f = sctx THEN Append(reply[f], m) ELSE reply[f]
      BY <1>1, <3>2
    <3> QED
      BY <2>1, <2>2, <3>1, <3>2
  <2> QED
    BY <1>1, <1>3, <2>1, <2>3 DEF Called
<1>8. CASE SenderJoined
  <2>1. UNCHANGED <<fpc, sctx>> /\ Signal(completed, TRUE, perr)
    BY <1>8 DEF SenderJoined, batchVars
  <2>2. /\ waiters' \subseteq waiters
        /\ \A f \in Flushes : /\ reply[f] # <<>> => reply'[f] # <<>>
                              /\ reply'[f] # reply[f] => \E x \in waiters : x.flush = f
    BY <1>1, <2>1, SignalAnswers
  <2> QED
    BY <1>1, <1>3, <2>1, <2>2 DEF Called
<1> QED
  BY <1>4, <1>5, <1>6, <1>7, <1>8 DEF Sender

\* Called holds in every reachable state.
LEMMA CalledInvariant == Spec => []Called
<1>1. Init => Called
  <2>1. ASSUME Init PROVE Called
    <3>1. /\ poolClosed = FALSE /\ sctx = Background /\ waiters = {}
          /\ \A f \in Flushes : /\ fpc[f] = "idle" /\ reply[f] = <<>> /\ result[f] = "none"
                                /\ before[f] = {}
      BY <2>1 DEF Init, Fresh
    <3>2. Background \notin Flushes /\ Closer \in Flushes
      BY ClientAssumption DEF Flushes
    <3> QED
      BY <3>1, <3>2 DEF Called
  <2> QED
    BY <2>1
<1>2. TypeOK /\ Called /\ [Next]_vars => Called'
  <2> SUFFICES ASSUME TypeOK, Called, [Next]_vars PROVE Called'
    OBVIOUS
  <2>0. /\ fpc \in [Flushes -> {"idle", "offering", "waiting", "returned"}]
        /\ result \in [Flushes -> {"none", "nil", "err", "ctx", "ErrClosed"}]
        /\ before \in [Flushes -> SUBSET Records] /\ call \in [Records -> CallStates]
        /\ PoolType /\ Closer \in Flushes /\ Closer \notin Callers /\ Callers \subseteq Flushes
    BY ClientAssumption DEF TypeOK, FlushType, CallType, Flushes
  <2>1. CASE TimerFires \/ Terminated \/ UNCHANGED vars
    <3>1. UNCHANGED <<poolClosed, spc, cpc, fpc, sctx, reply, waiters, result, before, call>>
      BY <2>1 DEF TimerFires, Terminated, vars, callVars, senderVars, batchVars, poolVars,
         flushVars, closeVars
    <3> QED
      BY <3>1 DEF Called
  <2>2. ASSUME NEW r \in Records, Enqueue(r) PROVE Called'
    <3>1. UNCHANGED <<poolClosed, spc, cpc, fpc, sctx, reply, waiters, result, before>>
      BY <2>2 DEF Enqueue, senderVars, batchVars, poolVars, flushVars, closeVars
    <3>2. /\ call[r] \in {"idle", "admitted", "offering"}
          /\ \E c \in CallStates : call' = [call EXCEPT ![r] = c]
      BY <2>2 DEF Enqueue, EnqueueEntry, EnqueueClosed, EnqueueBurst, EnqueuePrecheck,
         EnqueueEncodeFails, EnqueueOversize, EnqueueEncode, EnqueueSend, EnqueueShed, CallStates
    <3>3. \A q \in Records : call[q] = "returned" => call'[q] = "returned"
      BY <2>0, <3>2
    <3> QED
      BY <2>0, <3>1, <3>3 DEF Called
  <2>3. ASSUME NEW w \in Workers, Worker(w) PROVE Called'
    <3>1. UNCHANGED <<spc, cpc, fpc, sctx, result, before, call>>
      BY <2>3 DEF Worker, Upload, callVars, senderVars, batchVars, flushVars, closeVars
    <3>2. CASE UploadComplete(w)
      <4>1. poolClosed' = poolClosed
        BY <3>2 DEF UploadComplete
      <4>2. /\ waiters' \subseteq waiters
            /\ \A f \in Flushes : /\ reply[f] # <<>> => reply'[f] # <<>>
                                  /\ reply'[f] # reply[f] => \E x \in waiters : x.flush = f
        BY <2>0, <3>2, SignalAnswers DEF UploadComplete
      <4> QED
        BY <3>1, <4>1, <4>2 DEF Called
    <3>3. CASE WorkerReceive(w) \/ WorkerExit(w) \/ Upload(w)
      <4>1. UNCHANGED <<poolClosed, reply, waiters>>
        BY <3>3 DEF WorkerReceive, WorkerExit, Upload, UploadSent, UploadRejected,
           UploadOversize, UploadSplit, UploadSplitFails, UploadCancelled, Resolve, poolVars
      <4> QED
        BY <3>1, <4>1 DEF Called
    <3> QED
      BY <2>3, <3>2, <3>3 DEF Worker
  <2>4. ASSUME NEW f \in Flushes, FlushStep(f) \/ (Expire(f) /\ UNCHANGED OtherThanFlush)
        PROVE  Called'
    <3>1. UNCHANGED <<poolClosed, spc, cpc, sctx, reply, waiters, before, call>>
      BY <2>4 DEF FlushStep, FlushSenderGone, FlushReplied, FlushCtxDone, FlushReturn, Expire,
         OtherThanFlush, callVars, senderVars, batchVars, poolVars, closeVars
    <3>2. /\ fpc' = fpc \/ (fpc[f] \in {"offering", "waiting"}
                              /\ fpc' = [fpc EXCEPT ![f] = "returned"])
          /\ \/ result' = result
             \/ \E res \in {"ErrClosed", "ctx"} : result' = [result EXCEPT ![f] = res]
             \/ reply[f] # <<>> /\ result' = [result EXCEPT ![f] = Head(reply[f])]
      BY <2>4 DEF FlushStep, FlushSenderGone, FlushReplied, FlushCtxDone, FlushReturn, Expire
    <3>3. \A g \in Flushes : fpc'[g] = "idle" <=> fpc[g] = "idle"
      BY <2>0, <3>2
    <3>4. \A g \in Flushes : result'[g] \in {"nil", "err"} => reply[g] # <<>>
      BY <2>0, <3>2 DEF Called
    <3> QED
      BY <2>0, <3>1, <3>3, <3>4 DEF Called
  <2>5. CASE Call
    <3>1. UNCHANGED <<poolClosed, spc, sctx, reply, waiters, result, call>>
      BY <2>5 DEF Call, CloseBegin, FlushCall, OtherThanFlush, callVars, senderVars, batchVars,
         poolVars
    <3>2. PICK g \in Flushes :
            /\ fpc' = [fpc EXCEPT ![g] = "offering"]
            /\ before' = [before EXCEPT ![g] = Returned]
            /\ cpc' = "flushing" \/ (cpc' = cpc /\ g # Closer)
      BY <2>0, <2>5 DEF Call, CloseBegin, FlushCall, closeVars
    <3>3. \A f \in Flushes : fpc'[f] = "idle" => fpc[f] = "idle"
      BY <2>0, <3>2
    <3>4. \A f \in Flushes : \A r \in before'[f] : call[r] = "returned"
      BY <2>0, <3>2 DEF Returned, Called
    <3>5. cpc' = "idle" => fpc'[Closer] = "idle"
      BY <2>0, <3>2 DEF Called
    <3> QED
      BY <3>1, <3>3, <3>4, <3>5 DEF Called
  <2>6. CASE CloseStep
    <3>1. /\ UNCHANGED <<poolClosed, spc, fpc, sctx, reply, waiters, result, before, call>>
          /\ cpc' # "idle"
      BY <2>6 DEF CloseStep, CloseShutdown, CloseStopped, CloseTimeout, CloseAborted,
         CloseLeftover, OtherThanFlush, callVars, senderVars, batchVars, poolVars, flushVars
    <3> QED
      BY <3>1 DEF Called
  <2> QED
    BY <2>1, <2>2, <2>3, <2>4, <2>5, <2>6, SenderCalled DEF Next
<1> QED
  BY <1>1, <1>2, TypeCorrect, PTL DEF Spec

-----------------------------------------------------------------------------
(* One answer per Flush.                                                   *)

\* A call that has had nothing of the pool, and is waiting for nothing from it.
Unserved(f) == sctx # f /\ reply[f] = <<>> /\ \A x \in waiters : x.flush # f

\* A request is with the sender or with one waiter until it is answered.
OneServer ==
    /\ RepliedOnce
    /\ \A x, y \in waiters : x.flush = y.flush => x = y
    /\ \A x \in waiters : reply[x.flush] = <<>> /\ sctx # x.flush
    /\ sctx \in Flushes => reply[sctx] = <<>>

\* Before the sender has taken it a call is with nobody, and what it returns is
\* its answer or says why it did not wait for one.
Verdict(f) ==
    /\ fpc[f] \in {"idle", "offering"} \/ result[f] = "ErrClosed" => Unserved(f)
    /\ result[f] = "none" <=> fpc[f] # "returned"
    /\ result[f] \in {"nil", "err"} => reply[f] = <<result[f]>>
    /\ result[f] = "ctx" => expired[f]

Answered == OneServer /\ \A f \in Flushes : Verdict(f)

\* What Answered says about the types of its variables.
AnswerTypes ==
    /\ waiters \subseteq [flush : Flushes, target : Nat]
    /\ reply \in [Flushes -> Seq({"nil", "err"})]
    /\ sctx \in Contexts /\ Background \notin Flushes /\ (spc = "await" => sctx \in Flushes)
    /\ fpc \in [Flushes -> {"idle", "offering", "waiting", "returned"}]
    /\ result \in [Flushes -> {"none", "nil", "err", "ctx", "ErrClosed"}]
    /\ expired \in [Flushes -> BOOLEAN]

LEMMA AnswersTyped == TypeOK => AnswerTypes
BY ClientAssumption DEF TypeOK, PoolType, SenderType, FlushType, Flushes, AnswerTypes

\* The request of f is taken from the sender or from its waiter and answered.
Served(f) ==
    /\ \/ sctx = f /\ sctx' # f
       \/ \E x \in waiters \ waiters' : x.flush = f
    /\ reply'[f] \in {<<"nil">>, <<"err">>}

\* Answering requests, and the steps that answer none, keep Answered while the
\* calls stand still.
LEMMA AnswersKept ==
    ASSUME AnswerTypes, Answered, UNCHANGED <<fpc, result, expired>>,
           waiters' \subseteq waiters, sctx' \in {sctx, Background},
           \A f \in Flushes : reply'[f] = reply[f] \/ Served(f)
    PROVE  Answered'
<1>1. \A f \in Flushes : Served(f) => reply[f] = <<>> /\ ~Unserved(f)
  BY DEF Served, Answered, OneServer, Unserved, AnswerTypes
<1>2. ASSUME NEW f \in Flushes, Served(f)
      PROVE  sctx' # f /\ \A x \in waiters' : x.flush # f
  <2>1. CASE sctx = f /\ sctx' # f
    BY <2>1 DEF Answered, OneServer
  <2>2. ASSUME NEW x \in waiters \ waiters', x.flush = f
        PROVE  sctx' # f /\ \A y \in waiters' : y.flush # f
    <3>1. sctx # f /\ Background # f /\ \A y \in waiters : y.flush = f => y = x
      BY <2>2 DEF Answered, OneServer, AnswerTypes
    <3> QED
      BY <2>2, <3>1
  <2> QED
    BY <1>2, <2>1, <2>2 DEF Served
<1>3. Len(<<"nil">>) = 1 /\ Len(<<"err">>) = 1
  OBVIOUS
<1>4. OneServer'
  <2>1. RepliedOnce'
    <3>1. ASSUME NEW f \in Flushes PROVE Len(reply'[f]) <= 1
      <4>1. CASE reply'[f] = reply[f]
        BY <4>1 DEF Answered, OneServer, RepliedOnce
      <4>2. CASE reply'[f] = <<"nil">>
        BY <1>3, <4>2
      <4>3. CASE reply'[f] = <<"err">>
        BY <1>3, <4>3
      <4> QED
        BY <4>1, <4>2, <4>3 DEF Served
    <3> QED
      BY <3>1 DEF RepliedOnce
  <2>2. \A x \in waiters' : x.flush \in Flushes /\ reply'[x.flush] = <<>> /\ sctx' # x.flush
    BY <1>2 DEF Answered, OneServer, AnswerTypes
  <2>3. sctx' \in Flushes => reply'[sctx'] = <<>>
    BY <1>2 DEF Answered, OneServer, AnswerTypes
  <2> QED
    BY <2>1, <2>2, <2>3 DEF Answered, OneServer
<1>5. ASSUME NEW f \in Flushes PROVE Verdict(f)'
  <2>1. Verdict(f) /\ UNCHANGED <<fpc[f], result[f], expired[f]>>
    BY DEF Answered
  <2>2. Unserved(f) => Unserved(f)'
    BY <1>1 DEF Unserved, AnswerTypes
  <2>3. result[f] \in {"nil", "err"} => reply[f] # <<>>
    <3>1. \A m : <<m>> # <<>>
      OBVIOUS
    <3> QED
      BY <2>1, <3>1 DEF Verdict
  <2> QED
    BY <1>1, <2>1, <2>2, <2>3 DEF Verdict
<1> QED
  BY <1>4, <1>5 DEF Answered

\* signalLocked answers each waiter it removes, once.
LEMMA SignalServes ==
    ASSUME AnswerTypes, Answered, NEW c, NEW isClosed, NEW e, Signal(c, isClosed, e)
    PROVE  /\ waiters' \subseteq waiters
           /\ \A f \in Flushes : reply'[f] = reply[f] \/ Served(f)
<1> DEFINE ready == {x \in waiters : Satisfied(c, x.target) \/ isClosed}
<1>1. waiters' = waiters \ ready
  BY DEF Signal, Kept
<1>2. \A f \in Flushes :
        \/ reply'[f] = reply[f]
        \/ /\ \E x \in ready : x.flush = f
           /\ \E m \in {"nil", "err"} : reply'[f] = Append(reply[f], m)
  BY DEF Signal, AnswerTypes
<1>3. \A x \in ready : x \in waiters /\ x \notin waiters' /\ reply[x.flush] = <<>>
  BY <1>1 DEF Answered, OneServer
<1>4. Append(<<>>, "nil") = <<"nil">> /\ Append(<<>>, "err") = <<"err">>
  OBVIOUS
<1> HIDE DEF ready
<1>5. ASSUME NEW f \in Flushes, reply'[f] # reply[f] PROVE Served(f)
  <2>1. PICK x \in ready : x.flush = f
    BY <1>2, <1>5
  <2>2. reply[f] = <<>> /\ x \in waiters \ waiters'
    BY <1>3, <2>1
  <2>3. reply'[f] \in {<<"nil">>, <<"err">>}
    BY <1>2, <1>4, <1>5, <2>2
  <2> QED
    BY <2>1, <2>2, <2>3 DEF Served
<1> QED
  BY <1>1, <1>5

\* The sender takes a request, serves it or leaves it with a waiter (run, await).
LEMMA SenderAnswers ==
    ASSUME AnswerTypes, Answered, Sender
    PROVE  Answered'
<1>1. UNCHANGED <<result, expired>>
  BY DEF Sender, OtherThanSender
<1>2. CASE \/ SelectReceive \/ SelectTimer \/ SelectShutdown \/ DrainReceive \/ DrainFinish
           \/ Dispatch \/ HandOffSend \/ RecordDispatch \/ HandOffAbandon \/ SenderStop
           \/ SenderExit
  <2>1. /\ UNCHANGED <<fpc, reply, waiters>> /\ sctx' \in {sctx, Background}
    <3>1. CASE SelectReceive \/ SelectTimer \/ SelectShutdown \/ DrainReceive \/ DrainFinish
      BY <3>1 DEF SelectReceive, SelectTimer, SelectShutdown, DrainReceive, DrainFinish,
         Accumulate, Flush, OtherThanBatch
    <3>2. CASE Dispatch \/ HandOffSend \/ RecordDispatch \/ HandOffAbandon \/ SenderStop
               \/ SenderExit
      BY <3>2 DEF Dispatch, DispatchFits, DispatchSplit, DispatchOversize, DispatchSplitFails,
         HandOffSend, RecordDispatch, HandOffAbandon, SenderStop, SenderExit, Continue,
         OtherThanBatch, batchVars
    <3> QED
      BY <1>2, <3>1, <3>2
  <2> QED
    BY <1>1, <2>1, AnswersKept
<1>3. ASSUME NEW g \in Flushes, SelectFlush(g) PROVE Answered'
  <2>1. /\ UNCHANGED <<reply, waiters>> /\ sctx' = g /\ fpc' = [fpc EXCEPT ![g] = "waiting"]
        /\ fpc[g] = "offering"
    BY <1>3 DEF SelectFlush, OtherThanBatch
  <2>2. Unserved(g) /\ result[g] = "none"
    BY <2>1 DEF Answered, Verdict
  <2>3. OneServer'
    BY <2>1, <2>2 DEF Answered, OneServer, Unserved, RepliedOnce
  <2>4. ASSUME NEW f \in Flushes PROVE Verdict(f)'
    <3>1. CASE f = g
      BY <1>1, <2>1, <2>2, <3>1 DEF Verdict, AnswerTypes
    <3>2. CASE f # g
      <4>1. fpc'[f] = fpc[f] /\ (Unserved(f) => Unserved(f)') /\ Verdict(f)
        BY <2>1, <3>2 DEF Unserved, AnswerTypes, Answered
      <4> QED
        BY <1>1, <2>1, <4>1 DEF Verdict
    <3> QED
      BY <3>1, <3>2
  <2> QED
    BY <2>3, <2>4 DEF Answered
<1>4. CASE Await
  <2>1. fpc' = fpc /\ sctx' = Background
    BY <1>4 DEF Await
  <2>2. CASE sctx \in Flushes /\ Reply(sctx, perr) /\ UNCHANGED waiters
    <3>1. reply[sctx] = <<>>
      BY <2>2 DEF Answered, OneServer
    <3>2. Append(<<>>, "nil") = <<"nil">> /\ Append(<<>>, "err") = <<"err">>
      OBVIOUS
    <3>3. /\ reply'[sctx] \in {<<"nil">>, <<"err">>}
          /\ \A f \in Flushes : f # sctx => reply'[f] = reply[f]
      BY <2>2, <3>1, <3>2 DEF Reply, AnswerTypes
    <3>4. \A f \in Flushes : reply'[f] = reply[f] \/ Served(f)
      BY <2>1, <2>2, <3>3 DEF Served, AnswerTypes
    <3> QED
      BY <1>1, <2>1, <2>2, <3>4, AnswersKept
  <2>3. CASE /\ sctx \in Flushes /\ UNCHANGED reply
             /\ waiters' = waiters \cup {[flush |-> sctx, target |-> dispatched]}
    <3>1. \A x \in waiters' : x \in waiters \/ x = [flush |-> sctx, target |-> dispatched]
      BY <2>3
    <3>2. /\ reply[sctx] = <<>> /\ \A x \in waiters : x.flush # sctx
          /\ sctx # Background /\ Background \notin Flushes
      BY <2>3 DEF Answered, OneServer, AnswerTypes
    <3>3. OneServer'
      <4>1. \A x, y \in waiters' : x.flush = y.flush => x = y
        BY <3>1, <3>2 DEF Answered, OneServer
      <4>2. \A x \in waiters' : reply'[x.flush] = <<>> /\ sctx' # x.flush
        BY <2>1, <2>3, <3>1, <3>2 DEF Answered, OneServer, AnswerTypes
      <4> QED
        BY <2>1, <2>3, <3>2, <4>1, <4>2 DEF Answered, OneServer, RepliedOnce
    <3>4. ASSUME NEW f \in Flushes PROVE Verdict(f)'
      <4>1. Unserved(f) => Unserved(f)'
        BY <2>1, <2>3, <3>1, <3>2 DEF Unserved
      <4>2. Verdict(f)
        BY DEF Answered
      <4> QED
        BY <1>1, <2>1, <2>3, <4>1, <4>2 DEF Verdict
    <3> QED
      BY <3>3, <3>4 DEF Answered
  <2> QED
    BY <1>4, <2>2, <2>3 DEF Await, AnswerTypes
<1>5. CASE SenderJoined
  <2>1. UNCHANGED <<fpc, sctx>> /\ Signal(completed, TRUE, perr)
    BY <1>5 DEF SenderJoined, batchVars
  <2> QED
    BY <1>1, <2>1, SignalServes, AnswersKept
<1> QED
  BY <1>2, <1>3, <1>4, <1>5 DEF Sender

\* A call returns the one answer it was sent, its own context's end or ErrClosed
\* (Flush).
LEMMA CallAnswers ==
    ASSUME AnswerTypes, Answered, NEW f \in Flushes,
           FlushStep(f) \/ (Expire(f) /\ UNCHANGED OtherThanFlush)
    PROVE  Answered'
<1>1. UNCHANGED <<sctx, reply, waiters>>
  BY DEF FlushStep, OtherThanFlush, senderVars, batchVars, poolVars
<1>2. OneServer' /\ \A g \in Flushes : Unserved(g) <=> Unserved(g)'
  BY <1>1 DEF Answered, OneServer, RepliedOnce, Unserved
<1>3. SUFFICES ASSUME NEW g \in Flushes PROVE Verdict(g)'
  BY <1>2 DEF Answered
<1>4. Verdict(g)
  BY DEF Answered
<1>5. CASE Expire(f)
  <2>1. UNCHANGED <<fpc, result>> /\ (expired[g] => expired'[g])
    BY <1>5 DEF Expire, AnswerTypes
  <2> QED
    BY <1>1, <1>2, <1>4, <2>1 DEF Verdict
<1>6. ASSUME NEW res, FlushReturn(f, res),
             \/ res = "ErrClosed" /\ fpc[f] = "offering"
             \/ res \in {"nil", "err"} /\ reply[f] = <<res>> /\ fpc[f] = "waiting"
             \/ res = "ctx" /\ expired[f]
      PROVE  Verdict(g)'
  <2>1. /\ fpc' = [fpc EXCEPT ![f] = "returned"] /\ result' = [result EXCEPT ![f] = res]
        /\ expired' = expired
    BY <1>6 DEF FlushReturn
  <2>2. CASE g # f
    <3>1. UNCHANGED <<fpc[g], result[g], expired[g]>>
      BY <2>1, <2>2 DEF AnswerTypes
    <3> QED
      BY <1>1, <1>2, <1>4, <3>1 DEF Verdict
  <2>3. CASE g = f
    <3>1. fpc'[g] = "returned" /\ result'[g] = res /\ expired'[g] = expired[g]
      BY <2>1, <2>3 DEF AnswerTypes
    <3> QED
      BY <1>1, <1>2, <1>4, <1>6, <2>3, <3>1 DEF Verdict
  <2> QED
    BY <2>2, <2>3
<1>7. CASE FlushReplied(f)
  <2>1. fpc[f] = "waiting" /\ reply[f] # <<>> /\ FlushReturn(f, Head(reply[f]))
    BY <1>7 DEF FlushReplied
  <2>2. reply[f] \in Seq({"nil", "err"}) /\ Len(reply[f]) <= 1
    BY DEF Answered, OneServer, RepliedOnce, AnswerTypes
  <2>3. Head(reply[f]) \in {"nil", "err"} /\ reply[f] = <<Head(reply[f])>>
    BY <2>1, <2>2
  <2> QED
    BY <1>6, <2>1, <2>3
<1>8. CASE FlushSenderGone(f) \/ FlushCtxDone(f)
  BY <1>6, <1>8 DEF FlushSenderGone, FlushCtxDone
<1> QED
  BY <1>5, <1>7, <1>8 DEF FlushStep

\* Answered holds in every reachable state.
LEMMA AnsweredInvariant == Spec => []Answered
<1>1. Init => Answered
  <2>1. ASSUME Init PROVE Answered
    <3>1. /\ sctx = Background /\ waiters = {} /\ Background \notin Flushes
          /\ \A f \in Flushes : fpc[f] = "idle" /\ reply[f] = <<>> /\ result[f] = "none"
      BY <2>1, ClientAssumption DEF Init, Fresh, Flushes
    <3>2. Len(<<>>) = 0
      OBVIOUS
    <3> QED
      BY <3>1, <3>2 DEF Answered, OneServer, Verdict, Unserved, RepliedOnce
  <2> QED
    BY <2>1
<1>2. TypeOK /\ Called /\ Answered /\ [Next]_vars => Answered'
  <2> SUFFICES ASSUME TypeOK, Called, Answered, [Next]_vars PROVE Answered'
    OBVIOUS
  <2>0. AnswerTypes
    BY AnswersTyped
  <2>1. CASE \/ \E r \in Records : Enqueue(r)
             \/ TimerFires \/ CloseStep \/ Terminated \/ UNCHANGED vars
    <3>1. UNCHANGED <<fpc, result, expired, sctx, reply, waiters>>
      BY <2>1 DEF Enqueue, TimerFires, CloseStep, CloseShutdown, CloseStopped, CloseTimeout,
         CloseAborted, CloseLeftover, OtherThanFlush, Terminated, vars, senderVars, batchVars,
         poolVars, flushVars
    <3> QED
      BY <2>0, <3>1, AnswersKept
  <2>2. ASSUME NEW w \in Workers, Worker(w) PROVE Answered'
    <3>1. UNCHANGED <<fpc, result, expired, sctx>>
      BY <2>2 DEF Worker, Upload, senderVars, batchVars, flushVars
    <3>2. CASE UploadComplete(w)
      <4>1. Signal(completed + 1, poolClosed, FirstError(perr, werr[w]))
        BY <3>2 DEF UploadComplete
      <4> QED
        BY <2>0, <3>1, <4>1, SignalServes, AnswersKept
    <3>3. CASE WorkerReceive(w) \/ WorkerExit(w) \/ Upload(w)
      <4>1. UNCHANGED <<reply, waiters>>
        BY <3>3 DEF WorkerReceive, WorkerExit, Upload, UploadSent, UploadRejected,
           UploadOversize, UploadSplit, UploadSplitFails, UploadCancelled, Resolve, poolVars
      <4> QED
        BY <2>0, <3>1, <4>1, AnswersKept
    <3> QED
      BY <2>2, <3>2, <3>3 DEF Worker
  <2>3. CASE Call
    <3>1. UNCHANGED <<result, expired, sctx, reply, waiters>>
      BY <2>3 DEF Call, CloseBegin, FlushCall, OtherThanFlush, senderVars, batchVars, poolVars
    <3>2. PICK g \in Flushes : fpc' = [fpc EXCEPT ![g] = "offering"] /\ fpc[g] = "idle"
      <4>1. CASE CloseBegin
        BY <4>1 DEF CloseBegin, Called, Flushes
      <4>2. ASSUME NEW f \in Callers, FlushCall(f) PROVE fpc' = [fpc EXCEPT ![f] = "offering"] /\ fpc[f] = "idle"
        BY <4>2 DEF FlushCall
      <4> QED
        BY <2>3, <4>1, <4>2 DEF Call, Flushes
    <3>3. OneServer' /\ \A f \in Flushes : Unserved(f) <=> Unserved(f)'
      BY <3>1 DEF Answered, OneServer, RepliedOnce, Unserved
    <3>4. ASSUME NEW f \in Flushes PROVE Verdict(f)'
      <4>1. /\ Verdict(f) /\ (fpc'[f] = "returned" <=> fpc[f] = "returned")
            /\ (fpc'[f] \in {"idle", "offering"} <=> fpc[f] \in {"idle", "offering"})
        BY <2>0, <3>2 DEF Answered, AnswerTypes
      <4> QED
        BY <3>1, <3>3, <4>1 DEF Verdict
    <3> QED
      BY <3>3, <3>4 DEF Answered
  <2> QED
    BY <2>0, <2>1, <2>2, <2>3, SenderAnswers, CallAnswers DEF Next
<1> QED
  BY <1>1, <1>2, TypeCorrect, CalledInvariant, PTL DEF Spec

\* A Flush is answered once: the send into its reply channel never blocks the
\* pool's lock (sender.go, await and signalLocked).
THEOREM AnsweredOnce == Spec => []RepliedOnce
<1>1. Answered => RepliedOnce
  BY DEF Answered, OneServer
<1> QED
  BY <1>1, AnsweredInvariant, PTL

-----------------------------------------------------------------------------
(* An upload error surfaces.                                               *)

\* The Flush calls that were answered with an error.
Told == {f \in Flushes : reply[f] = <<"err">>}

One(e) == IF e THEN 1 ELSE 0

\* The errors taken on are held or were handed out, each once.
ErrorsCounted ==
    /\ IsFiniteSet(Told)
    /\ failures = Cardinality(Told) + One(perr)

\* signalLocked keeps the error or gives it to one waiter, which had no answer.
LEMMA SignalTells ==
    ASSUME AnswerTypes, Answered, IsFiniteSet(Told),
           NEW c, NEW isClosed, NEW e \in BOOLEAN, Signal(c, isClosed, e)
    PROVE  /\ IsFiniteSet(Told')
           /\ Cardinality(Told') + One(perr') = Cardinality(Told) + One(e)
<1> DEFINE ready == {x \in waiters : Satisfied(c, x.target) \/ isClosed}
           message(f, first) == IF e /\ f = first.flush THEN "err" ELSE "nil"
<1>1. Cardinality(Told) \in Nat
  BY FS_CardinalityType
<1>2. CASE ready = {} /\ perr' = e /\ UNCHANGED reply
  BY <1>2 DEF Told
<1>3. ASSUME NEW first \in ready, perr' = FALSE,
             reply' = [f \in Flushes |->
                         IF \E x \in ready : x.flush = f
                         THEN Append(reply[f], message(f, first)) ELSE reply[f]]
      PROVE  /\ IsFiniteSet(Told')
             /\ Cardinality(Told') + One(perr') = Cardinality(Told) + One(e)
  <2>1. first.flush \in Flushes /\ \A x \in ready : reply[x.flush] = <<>>
    BY DEF Answered, OneServer, AnswerTypes
  <2>2. \A f \in Flushes : message(f, first) = IF e /\ f = first.flush THEN "err" ELSE "nil"
    OBVIOUS
  <2>3. /\ Append(<<>>, "nil") = <<"nil">> /\ Append(<<>>, "err") = <<"err">>
        /\ <<"nil">> # <<"err">> /\ <<>> # <<"err">>
    OBVIOUS
  <2>4. ASSUME NEW f \in Flushes
        PROVE  f \in Told' <=> f \in Told \/ (e /\ f = first.flush)
    <3>1. CASE \E x \in ready : x.flush = f
      <4>1. reply[f] = <<>> /\ reply'[f] = Append(<<>>, message(f, first))
        BY <1>3, <2>1, <3>1
      <4> HIDE DEF ready, message
      <4>2. f \notin Told /\ (f \in Told' <=> message(f, first) = "err")
        BY <2>2, <2>3, <4>1 DEF Told
      <4> QED
        BY <2>2, <4>2
    <3>2. CASE ~\E x \in ready : x.flush = f
      <4>1. reply'[f] = reply[f] /\ f # first.flush
        BY <1>3, <3>2
      <4> QED
        BY <4>1 DEF Told
    <3> QED
      BY <3>1, <3>2
  <2>5. first.flush \notin Told
    BY <2>1, <2>3 DEF Told
  <2> HIDE DEF ready, message
  <2>6. CASE e
    <3>1. Told' = Told \cup {first.flush}
      BY <2>1, <2>4, <2>6 DEF Told
    <3>2. IsFiniteSet(Told') /\ Cardinality(Told') = Cardinality(Told) + 1
      BY <2>5, <3>1, FS_AddElement
    <3> QED
      BY <1>1, <1>3, <2>6, <3>2 DEF One
  <2>7. CASE ~e
    <3>1. Told' = Told
      BY <2>4, <2>7 DEF Told
    <3> QED
      BY <1>3, <2>7, <3>1
  <2> QED
    BY <2>6, <2>7
<1> QED
  BY <1>2, <1>3 DEF Signal

\* takeErrLocked gives the error to the Flush that finds nothing to wait for.
LEMMA AwaitTells ==
    ASSUME AnswerTypes, Answered, IsFiniteSet(Told), perr \in BOOLEAN, Await
    PROVE  /\ IsFiniteSet(Told')
           /\ Cardinality(Told') + One(perr') = Cardinality(Told) + One(perr)
<1>1. Cardinality(Told) \in Nat
  BY FS_CardinalityType
<1>2. CASE Reply(sctx, perr) /\ perr' = FALSE
  <2>1. sctx \in Flushes /\ reply[sctx] = <<>>
    BY DEF Await, AnswerTypes, Answered, OneServer
  <2>2. /\ Append(<<>>, "nil") = <<"nil">> /\ Append(<<>>, "err") = <<"err">>
        /\ <<"nil">> # <<"err">> /\ <<>> # <<"err">>
    OBVIOUS
  <2>3. /\ reply'[sctx] = (IF perr THEN <<"err">> ELSE <<"nil">>)
        /\ \A f \in Flushes : f # sctx => reply'[f] = reply[f]
    BY <1>2, <2>1, <2>2 DEF Reply, AnswerTypes
  <2>4. sctx \notin Told
    BY <2>1, <2>2 DEF Told
  <2>5. CASE perr
    <3>1. Told' = Told \cup {sctx}
      BY <2>1, <2>3, <2>5 DEF Told
    <3>2. IsFiniteSet(Told') /\ Cardinality(Told') = Cardinality(Told) + 1
      BY <2>4, <3>1, FS_AddElement
    <3> QED
      BY <1>1, <1>2, <2>5, <3>2 DEF One
  <2>6. CASE ~perr
    <3>1. Told' = Told
      BY <2>1, <2>2, <2>3, <2>4, <2>6 DEF Told
    <3> QED
      BY <1>2, <2>6, <3>1
  <2> QED
    BY <2>5, <2>6
<1>3. CASE UNCHANGED <<perr, reply>>
  BY <1>3 DEF Told
<1> QED
  BY <1>2, <1>3 DEF Await

LEMMA ErrorsAreCounted == Spec => []ErrorsCounted
<1>1. Init => ErrorsCounted
  <2> SUFFICES ASSUME Init PROVE ErrorsCounted
    OBVIOUS
  <2>1. Told = {} /\ failures = 0 /\ perr = FALSE
    <3>1. <<>> # <<"err">>
      OBVIOUS
    <3> QED
      BY <3>1 DEF Init, Fresh, Told
  <2> QED
    BY <2>1, FS_EmptySet DEF ErrorsCounted, One
<1>2. TypeOK /\ Answered /\ ErrorsCounted /\ [Next]_vars => ErrorsCounted'
  <2> SUFFICES ASSUME TypeOK, Answered, ErrorsCounted, [Next]_vars PROVE ErrorsCounted'
    OBVIOUS
  <2>1. /\ AnswerTypes /\ perr \in BOOLEAN /\ werr \in [Workers -> BOOLEAN]
        /\ IsFiniteSet(Told) /\ Cardinality(Told) \in Nat
        /\ failures = Cardinality(Told) + One(perr)
    BY AnswersTyped, FS_CardinalityType DEF TypeOK, PoolType, WorkerType, ErrorsCounted
  <2>2. CASE UNCHANGED <<failures, perr, reply>>
    BY <2>1, <2>2 DEF ErrorsCounted, Told
  <2>3. ASSUME NEW w \in Workers, UploadComplete(w) PROVE ErrorsCounted'
    <3> DEFINE e == FirstError(perr, werr[w])
    <3>1. werr[w] \in BOOLEAN /\ e \in BOOLEAN
      BY <2>1 DEF FirstError
    <3>2. /\ failures' = failures + (IF werr[w] /\ ~perr THEN 1 ELSE 0)
          /\ Signal(completed + 1, poolClosed, e)
      BY <2>3 DEF UploadComplete
    <3>3. One(e) = One(perr) + (IF werr[w] /\ ~perr THEN 1 ELSE 0)
      BY <2>1, <3>1 DEF One, FirstError
    <3> HIDE DEF e
    <3>4. /\ IsFiniteSet(Told')
          /\ Cardinality(Told') + One(perr') = Cardinality(Told) + One(e)
      BY <2>1, <3>1, <3>2, SignalTells
    <3>5. One(perr) \in Nat /\ (IF werr[w] /\ ~perr THEN 1 ELSE 0) \in Nat
      BY DEF One
    <3> QED
      BY <2>1, <3>2, <3>3, <3>4, <3>5 DEF ErrorsCounted
  <2>4. ASSUME NEW w \in Workers, Worker(w) PROVE ErrorsCounted'
    <3>1. CASE WorkerReceive(w) \/ WorkerExit(w) \/ Upload(w)
      <4>1. UNCHANGED <<failures, perr, reply>>
        BY <3>1 DEF WorkerReceive, WorkerExit, Upload, UploadSent, UploadRejected,
           UploadOversize, UploadSplit, UploadSplitFails, UploadCancelled, Resolve, poolVars
      <4> QED
        BY <2>2, <4>1
    <3> QED
      BY <2>3, <2>4, <3>1 DEF Worker
  <2>5. CASE Sender
    <3>1. failures' = failures
      BY <2>5 DEF Sender, OtherThanSender
    <3>2. CASE Await
      BY <2>1, <3>1, <3>2, AwaitTells DEF ErrorsCounted
    <3>3. CASE SenderJoined
      <4>1. Signal(completed, TRUE, perr)
        BY <3>3 DEF SenderJoined
      <4> QED
        BY <2>1, <3>1, <4>1, SignalTells DEF ErrorsCounted
    <3>4. CASE ~(Await \/ SenderJoined)
      <4>1. UNCHANGED <<perr, reply>>
        BY <2>5, <3>4 DEF Sender, SelectReceive, SelectTimer, SelectShutdown, SelectFlush,
           DrainReceive, DrainFinish, Dispatch, HandOffSend, RecordDispatch, HandOffAbandon,
           SenderStop, SenderExit, OtherThanBatch
      <4> QED
        BY <2>2, <3>1, <4>1
    <3> QED
      BY <3>2, <3>3, <3>4
  <2>6. CASE \/ \E r \in Records : Enqueue(r)
             \/ TimerFires \/ CloseStep \/ Call \/ Terminated \/ UNCHANGED vars
             \/ \E f \in Flushes : FlushStep(f) \/ (Expire(f) /\ UNCHANGED OtherThanFlush)
    <3>1. UNCHANGED <<failures, perr, reply>>
      BY <2>6 DEF Enqueue, TimerFires, CloseStep, Call, FlushStep, OtherThanFlush, Terminated,
         vars, poolVars
    <3> QED
      BY <3>1, <2>2
  <2> QED
    BY <2>4, <2>5, <2>6 DEF Next
<1> QED
  BY <1>1, <1>2, TypeCorrect, AnsweredInvariant, PTL DEF Spec

\* Every error the pool takes on is held for the next Flush or is the answer of
\* exactly one, which returns it, is about to, or has had its own context end:
\* none is dropped, repeated or invented, and an error that finds one held is not
\* taken on (sender.go, complete, signalLocked and takeErrLocked; client.go, Flush).
THEOREM ErrorsSurface == Spec => []FailureSurfaces
<1>1. TypeOK /\ Answered /\ ErrorsCounted => FailureSurfaces
  <2> SUFFICES ASSUME TypeOK, Answered, ErrorsCounted, NEW f \in Flushes, reply[f] = <<"err">>
               PROVE  result[f] = "err" \/ fpc[f] = "waiting" \/ expired[f]
    BY DEF ErrorsCounted, Told, One, FailureSurfaces
  <2>1. <<"err">> # <<"nil">> /\ <<"err">> # <<>>
    OBVIOUS
  <2>2. /\ fpc[f] \in {"idle", "offering", "waiting", "returned"}
        /\ result[f] \in {"none", "nil", "err", "ctx", "ErrClosed"}
    BY DEF TypeOK, FlushType
  <2>3. fpc[f] = "waiting" \/ result[f] \in {"nil", "err", "ctx"}
    BY <2>1, <2>2 DEF Answered, Verdict, Unserved
  <2> QED
    BY <2>1, <2>3 DEF Answered, Verdict
<1> QED
  BY <1>1, ErrorsAreCounted, AnsweredInvariant, TypeCorrect, PTL

-----------------------------------------------------------------------------
(* Where the records that were returned before a Flush are.                 *)

\* The records that were returned before f was called are past the sender.
Passed(f) == before[f] \cap (InQueue \cup InSender) = {}

\* Those of them that are still in the job channel are among the first n batches.
Within(f, n) ==
    \A i \in DOMAIN jobs :
        jobs[i] \cap before[f] # {} => completed + Cardinality(Uploading) + i <= n

\* Some worker is not busy with any of them.
Spared(f) == \E w \in Workers : \A b \in work[w] : b \cap before[f] = {}

\* What a reply leaves behind.
Lags(f) == Passed(f) /\ before[f] \cap InJobs = {} /\ Spared(f)

\* A flush past its drain has left nothing in the queue, a waiter waits for every
\* batch of its records, and a reply was sent behind them.
Awaited ==
    /\ spc = "await" \/ resume = "await" => before[sctx] \cap InQueue = {}
    /\ \A x \in waiters : Passed(x.flush) /\ Within(x.flush, x.target)
    /\ \A f \in Flushes : reply[f] # <<>> => Lags(f)

-----------------------------------------------------------------------------
(* Records move one way: from the queue through the sender and the job     *)
(* channel to the workers.                                                 *)

\* A step in which only the records of new enter the queue.
Flows(new) ==
    /\ InQueue' \cup InSender' \subseteq InQueue \cup InSender \cup new
    /\ InJobs' \subseteq InJobs \cup hand
    /\ \A w \in Workers : \A b \in work'[w] :
         b \subseteq InJobs \/ \E a \in work[w] : b \subseteq a

\* A batch appended to the job channel is all that is new in it.
LEMMA JobsGrow ==
    ASSUME jobs \in Seq(Batches), hand \in Batches, jobs' = Append(jobs, hand)
    PROVE  /\ InJobs' \subseteq InJobs \cup hand
           /\ Len(jobs) \in Nat /\ DOMAIN jobs = 1 .. Len(jobs)
           /\ DOMAIN jobs' = 1 .. Len(jobs) + 1 /\ jobs'[Len(jobs) + 1] = hand
           /\ \A i \in DOMAIN jobs : jobs'[i] = jobs[i]
<1>1. /\ Len(jobs) \in Nat /\ DOMAIN jobs = 1 .. Len(jobs)
      /\ DOMAIN jobs' = 1 .. Len(jobs) + 1 /\ jobs'[Len(jobs) + 1] = hand
      /\ \A i \in 1 .. Len(jobs) : jobs'[i] = jobs[i]
  BY LenProperties, AppendProperties
<1>2. \A i \in DOMAIN jobs' : i = Len(jobs) + 1 \/ i \in DOMAIN jobs
  BY <1>1
<1> QED
  BY <1>1, <1>2 DEF InJobs

\* The sender takes records from the queue and passes them on (run, drain, flush,
\* dispatch and handOff).
LEMMA SenderFlows ==
    ASSUME TypeOK, Ownership, Sender
    PROVE  Flows({})
<1>1. /\ work' = work /\ SenderType /\ Distinct /\ Phases /\ jobs \in Seq(Batches)
      /\ todo \subseteq Batches
  BY DEF Sender, OtherThanSender, TypeOK, WorkerType, SenderType, Ownership
<1>2. ASSUME NEW b, b \subseteq InQueue \cup buf, InQueue' \subseteq InQueue, jobs' = jobs,
             hand' = hand, buf' \subseteq b, todo' = todo \/ todo' = {b}
      PROVE  Flows({})
  <2>1. InTodo' \subseteq InTodo \cup b
    BY <1>2 DEF InTodo
  <2>2. InJobs' = InJobs
    BY <1>2 DEF InJobs
  <2> QED
    BY <1>1, <1>2, <2>1, <2>2 DEF Flows, InSender
<1>3. CASE SelectReceive \/ DrainReceive
  <2> DEFINE b == buf \cup {Head(queue)}
  <2>1. queue # <<>> /\ queue' = Tail(queue) /\ jobs' = jobs
    BY <1>3 DEF SelectReceive, DrainReceive, OtherThanBatch
  <2>2. InQueue' \subseteq InQueue /\ b \subseteq InQueue \cup buf
    BY <1>1, <2>1, QueueTail
  <2>3. hand' = hand /\ buf' \subseteq b /\ (todo' = todo \/ todo' = {b})
    BY <1>3 DEF SelectReceive, DrainReceive, Accumulate, Flush
  <2> HIDE DEF b
  <2> QED
    BY <1>2, <2>1, <2>2, <2>3
<1>4. CASE SelectTimer \/ DrainFinish
  <2>1. /\ UNCHANGED <<queue, jobs, hand>> /\ buf' \subseteq buf
        /\ (todo' = todo \/ todo' = {buf})
    BY <1>4 DEF SelectTimer, DrainFinish, Flush, OtherThanBatch
  <2>2. InQueue' = InQueue
    BY <2>1 DEF InQueue
  <2> QED
    BY <1>2, <2>1, <2>2
<1>5. CASE \/ SelectShutdown \/ (\E f \in Flushes : SelectFlush(f)) \/ RecordDispatch \/ Await
           \/ SenderStop \/ SenderJoined \/ SenderExit
  <2>1. UNCHANGED <<queue, jobs, hand, buf, todo>>
    BY <1>5 DEF SelectShutdown, SelectFlush, RecordDispatch, Await, SenderStop, SenderJoined,
       SenderExit, Continue, OtherThanBatch, batchVars
  <2>2. InQueue' = InQueue
    BY <2>1 DEF InQueue
  <2> QED
    BY <1>2, <2>1, <2>2
<1>6. CASE Dispatch
  <2>1. PICK b \in todo : \/ DispatchFits(b) \/ DispatchSplit(b)
                          \/ DispatchOversize(b) \/ DispatchSplitFails(b)
    BY <1>6 DEF Dispatch
  <2>2. UNCHANGED <<queue, jobs, buf>>
    BY <1>6 DEF Dispatch, DispatchFits, DispatchSplit, DispatchOversize, DispatchSplitFails,
       Continue, OtherThanBatch
  <2>3. b \subseteq InTodo
    BY <1>1 DEF Batches, InTodo
  <2>4. (hand' = hand \/ hand' = b) /\ \A q \in todo' : \E p \in todo : q \subseteq p
    <3>1. CASE DispatchSplit(b)
      <4>1. PICK h \in Halves(b) : todo' = Halved(todo, b, h)
        BY <3>1 DEF DispatchSplit
      <4>2. \A x, y \in todo : x = y \/ x \cap y = {}
        BY <1>1 DEF Distinct
      <4>3. \A q \in todo' : \E p \in todo : q \subseteq p
        BY <4>1, <4>2, HalvedPieces
      <4> QED
        BY <3>1, <4>3 DEF DispatchSplit
    <3>2. CASE ~DispatchSplit(b)
      BY <2>1, <3>2 DEF DispatchFits, DispatchOversize, DispatchSplitFails, Continue
    <3> QED
      BY <3>1, <3>2
  <2>5. InTodo' \subseteq InTodo /\ InQueue' = InQueue /\ InJobs' = InJobs
    BY <2>2, <2>4 DEF InTodo, InQueue, InJobs
  <2> QED
    BY <1>1, <2>2, <2>3, <2>4, <2>5 DEF Flows, InSender
<1>7. CASE HandOffSend \/ HandOffAbandon
  <2>1. /\ UNCHANGED <<queue, buf, todo>> /\ hand' = {} /\ spc = "handOff"
        /\ jobs' = jobs \/ jobs' = Append(jobs, hand)
    BY <1>7 DEF HandOffSend, HandOffAbandon, Continue, OtherThanBatch
  <2>2. hand \in Batches
    BY <1>1, <2>1 DEF SenderType, Batches
  <2>3. InTodo' = InTodo /\ InQueue' = InQueue
    BY <2>1 DEF InTodo, InQueue
  <2>4. InJobs' \subseteq InJobs \cup hand
    <3>1. CASE jobs' = jobs
      BY <3>1 DEF InJobs
    <3> QED
      BY <1>1, <2>1, <2>2, <3>1, JobsGrow
  <2> QED
    BY <1>1, <2>1, <2>3, <2>4 DEF Flows, InSender
<1> QED
  BY <1>3, <1>4, <1>5, <1>6, <1>7 DEF Sender

\* A worker takes batches from the job channel and splits or resolves them.
LEMMA WorkerFlows ==
    ASSUME TypeOK, Ownership, NEW w \in Workers, Worker(w)
    PROVE  Flows({})
<1>1. /\ UNCHANGED <<queue, buf, todo, hand>> /\ Distinct
      /\ work \in [Workers -> SUBSET Batches]
  BY DEF Worker, Upload, callVars, senderVars, batchVars, TypeOK, WorkerType, Ownership
<1>2. InQueue' = InQueue /\ InSender' = InSender
  BY <1>1 DEF InQueue, InSender, InTodo
<1>3. CASE WorkerReceive(w)
  <2>1. /\ jobs # <<>> /\ jobs' = Tail(jobs)
        /\ work' = [work EXCEPT ![w] = {Head(jobs)}]
    BY <1>3 DEF WorkerReceive
  <2>2. InJobs = InJobs' \cup Head(jobs)
    BY <1>1, <2>1, JobsTail
  <2> QED
    BY <1>1, <1>2, <2>1, <2>2 DEF Flows
<1>4. CASE WorkerExit(w) \/ UploadComplete(w)
  <2>1. UNCHANGED <<jobs, work>>
    BY <1>4 DEF WorkerExit, UploadComplete
  <2> QED
    BY <1>2, <2>1 DEF Flows, InJobs
<1>5. CASE Upload(w)
  <2>1. jobs' = jobs
    BY <1>5 DEF Upload, UploadSent, UploadRejected, UploadOversize, UploadSplit,
       UploadSplitFails, UploadCancelled, Resolve
  <2>2. /\ \A v \in Workers \ {w} : work'[v] = work[v]
        /\ \A b \in work'[w] : \E a \in work[w] : b \subseteq a
    <3>1. CASE UploadSplit(w)
      <4>1. PICK b \in work[w] : \E h \in Halves(b) : work' = [work EXCEPT ![w] = Halved(@, b, h)]
        BY <3>1 DEF UploadSplit
      <4>2. \A x, y \in work[w] : x = y \/ x \cap y = {}
        BY <1>1 DEF Distinct
      <4>3. PICK h \in Halves(b) : work' = [work EXCEPT ![w] = Halved(@, b, h)]
        BY <4>1
      <4>4. \A q \in Halved(work[w], b, h) : \E p \in work[w] : q \subseteq p
        BY <4>2, HalvedPieces
      <4> QED
        BY <1>1, <4>3, <4>4
    <3>2. CASE ~UploadSplit(w)
      BY <1>1, <1>5, <3>2 DEF Upload, UploadSent, UploadRejected, UploadOversize,
         UploadSplitFails, UploadCancelled, Resolve
    <3> QED
      BY <3>1, <3>2
  <2> QED
    BY <1>2, <2>1, <2>2 DEF Flows, InJobs
<1> QED
  BY <1>3, <1>4, <1>5 DEF Worker

\* Records that are past a place stay past it.
LEMMA FlowsOn ==
    ASSUME NEW f \in Flushes, NEW new, Flows(new), new \cap before[f] = {},
           before'[f] = before[f]
    PROVE  /\ Passed(f) => Passed(f)'
           /\ Lags(f) => Lags(f)'
<1>1. Passed(f) => Passed(f)'
  BY DEF Passed, Flows
<1>2. ASSUME Lags(f) PROVE before[f] \cap InJobs' = {} /\ Spared(f)'
  <2>1. before[f] \cap (InJobs \cup hand) = {}
    BY <1>2 DEF Lags, Passed, InSender
  <2>2. PICK w \in Workers : \A b \in work[w] : b \cap before[f] = {}
    BY <1>2 DEF Lags, Spared
  <2>3. \A b \in work'[w] : b \cap before[f] = {}
    BY <2>1, <2>2 DEF Flows
  <2> QED
    BY <2>1, <2>3 DEF Flows, Spared
<1> QED
  BY <1>1, <1>2 DEF Lags

-----------------------------------------------------------------------------
(* Every answer is given behind its records.                               *)

\* What Awaited rests on.
Counting == Accounted /\ Clock /\ Down /\ PoolCounts /\ Called

\* With no batch in the job channel and none with a worker, only the sender and
\* the queue can still hold a record.
LEMMA IdlePool ==
    ASSUME Accounted, NEW f \in Flushes, Passed(f), jobs = <<>>,
           \A w \in Workers : wpc[w] # "upload"
    PROVE  Lags(f)
<1>1. InJobs = {}
  BY DEF InJobs
<1>2. \A w \in Workers : work[w] = {}
  BY DEF Accounted, Ownership, Phases
<1>3. \E w \in Workers : TRUE
  BY ClientAssumption
<1> QED
  BY <1>1, <1>2, <1>3 DEF Lags, Spared

\* The workers' part in PoolCounts.
LEMMA UploadsCounted ==
    ASSUME TypeOK
    PROVE  /\ Cardinality(Uploading) \in Nat /\ Len(jobs) \in Nat
           /\ completed \in Nat /\ dispatched \in Nat
           /\ DOMAIN jobs = 1 .. Len(jobs)
           /\ (Cardinality(Uploading) = 0 => \A w \in Workers : wpc[w] # "upload")
           /\ (Len(jobs) = 0 => jobs = <<>>)
<1>1. IsFiniteSet(Uploading)
  BY ClientAssumption, FS_Subset DEF Uploading
<1>2. Cardinality(Uploading) \in Nat /\ (Cardinality(Uploading) = 0 => Uploading = {})
  BY <1>1, FS_CardinalityType, FS_EmptySet
<1>3. jobs \in Seq(Batches) /\ completed \in Nat /\ dispatched \in Nat
  BY DEF TypeOK, WorkerType, PoolType
<1>4. Len(jobs) \in Nat /\ DOMAIN jobs = 1 .. Len(jobs) /\ (Len(jobs) = 0 => jobs = <<>>)
  BY <1>3, EmptySeq, LenProperties
<1> QED
  BY <1>2, <1>3, <1>4 DEF Uploading

\* The batches still in the channel are no further from the end when the counts
\* of the pool have not moved.
LEMMA WithinStands ==
    ASSUME NEW f \in Flushes, NEW n, Within(f, n), UNCHANGED <<jobs, completed, wpc>>,
           before'[f] = before[f]
    PROVE  Within(f, n)'
BY DEF Within, Uploading

\* await: the flush has its answer, or waits for every batch dispatched so far.
LEMMA AwaitAwaits ==
    ASSUME Counting, Awaited, Await, UNCHANGED OtherThanSender
    PROVE  Awaited'
<1>1. /\ spc = "await" /\ sctx \in Flushes /\ resume = "select" /\ buf = {}
      /\ todo = {} /\ hand = {} /\ spc' = "select" /\ resume' = resume
      /\ reply \in [Flushes -> Seq({"nil", "err"})] /\ ~poolClosed
      /\ TypeOK /\ Ownership /\ waiters \subseteq [flush : Flushes, target : Nat]
      /\ before[sctx] \cap InQueue = {}
  BY DEF Await, Counting, Accounted, TypeOK, SenderType, PoolType, Ownership, Phases, Clock,
     Called, Awaited
<1>2. Passed(sctx)
  BY <1>1 DEF Passed, InSender, InTodo
<1>3. /\ UNCHANGED <<jobs, completed, dispatched, wpc, work, before>>
      /\ UNCHANGED <<queue, buf, todo, hand>>
  BY DEF Await, OtherThanSender
<1>4. /\ UNCHANGED <<InQueue, InSender, InJobs>>
      /\ \A f \in Flushes : /\ Passed(f)' = Passed(f) /\ Lags(f)' = Lags(f)
  BY <1>3 DEF InQueue, InSender, InTodo, InJobs, Passed, Lags, Spared
<1>5. \A x \in waiters : x.flush \in Flushes /\ Passed(x.flush)' /\ Within(x.flush, x.target)'
  <2>1. SUFFICES ASSUME NEW x \in waiters
                 PROVE  x.flush \in Flushes /\ Passed(x.flush)' /\ Within(x.flush, x.target)'
    OBVIOUS
  <2>2. x.flush \in Flushes /\ Passed(x.flush) /\ Within(x.flush, x.target)
    BY <1>1 DEF Awaited
  <2> QED
    BY <1>3, <1>4, <2>2, WithinStands
<1>6. dispatched = completed + Len(jobs) + Cardinality(Uploading)
  <2>1. dispatched + 0 = completed + Len(jobs) + Cardinality(Uploading)
    BY <1>1 DEF Counting, PoolCounts, Uploading
  <2> QED
    BY <1>1, <2>1, UploadsCounted
<1>7. CASE Satisfied(completed, dispatched) /\ waiters' = waiters /\ Reply(sctx, perr)
  <2>1. Len(jobs) = 0 /\ Cardinality(Uploading) = 0
    <3> DEFINE c == Cardinality(Uploading)
               l == Len(jobs)
    <3>1. /\ c \in Nat /\ l \in Nat /\ completed \in Nat /\ dispatched \in Nat
          /\ dispatched = completed + l + c /\ completed >= dispatched
      BY <1>1, <1>6, <1>7, UploadsCounted DEF Satisfied
    <3> HIDE DEF c, l
    <3>2. c = 0 /\ l = 0
      BY <3>1
    <3> QED
      BY <3>2 DEF c, l
  <2>2. Lags(sctx)
    BY <1>1, <1>2, <2>1, UploadsCounted, IdlePool DEF Counting
  <2>3. \A f \in Flushes : f # sctx => reply'[f] = reply[f]
    BY <1>1, <1>7 DEF Reply
  <2> QED
    BY <1>1, <1>4, <1>5, <1>7, <2>2, <2>3 DEF Awaited
<1>8. CASE /\ waiters' = waiters \cup {[flush |-> sctx, target |-> dispatched]}
           /\ reply' = reply
  <2>1. PICK g \in Flushes, n \in Nat : g = sctx /\ n = dispatched
    BY <1>1, UploadsCounted
  <2>2. Within(g, n)'
    <3>1. SUFFICES ASSUME NEW i \in DOMAIN jobs
                   PROVE  completed + Cardinality(Uploading) + i <= dispatched
      BY <1>3, <2>1 DEF Within, Uploading
    <3> DEFINE c == Cardinality(Uploading)
    <3>2. /\ c \in Nat /\ Len(jobs) \in Nat /\ completed \in Nat
          /\ dispatched = completed + Len(jobs) + c /\ i \in 1 .. Len(jobs)
      BY <1>1, <1>6, <3>1, UploadsCounted
    <3> HIDE DEF c
    <3>3. completed + c + i <= dispatched
      BY <3>2
    <3> QED
      BY <3>3 DEF c
  <2>3. \A f \in Flushes : reply'[f] # <<>> => Lags(f)'
    BY <1>4, <1>8 DEF Awaited
  <2>4. \A x \in waiters' : Passed(x.flush)' /\ Within(x.flush, x.target)'
    <3>1. Passed(g)' /\ Within(g, n)'
      BY <1>2, <1>4, <2>2, <2>1
    <3>2. \A x \in waiters' : x \in waiters \/ (x.flush = g /\ x.target = n)
      BY <1>8, <2>1
    <3> QED
      BY <1>5, <3>1, <3>2
  <2> QED
    BY <1>1, <2>3, <2>4 DEF Awaited
<1> QED
  BY <1>1, <1>7, <1>8 DEF Await

\* Any other step of the sender: what it passes on is of no flush that is waiting
\* or answered.
LEMMA SenderAwaits ==
    ASSUME Counting, Awaited, Sender
    PROVE  Awaited'
<1>1. /\ UNCHANGED <<before, wpc, completed, work>> /\ TypeOK /\ Ownership
      /\ waiters \subseteq [flush : Flushes, target : Nat] /\ PoolType /\ Accounted
      /\ resume \in {"select", "drain", "await", "stop"}
      /\ (spc \in {"dispatch", "handOff", "record"} \/ resume = "select")
  BY DEF Sender, OtherThanSender, Counting, Accounted, TypeOK, PoolType, SenderType
<1>2. /\ Flows({})
      /\ \A f \in Flushes : (Passed(f) => Passed(f)') /\ (Lags(f) => Lags(f)')
  BY <1>1, SenderFlows, FlowsOn
<1>3. CASE Await
  BY <1>3, AwaitAwaits DEF Sender
<1>4. CASE SenderJoined
  <2>1. /\ spc' = "exiting" /\ UNCHANGED <<jobs, sctx, resume>> /\ resume = "select"
        /\ Signal(completed, TRUE, perr) /\ \A w \in Workers : wpc[w] = "exited"
    BY <1>1, <1>4 DEF SenderJoined, batchVars
  <2>2. jobs = <<>>
    BY <2>1, ClientAssumption DEF Counting, Down
  <2>3. /\ waiters' = {}
        /\ \A f \in Flushes : reply'[f] # reply[f] => \E x \in waiters : x.flush = f
    <3>1. /\ waiters' = {x \in waiters : ~(Satisfied(completed, x.target) \/ TRUE)}
          /\ \A f \in Flushes : reply'[f] # reply[f] =>
               \E x \in waiters : x.flush = f /\ (Satisfied(completed, x.target) \/ TRUE)
      BY <1>1, <2>1, SignalAnswers
    <3> QED
      BY <3>1
  <2>4. ASSUME NEW f \in Flushes, reply'[f] # <<>> PROVE Lags(f)'
    <3>1. CASE reply'[f] = reply[f]
      BY <1>2, <2>4, <3>1 DEF Awaited
    <3>2. CASE reply'[f] # reply[f]
      <4>1. Passed(f)
        BY <2>3, <3>2 DEF Awaited
      <4>2. Lags(f)
        BY <1>1, <2>1, <2>2, <4>1, IdlePool
      <4> QED
        BY <1>2, <4>2
    <3> QED
      BY <3>1, <3>2
  <2> QED
    BY <2>1, <2>3, <2>4 DEF Awaited
<1>5. CASE ~(Await \/ SenderJoined)
  <2>1. UNCHANGED <<waiters, reply>>
    BY <1>5 DEF Sender, SelectReceive, SelectTimer, SelectShutdown, SelectFlush, DrainReceive,
       DrainFinish, Dispatch, HandOffSend, RecordDispatch, HandOffAbandon, SenderStop, SenderExit,
       OtherThanBatch
  <2>2. ASSUME NEW x \in waiters PROVE Passed(x.flush)' /\ Within(x.flush, x.target)'
    <3>1. /\ x.flush \in Flushes /\ Passed(x.flush) /\ Within(x.flush, x.target)
          /\ Passed(x.flush)'
      BY <1>1, <1>2 DEF Awaited
    <3>2. CASE jobs' = jobs
      BY <1>1, <3>1, <3>2, WithinStands
    <3>3. CASE HandOffSend
      <4>1. /\ hand \in Batches /\ jobs \in Seq(Batches) /\ jobs' = Append(jobs, hand)
        BY <1>1, <3>3 DEF HandOffSend, TypeOK, SenderType, WorkerType, Batches
      <4>2. hand \cap before[x.flush] = {}
        BY <3>1 DEF Passed, InSender
      <4>3. \A i \in DOMAIN jobs' :
              jobs'[i] = hand \/ (i \in DOMAIN jobs /\ jobs'[i] = jobs[i])
        BY <4>1, JobsGrow
      <4>4. Within(x.flush, x.target)'
        BY <1>1, <3>1, <4>2, <4>3 DEF Within, Uploading
      <4> QED
        BY <3>1, <4>4
    <3>4. jobs' = jobs \/ HandOffSend
      BY <1>5 DEF Sender, SelectReceive, SelectTimer, SelectShutdown, SelectFlush, DrainReceive,
         DrainFinish, Dispatch, RecordDispatch, HandOffAbandon, SenderStop, SenderExit,
         OtherThanBatch
    <3> QED
      BY <3>2, <3>3, <3>4
  <2>3. ASSUME spc' = "await" \/ resume' = "await" PROVE before[sctx'] \cap InQueue' = {}
    <3>1. CASE DrainFinish
      BY <3>1 DEF DrainFinish, Drained, InQueue
    <3>2. CASE ~DrainFinish
      <4>1. CASE SelectReceive \/ SelectTimer \/ SelectShutdown \/ DrainReceive
                 \/ (\E f \in Flushes : SelectFlush(f)) \/ SenderStop \/ SenderExit
        <5>1. spc' # "await" /\ resume' # "await"
          BY <1>1, <4>1 DEF SelectReceive, SelectTimer, SelectShutdown, SelectFlush,
             DrainReceive, Accumulate, Flush, SenderStop, SenderExit, batchVars
        <5> QED
          BY <2>3, <5>1
      <4>2. CASE Dispatch \/ HandOffSend \/ RecordDispatch \/ HandOffAbandon
        <5>1. sctx' = sctx /\ queue' = queue /\ resume = "await"
          BY <2>3, <4>2 DEF Dispatch, DispatchFits, DispatchSplit, DispatchOversize,
             DispatchSplitFails, HandOffSend, RecordDispatch, HandOffAbandon, Continue
        <5> QED
          BY <5>1 DEF Awaited, InQueue
      <4> QED
        BY <1>5, <3>2, <4>1, <4>2 DEF Sender
    <3> QED
      BY <3>1, <3>2
  <2> QED
    BY <1>1, <1>2, <2>1, <2>2, <2>3 DEF Awaited
<1> QED
  BY <1>3, <1>4, <1>5

\* A worker that receives a batch brings those behind it nearer; one that completes
\* its batch has none, and answers a flush only when no batch of its records is left
\* in the channel (complete, signalLocked).
LEMMA WorkerAwaits ==
    ASSUME Counting, Awaited, NEW w \in Workers, Worker(w)
    PROVE  Awaited'
<1>1. /\ UNCHANGED <<before, queue, spc, sctx, resume>> /\ TypeOK /\ Ownership /\ Distinct
      /\ waiters \subseteq [flush : Flushes, target : Nat] /\ PoolType /\ Accounted
      /\ wpc \in [Workers -> {"idle", "upload", "exited"}] /\ jobs \in Seq(Batches)
      /\ IsFiniteSet(Uploading)
  BY ClientAssumption, FS_Subset DEF Worker, Upload, callVars, senderVars, batchVars, flushVars,
     Counting, Accounted, TypeOK, PoolType, WorkerType, Ownership, Uploading
<1>2. /\ \A f \in Flushes : (Passed(f) => Passed(f)') /\ (Lags(f) => Lags(f)')
      /\ InQueue' = InQueue
  BY <1>1, WorkerFlows, FlowsOn DEF InQueue
<1>3. /\ Cardinality(Uploading) \in Nat /\ Len(jobs) \in Nat
      /\ completed \in Nat /\ DOMAIN jobs = 1 .. Len(jobs)
  BY <1>1, UploadsCounted
<1>4. ASSUME UNCHANGED <<waiters, reply>>,
             \A f \in Flushes : \A n \in Nat : Within(f, n) => Within(f, n)'
      PROVE  Awaited'
  <2>1. \A x \in waiters : x.flush \in Flushes /\ x.target \in Nat
    BY <1>1
  <2> QED
    BY <1>1, <1>2, <1>4, <2>1 DEF Awaited
<1>5. CASE WorkerReceive(w)
  <2>1. /\ wpc[w] = "idle" /\ wpc' = [wpc EXCEPT ![w] = "upload"] /\ jobs # <<>>
        /\ jobs' = Tail(jobs) /\ UNCHANGED <<completed, waiters, reply>>
    BY <1>5 DEF WorkerReceive, poolVars
  <2>2. Uploading' = Uploading \cup {w} /\ w \notin Uploading
    BY <1>1, <2>1 DEF Uploading
  <2>3. Cardinality(Uploading') = Cardinality(Uploading) + 1
    BY <1>1, <2>2, FS_AddElement
  <2>4. \A i \in DOMAIN jobs' : i \in Nat /\ i + 1 \in DOMAIN jobs /\ jobs'[i] = jobs[i + 1]
    <3>1. Len(jobs) > 0
      BY <1>1, <2>1, EmptySeq
    <3>2. /\ Tail(jobs) \in Seq(Batches) /\ Len(Tail(jobs)) = Len(jobs) - 1
          /\ \A i \in 1 .. Len(jobs) - 1 : Tail(jobs)[i] = jobs[i + 1]
      BY <1>1, <1>3, <3>1
    <3>3. DOMAIN jobs' = 1 .. (Len(jobs) - 1)
      BY <2>1, <3>2
    <3> QED
      BY <1>3, <2>1, <3>2, <3>3
  <2>5. ASSUME NEW f \in Flushes, NEW n \in Nat, Within(f, n) PROVE Within(f, n)'
    <3> DEFINE c == Cardinality(Uploading)
    <3>1. SUFFICES ASSUME NEW i \in DOMAIN jobs', jobs'[i] \cap before[f] # {}
                   PROVE  completed + (c + 1) + i <= n
      BY <1>1, <2>1, <2>3 DEF Within
    <3>2. i \in Nat /\ completed + c + (i + 1) <= n
      BY <2>4, <2>5, <3>1 DEF Within
    <3>3. c \in Nat
      BY <1>3
    <3> HIDE DEF c
    <3> QED
      BY <1>3, <3>2, <3>3
  <2> QED
    BY <1>4, <2>1, <2>5
<1>6. CASE WorkerExit(w) \/ Upload(w)
  <2>1. /\ UNCHANGED <<jobs, completed, waiters, reply>> /\ Uploading' = Uploading
    <3>1. CASE WorkerExit(w)
      <4>1. wpc[w] = "idle" /\ wpc' = [wpc EXCEPT ![w] = "exited"]
        BY <3>1 DEF WorkerExit
      <4>2. Uploading' = Uploading
        BY <1>1, <4>1 DEF Uploading
      <4> QED
        BY <3>1, <4>2 DEF WorkerExit, poolVars
    <3>2. CASE Upload(w)
      BY <3>2 DEF Upload, UploadSent, UploadRejected, UploadOversize, UploadSplit,
         UploadSplitFails, UploadCancelled, Resolve, poolVars, Uploading
    <3> QED
      BY <1>6, <3>1, <3>2
  <2>2. \A f \in Flushes : \A n \in Nat : Within(f, n) => Within(f, n)'
    BY <1>1, <2>1 DEF Within
  <2> QED
    BY <1>4, <2>1, <2>2
<1>7. CASE UploadComplete(w)
  <2>1. /\ wpc[w] = "upload" /\ work[w] = {} /\ wpc' = [wpc EXCEPT ![w] = "idle"]
        /\ completed' = completed + 1 /\ UNCHANGED <<jobs, work>>
        /\ Signal(completed + 1, poolClosed, FirstError(perr, werr[w]))
    BY <1>7 DEF UploadComplete
  <2>2. ~poolClosed
    BY <2>1 DEF Counting, Called, Accounted, Joined
  <2>3. Uploading' = Uploading \ {w} /\ w \in Uploading
    BY <1>1, <2>1 DEF Uploading
  <2> DEFINE c == Cardinality(Uploading)
  <2>4. c' = c - 1 /\ c # 0
    BY <1>1, <2>3, FS_RemoveElement, FS_EmptySet
  <2>5. /\ waiters' \subseteq waiters
        /\ \A f \in Flushes : reply'[f] # reply[f] =>
             \E x \in waiters : x.flush = f /\ x.target <= completed + 1
    <3>1. /\ waiters' = {x \in waiters : ~(Satisfied(completed + 1, x.target) \/ poolClosed)}
          /\ \A f \in Flushes : reply'[f] # reply[f] =>
               \E x \in waiters : x.flush = f /\ (Satisfied(completed + 1, x.target) \/ poolClosed)
      BY <1>1, <2>1, SignalAnswers
    <3>2. \A x \in waiters : Satisfied(completed + 1, x.target) => x.target <= completed + 1
      BY <1>1, <1>3 DEF Satisfied
    <3> QED
      BY <2>2, <3>1, <3>2
  <2>6. c \in Nat
    BY <1>3
  <2> HIDE DEF c
  <2>7. completed' + c' = completed + c
    BY <1>3, <2>1, <2>4, <2>6
  <2>8. ASSUME NEW x \in waiters' PROVE Passed(x.flush)' /\ Within(x.flush, x.target)'
    <3>1. x.flush \in Flushes /\ Passed(x.flush) /\ Within(x.flush, x.target)
      BY <1>1, <2>5, <2>8 DEF Awaited
    <3>2. Within(x.flush, x.target)'
      BY <1>1, <2>1, <2>7, <3>1 DEF Within, c
    <3> QED
      BY <1>2, <3>1, <3>2
  <2>9. ASSUME NEW f \in Flushes, reply'[f] # <<>> PROVE Lags(f)'
    <3>1. CASE reply'[f] = reply[f]
      BY <1>2, <2>9, <3>1 DEF Awaited
    <3>2. CASE reply'[f] # reply[f]
      <4>1. PICK x \in waiters : x.flush = f /\ x.target <= completed + 1
        BY <2>5, <3>2
      <4>2. x.target \in Nat /\ Passed(f) /\ Within(f, x.target)
        BY <1>1, <4>1 DEF Awaited
      <4>3. ASSUME NEW i \in DOMAIN jobs PROVE jobs[i] \cap before[f] = {}
        <5>1. jobs[i] \cap before[f] # {} => completed + c + i <= x.target
          BY <4>2, <4>3 DEF Within, c
        <5>2. i \in Nat /\ i >= 1
          BY <1>3, <4>3
        <5>3. ~(completed + c + i <= x.target)
          BY <1>3, <2>4, <2>6, <4>1, <4>2, <5>2
        <5> QED
          BY <5>1, <5>3
      <4>4. before[f] \cap InJobs = {} /\ Spared(f)
        BY <2>1, <4>3 DEF InJobs, Spared
      <4> QED
        BY <1>2, <4>2, <4>4 DEF Lags
    <3> QED
      BY <3>1, <3>2
  <2> QED
    BY <1>1, <1>2, <2>8, <2>9 DEF Awaited
<1> QED
  BY <1>5, <1>6, <1>7 DEF Worker

\* Awaited holds in every reachable state.
LEMMA AwaitedInvariant == Spec => []Awaited
<1>1. Init => Awaited
  BY DEF Init, Fresh, Awaited
<1>2. Accounted /\ Clock /\ Down /\ PoolCounts /\ Called /\ Awaited /\ [Next]_vars => Awaited'
  <2> SUFFICES ASSUME Accounted, Clock, Down, PoolCounts, Called, Awaited, [Next]_vars
               PROVE  Awaited'
    OBVIOUS
  <2>0. /\ Counting /\ TypeOK /\ CallType /\ waiters \subseteq [flush : Flushes, target : Nat]
        /\ (spc = "await" \/ resume = "await" => sctx \in Flushes)
        /\ Closer \in Flushes /\ Callers \subseteq Flushes /\ before \in [Flushes -> SUBSET Records]
    BY DEF Counting, Accounted, TypeOK, PoolType, SenderType, FlushType, Flushes
  <2>1. ASSUME UNCHANGED <<senderVars, workerVars, poolVars>>,
               NEW new, InQueue' \subseteq InQueue \cup new,
               \A f \in Flushes : new \cap before[f] = {}, UNCHANGED before
        PROVE  Awaited'
    <3>1. UNCHANGED <<spc, sctx, resume, buf, todo, hand, jobs, wpc, work, completed, waiters, reply>>
      BY <2>1 DEF senderVars, batchVars, workerVars, poolVars
    <3>2. Flows(new)
      BY <2>1, <3>1 DEF Flows, InSender, InTodo, InJobs
    <3>3. \A f \in Flushes : (Passed(f) => Passed(f)') /\ (Lags(f) => Lags(f)')
      BY <2>1, <3>2, FlowsOn
    <3>4. \A f \in Flushes : \A n \in Nat : Within(f, n) => Within(f, n)'
      BY <2>1, <3>1 DEF Within, Uploading
    <3>5. \A x \in waiters : x.flush \in Flushes /\ x.target \in Nat
      BY <2>0
    <3> QED
      BY <2>0, <2>1, <3>1, <3>3, <3>4, <3>5 DEF Awaited
  <2>2. ASSUME NEW r \in Records, Enqueue(r) PROVE Awaited'
    <3>1. InQueue' \subseteq InQueue \cup {r}
      BY <2>0, <2>2, QueueGrows
    <3>2. call[r] \in {"idle", "admitted", "offering"}
      BY <2>2 DEF Enqueue, EnqueueEntry, EnqueueClosed, EnqueueBurst, EnqueuePrecheck,
         EnqueueEncodeFails, EnqueueOversize, EnqueueEncode, EnqueueSend
    <3>3. \A f \in Flushes : {r} \cap before[f] = {}
      BY <3>2 DEF Called
    <3>4. UNCHANGED <<senderVars, workerVars, poolVars, before>>
      BY <2>2 DEF Enqueue, flushVars
    <3> QED
      BY <2>1, <3>1, <3>3, <3>4
  <2>3. CASE TimerFires
    <3>1. /\ UNCHANGED <<spc, sctx, resume, buf, todo, hand, jobs, wpc, work, completed, waiters>>
          /\ UNCHANGED <<reply, queue, before>>
      BY <2>3 DEF TimerFires, callVars, batchVars, workerVars, poolVars, flushVars
    <3>2. /\ InQueue' = InQueue
          /\ \A f \in Flushes : Passed(f)' = Passed(f) /\ Lags(f)' = Lags(f)
      BY <3>1 DEF InQueue, InSender, InTodo, InJobs, Passed, Lags, Spared
    <3>3. \A f \in Flushes : \A n \in Nat : Within(f, n) => Within(f, n)'
      BY <3>1 DEF Within, Uploading
    <3>4. \A x \in waiters : x.flush \in Flushes /\ x.target \in Nat
      BY <2>0
    <3> QED
      BY <2>0, <3>1, <3>2, <3>3, <3>4 DEF Awaited
  <2>4. CASE \/ Terminated \/ UNCHANGED vars \/ CloseStep
             \/ \E f \in Flushes : FlushStep(f) \/ (Expire(f) /\ UNCHANGED OtherThanFlush)
    <3>1. UNCHANGED <<senderVars, workerVars, poolVars, queue, before>>
      BY <2>4 DEF Terminated, vars, CloseStep, CloseShutdown, CloseStopped, CloseTimeout,
         CloseAborted, CloseLeftover, FlushStep, FlushSenderGone, FlushReplied, FlushCtxDone,
         FlushReturn, Expire, OtherThanFlush, callVars, flushVars
    <3> DEFINE none == {}
    <3>2. InQueue' \subseteq InQueue \cup none
      BY <3>1 DEF InQueue
    <3>3. \A f \in Flushes : none \cap before[f] = {}
      OBVIOUS
    <3>4. UNCHANGED <<senderVars, workerVars, poolVars>> /\ UNCHANGED before
      BY <3>1
    <3> HIDE DEF none
    <3> QED
      BY <2>1, <3>2, <3>3, <3>4
  <2>5. CASE Call
    <3>1. /\ UNCHANGED <<spc, sctx, resume, buf, todo, hand, jobs, wpc, work, completed, waiters>>
          /\ UNCHANGED <<reply, queue>>
      BY <2>5 DEF Call, OtherThanFlush, callVars, senderVars, batchVars, workerVars, poolVars
    <3>2. PICK g \in Flushes : fpc[g] = "idle" /\ before' = [before EXCEPT ![g] = Returned]
      BY <2>0, <2>5 DEF Call, CloseBegin, FlushCall, Called
    <3>3. sctx # g /\ reply[g] = <<>> /\ \A x \in waiters : x.flush # g
      BY <3>2 DEF Called
    <3>4. \A f \in Flushes : f # g => before'[f] = before[f]
      BY <2>0, <3>2
    <3>5. /\ InQueue' = InQueue
          /\ \A f \in Flushes : f # g => Passed(f)' = Passed(f) /\ Lags(f)' = Lags(f)
      BY <3>1, <3>4 DEF InQueue, InSender, InTodo, InJobs, Passed, Lags, Spared
    <3>6. \A f \in Flushes : \A n \in Nat : f # g /\ Within(f, n) => Within(f, n)'
      BY <3>1, <3>4 DEF Within, Uploading
    <3>7. \A x \in waiters : x.flush \in Flushes /\ x.target \in Nat
      BY <2>0
    <3>8. spc' = "await" \/ resume' = "await" => before'[sctx'] \cap InQueue' = {}
      BY <2>0, <3>1, <3>3, <3>4, <3>5 DEF Awaited
    <3>9. ASSUME NEW x \in waiters PROVE Passed(x.flush)' /\ Within(x.flush, x.target)'
      <4> DEFINE h == x.flush
                 n == x.target
      <4>1. h \in Flushes /\ n \in Nat /\ h # g
        BY <3>3, <3>7
      <4>2. Passed(h) /\ Within(h, n)
        BY DEF Awaited
      <4> HIDE DEF h, n
      <4>3. \A f \in Flushes : \A k \in Nat :
              f = h /\ k = n => Passed(f)' /\ Within(f, k)'
        BY <3>5, <3>6, <4>1, <4>2
      <4> QED
        BY <3>5, <3>6, <4>1, <4>2 DEF h, n
    <3>10. ASSUME NEW f \in Flushes, reply'[f] # <<>> PROVE Lags(f)'
      <4>1. reply[f] # <<>> /\ f # g
        BY <3>1, <3>3, <3>10
      <4> QED
        BY <3>5, <4>1 DEF Awaited
    <3> QED
      BY <3>1, <3>8, <3>9, <3>10 DEF Awaited
  <2> QED
    BY <2>0, <2>2, <2>3, <2>4, <2>5, SenderAwaits, WorkerAwaits DEF Next
<1> QED
  BY <1>1, <1>2, AccountedInvariant, ClockInvariant, DownInvariant, CountsAgree, CalledInvariant,
     PTL DEF Spec

\* What a verdict of Flush is worth, for any number of records, callers, workers and
\* faults: every record whose Enqueue had returned before the call is out of the
\* queue, the sender and the job channel, and the workers still busy with one of
\* them are fewer than all; with MaxInFlight 1 there is none (sender.go, await,
\* complete and signalLocked).
THEOREM FlushLagBounded == Spec => []FlushLag
<1>1. Called /\ Awaited => FlushLag
  <2> SUFFICES ASSUME Called, Awaited, NEW f \in Flushes, result[f] \in {"nil", "err"}
               PROVE  /\ before[f] \cap (InQueue \cup InSender \cup InJobs) = {}
                      /\ Cardinality({w \in Workers : \E b \in work[w] : b \cap before[f] # {}})
                           < Cardinality(Workers)
    BY DEF FlushLag
  <2>1. Lags(f)
    BY DEF Called, Awaited
  <2>2. PICK w \in Workers : \A b \in work[w] : b \cap before[f] = {}
    BY <2>1 DEF Lags, Spared
  <2> DEFINE busy == {v \in Workers : \E b \in work[v] : b \cap before[f] # {}}
  <2>3. busy \subseteq Workers \ {w}
    BY <2>2
  <2> HIDE DEF busy
  <2>4. IsFiniteSet(Workers \ {w}) /\ Cardinality(Workers \ {w}) = Cardinality(Workers) - 1
    BY ClientAssumption, FS_RemoveElement
  <2>5. Cardinality(busy) <= Cardinality(Workers \ {w}) /\ IsFiniteSet(busy)
    BY <2>3, <2>4, FS_Subset
  <2>6. Cardinality(busy) \in Nat
    BY <2>5, FS_CardinalityType
  <2>7. Cardinality(busy) < Cardinality(Workers)
    BY <2>4, <2>5, <2>6, WorkersFinite
  <2> QED
    BY <2>1, <2>7 DEF Lags, Passed, busy
<1> QED
  BY <1>1, CalledInvariant, AwaitedInvariant, PTL
=============================================================================
