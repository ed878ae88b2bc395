---------------------------- MODULE ClientProofs ----------------------------
(***************************************************************************)
(* Proofs about Client, for every value of its constants: its types, the   *)
(* conservation law of the pipeline - no record is ever counted twice, and *)
(* none is lost -, and that the pipeline implements the ledger.            *)
(***************************************************************************)
EXTENDS Client, FiniteSetTheorems, SequenceTheorems, TLAPS

(* Facts about the operators the model is built from.                      *)

\* A batch of at least two records is halved into two batches: neither side is
\* empty, whatever records it holds (client.go, packer.split).
LEMMA HalvesAreBatches ==
    ASSUME NEW b \in SUBSET Records, Cardinality(b) > 1, NEW h \in Halves(b)
    PROVE  h \in Batches /\ b \ h \in Batches /\ h \subseteq b
<1>1. IsFiniteSet(Records)
  BY ClientAssumption
<1>2. IsFiniteSet(b) /\ IsFiniteSet(h)
  BY <1>1, FS_Subset DEF Halves
<1>3. Cardinality(b) \in Nat /\ Cardinality(h) \in Nat
  BY <1>2, FS_CardinalityType
<1>4. h \subseteq b /\ Cardinality(h) = Cardinality(b) \div 2
  BY DEF Halves
<1>5. 0 < Cardinality(h) /\ Cardinality(h) < Cardinality(b)
  BY <1>3, <1>4
<1>6. h # {}
  BY <1>5, FS_EmptySet
<1>7. b \ h # {}
  <2>1. SUFFICES ASSUME b \ h = {} PROVE FALSE
    OBVIOUS
  <2>2. b = h
    BY <1>4, <2>1
  <2> QED
    BY <2>2, <1>3, <1>5
<1> QED
  BY <1>4, <1>6, <1>7 DEF Batches

\* Filing the records S under a counter leaves every history a sequence of
\* counters, and touches no record outside S.
LEMMA TallyType ==
    ASSUME counted \in [Records -> Seq(Buckets)], NEW S, NEW b \in Buckets
    PROVE  /\ Tally(S, b) \in [Records -> Seq(Buckets)]
           /\ \A r \in Records : r \notin S => Tally(S, b)[r] = counted[r]
           /\ \A r \in Records : r \in S => Tally(S, b)[r] = Append(counted[r], b)
BY DEF Tally

\* MaxInFlight, the number of workers, is a number.
LEMMA WorkersFinite == Cardinality(Workers) \in Nat
BY ClientAssumption, FS_CardinalityType

-----------------------------------------------------------------------------
(* Type correctness.                                                       *)

\* What a flush leaves behind is well typed, whichever way it goes.
LEMMA FlushTyped ==
    ASSUME SenderType, CallType, NEW ctx \in Contexts, NEW b \in SUBSET Records,
           NEW next \in {"select", "drain", "await", "stop"},
           next = "await" => ctx \in Flushes,
           spc \in {"select", "drain"},
           Flush(ctx, b, next),
           armed' \in BOOLEAN, timer' \in {"off", "running", "fired"}
    PROVE  SenderType' /\ counted' \in [Records -> Seq(Buckets)]
<1>1. "rejected" \in Buckets
  BY DEF Buckets
<1>2. Tally(b, "rejected") \in [Records -> Seq(Buckets)]
  BY <1>1, TallyType DEF CallType
<1>3. b # {} => {b} \subseteq Batches
  BY DEF Batches
<1> QED
  BY <1>2, <1>3 DEF Flush, SenderType, CallType, SenderStates

\* The timer's transitions stay in its domain.
LEMMA TimerTyped ==
    ASSUME SenderType, NEW b
    PROVE  ArmedBy(b) \in BOOLEAN /\ TimerBy(b) \in {"off", "running", "fired"}
BY DEF SenderType, ArmedBy, Arms, TimerBy

\* Disarming the timer, whether it fired or not, keeps it in its domain.
LEMMA DisarmTyped ==
    ASSUME NEW a \in BOOLEAN, NEW t \in {"off", "running", "fired"}, Disarm(a, t)
    PROVE  armed' \in BOOLEAN /\ timer' \in {"off", "running", "fired"}
BY DEF Disarm

\* A dispatch step that drops one piece goes back to the run loop in order.
LEMMA ContinueTyped ==
    ASSUME SenderType, NEW rest \in SUBSET Batches, Continue(rest),
           spc \in {"dispatch", "handOff", "record"},
           hand' \in {{}, hand},  UNCHANGED timerVars, spc # "handOff" \/ hand' = {}
    PROVE  SenderType'
BY DEF Continue, SenderType, SenderStates, timerVars

\* A step of Enqueue: the record's count and the queue's capacity are kept
\* (client.go, Enqueue).
LEMMA EnqueueTyped ==
    ASSUME TypeOK, NEW r \in Records, Enqueue(r)
    PROVE  TypeOK'
<1>1. CallType'
  <2> USE DEF CallType, TypeOK, CallStates
  <2>0. \A b \in Buckets : Tally({r}, b) \in [Records -> Seq(Buckets)]
    BY TallyType
  <2>1. {"closed", "burst", "queueFull", "oversize"} \subseteq Buckets
    BY DEF Buckets
  <2>2. CASE EnqueueEntry(r)
    BY <2>2 DEF EnqueueEntry
  <2>3. CASE EnqueueClosed(r)
    BY <2>0, <2>1, <2>3 DEF EnqueueClosed
  <2>4. CASE EnqueueBurst(r)
    BY <2>0, <2>1, <2>4 DEF EnqueueBurst, EnqueueShed
  <2>5. CASE EnqueuePrecheck(r)
    BY <2>0, <2>1, <2>5 DEF EnqueuePrecheck, EnqueueShed
  <2>6. CASE EnqueueEncodeFails(r)
    BY <2>6 DEF EnqueueEncodeFails
  <2>7. CASE EnqueueOversize(r)
    BY <2>0, <2>1, <2>7 DEF EnqueueOversize, EnqueueShed
  <2>8. CASE EnqueueEncode(r)
    BY <2>8 DEF EnqueueEncode
  <2>9. CASE EnqueueSend(r)
    <3>1. QueueSize \in Nat
      BY ClientAssumption
    <3>2. CASE Len(queue) < QueueSize /\ queue' = Append(queue, r) /\ UNCHANGED counted
      <4>1. queue' \in Seq(Records) /\ Len(queue') = Len(queue) + 1
        BY <3>2, AppendProperties
      <4>2. Len(queue) \in Nat
        BY LenProperties
      <4> QED
        BY <2>9, <3>1, <3>2, <4>1, <4>2 DEF EnqueueSend
    <3>3. CASE counted' = Tally({r}, "queueFull") /\ UNCHANGED queue
      BY <2>0, <2>1, <2>9, <3>3 DEF EnqueueSend
    <3> QED
      BY <2>9, <3>2, <3>3 DEF EnqueueSend
  <2> QED
    BY <2>2, <2>3, <2>4, <2>5, <2>6, <2>7, <2>8, <2>9 DEF Enqueue
<1>2. (ChanType /\ SenderType /\ WorkerType /\ PoolType /\ FlushType)'
  BY DEF Enqueue, TypeOK, ChanType, SenderType, WorkerType, PoolType, FlushType,
         chanVars, senderVars, batchVars, timerVars, workerVars, poolVars, flushVars,
         closeVars
<1> QED
  BY <1>1, <1>2 DEF TypeOK

\* Receiving and flushing leave the pool, the workers and every call alone.
LEMMA BatchStepTyped ==
    ASSUME TypeOK, UNCHANGED <<OtherThanSender, OtherThanBatch, fpc>>
    PROVE  (ChanType /\ WorkerType /\ PoolType /\ FlushType)'
BY DEF TypeOK, ChanType, WorkerType, PoolType, FlushType, OtherThanSender,
       OtherThanBatch, closeVars

\* Receiving shortens the queue and adds a record to the batch.
LEMMA ReceiveTyped ==
    ASSUME TypeOK, queue # <<>>, queue' = Tail(queue)
    PROVE  /\ queue' \in Seq(Records) /\ Len(queue') <= QueueSize
           /\ buf \cup {Head(queue)} \in SUBSET Records
<1>1. queue \in Seq(Records) /\ buf \subseteq Records /\ QueueSize \in Nat
  BY ClientAssumption DEF TypeOK, CallType, SenderType
<1>2. Head(queue) \in Records /\ Tail(queue) \in Seq(Records)
  BY <1>1, HeadTailProperties
<1>3. Len(Tail(queue)) = Len(queue) - 1
  BY <1>1, HeadTailProperties
<1>4. Len(queue) <= QueueSize /\ Len(queue) \in Nat
  BY <1>1, LenProperties DEF TypeOK, CallType
<1> QED
  BY <1>1, <1>2, <1>3, <1>4

\* Appending to the batch may arm the timer and nothing else (appendRecord).
LEMMA AccumulateTyped ==
    ASSUME SenderType, NEW b \in SUBSET Records, Accumulate(b)
    PROVE  SenderType' /\ counted' = counted
<1>1. armed' \in BOOLEAN /\ timer' \in {"off", "running", "fired"}
  BY TimerTyped DEF Accumulate
<1> QED
  BY <1>1 DEF Accumulate, SenderType

\* The sender's run loop and drain, up to the packed batch (sender.go, run,
\* drain, flush).
LEMMA BatchTyped ==
    ASSUME TypeOK, UNCHANGED OtherThanSender,
           SelectReceive \/ SelectTimer \/ SelectShutdown \/ DrainReceive \/ DrainFinish
    PROVE  TypeOK'
<1> DEFINE b == buf \cup {Head(queue)}
<1>0. CallType /\ SenderType /\ call' = call /\ enqueued' = enqueued
  BY DEF TypeOK, OtherThanSender
<1>1. ASSUME SelectReceive PROVE TypeOK'
  <2>1. queue' \in Seq(Records) /\ Len(queue') <= QueueSize /\ b \in SUBSET Records
    BY <1>1, ReceiveTyped DEF SelectReceive
  <2>2. SenderType' /\ counted' \in [Records -> Seq(Buckets)]
    <3>1. CASE Accumulate(b)
      BY <1>0, <2>1, <3>1, AccumulateTyped DEF CallType
    <3>2. CASE Disarm(ArmedBy(b), TimerBy(b)) /\ Flush(Background, b, "select")
      <4>1. armed' \in BOOLEAN /\ timer' \in {"off", "running", "fired"}
        <5>1. ArmedBy(b) \in BOOLEAN /\ TimerBy(b) \in {"off", "running", "fired"}
          BY <1>0, TimerTyped
        <5> HIDE DEF b
        <5> QED
          BY <3>2, <5>1, DisarmTyped
      <4>2. Background \in Contexts /\ spc \in {"select", "drain"}
        BY <1>1 DEF Contexts, SelectReceive
      <4> HIDE DEF b
      <4> QED
        BY <1>0, <2>1, <3>2, <4>1, <4>2, FlushTyped
    <3> QED
      BY <1>1, <3>1, <3>2 DEF SelectReceive
  <2>3. (ChanType /\ WorkerType /\ PoolType /\ FlushType)'
    BY <1>1, BatchStepTyped DEF SelectReceive
  <2> QED
    BY <1>0, <2>1, <2>2, <2>3 DEF TypeOK, CallType
<1>2. ASSUME SelectTimer PROVE TypeOK'
  <2>1. Background \in Contexts /\ spc \in {"select", "drain"} /\ buf \in SUBSET Records
    BY <1>0, <1>2 DEF Contexts, SelectTimer, SenderType
  <2>2. SenderType' /\ counted' \in [Records -> Seq(Buckets)]
    BY <1>0, <1>2, <2>1, FlushTyped DEF SelectTimer
  <2>3. (ChanType /\ WorkerType /\ PoolType /\ FlushType)'
    BY <1>2, BatchStepTyped DEF SelectTimer
  <2> QED
    BY <1>0, <1>2, <2>2, <2>3 DEF TypeOK, CallType, SelectTimer
<1>3. ASSUME SelectShutdown PROVE TypeOK'
  <2>1. (ChanType /\ WorkerType /\ PoolType /\ FlushType)'
    BY <1>3, BatchStepTyped DEF SelectShutdown
  <2>2. SenderType'
    BY <1>0, <1>3 DEF SelectShutdown, SenderType, SenderStates, Contexts, timerVars
  <2> QED
    BY <1>0, <1>3, <2>1, <2>2 DEF TypeOK, CallType, SelectShutdown
<1>4. ASSUME DrainReceive PROVE TypeOK'
  <2>1. queue' \in Seq(Records) /\ Len(queue') <= QueueSize /\ b \in SUBSET Records
    BY <1>4, ReceiveTyped DEF DrainReceive
  <2>2. SenderType' /\ counted' \in [Records -> Seq(Buckets)]
    <3>1. CASE Accumulate(b)
      BY <1>0, <2>1, <3>1, AccumulateTyped DEF CallType
    <3>2. CASE /\ armed' = ArmedBy(b) /\ timer' = TimerBy(b)
               /\ Flush(sctx, b, "drain")
      <4>1. armed' \in BOOLEAN /\ timer' \in {"off", "running", "fired"}
        BY <1>0, <3>2, TimerTyped
      <4>2. sctx \in Contexts /\ spc \in {"select", "drain"}
        BY <1>0, <1>4 DEF SenderType, DrainReceive
      <4> HIDE DEF b
      <4> QED
        BY <1>0, <2>1, <3>2, <4>1, <4>2, FlushTyped
    <3> QED
      BY <1>4, <3>1, <3>2 DEF DrainReceive
  <2>3. (ChanType /\ WorkerType /\ PoolType /\ FlushType)'
    BY <1>4, BatchStepTyped DEF DrainReceive
  <2> QED
    BY <1>0, <2>1, <2>2, <2>3 DEF TypeOK, CallType
<1>5. ASSUME DrainFinish PROVE TypeOK'
  <2>1. armed' \in BOOLEAN /\ timer' \in {"off", "running", "fired"}
    BY <1>0, <1>5, DisarmTyped DEF SenderType, DrainFinish
  <2>2. sctx \in Contexts /\ spc \in {"select", "drain"} /\ buf \in SUBSET Records
    BY <1>0, <1>5 DEF SenderType, DrainFinish
  <2> DEFINE next == IF sctx = Background THEN "stop" ELSE "await"
  <2>3. next \in {"select", "drain", "await", "stop"} /\ (next = "await" => sctx \in Flushes)
    BY <2>2 DEF Contexts
  <2>4. Flush(sctx, buf, next)
    BY <1>5 DEF DrainFinish
  <2>5. SenderType' /\ counted' \in [Records -> Seq(Buckets)]
    <3> HIDE DEF next
    <3> QED
      BY <1>0, <2>1, <2>2, <2>3, <2>4, FlushTyped
  <2>6. (ChanType /\ WorkerType /\ PoolType /\ FlushType)'
    BY <1>5, BatchStepTyped DEF DrainFinish
  <2> QED
    BY <1>0, <1>5, <2>5, <2>6 DEF TypeOK, CallType, DrainFinish
<1> QED
  BY <1>1, <1>2, <1>3, <1>4, <1>5

\* Halving one piece of a set of batches leaves batches.
LEMMA HalvedTyped ==
    ASSUME NEW pieces \in SUBSET Batches, NEW b \in pieces, Cardinality(b) > 1,
           NEW h \in Halves(b)
    PROVE  Halved(pieces, b, h) \in SUBSET Batches
<1>1. b \in SUBSET Records
  BY DEF Batches
<1>2. h \in Batches /\ b \ h \in Batches
  BY <1>1, HalvesAreBatches
<1> QED
  BY <1>2 DEF Halved

\* Splitting, counting or handing over one piece (sender.go, dispatch, handOff).
LEMMA DispatchTyped ==
    ASSUME TypeOK, UNCHANGED OtherThanSender, Dispatch \/ HandOffAbandon
    PROVE  TypeOK'
<1>0. CallType /\ SenderType /\ call' = call /\ enqueued' = enqueued
  BY DEF TypeOK, OtherThanSender
<1>1. (ChanType /\ WorkerType /\ PoolType /\ FlushType)' /\ queue' = queue
  BY BatchStepTyped DEF Dispatch, HandOffAbandon
<1>2. SUFFICES SenderType' /\ counted' \in [Records -> Seq(Buckets)]
  BY <1>0, <1>1 DEF TypeOK, CallType
<1>3. CASE Dispatch
  <2> PICK b \in todo : \/ DispatchFits(b) \/ DispatchSplit(b)
                        \/ DispatchOversize(b) \/ DispatchSplitFails(b)
    BY <1>3 DEF Dispatch
  <2>0. /\ spc = "dispatch" /\ UNCHANGED timerVars
        /\ todo \ {b} \in SUBSET Batches /\ b \in Batches
        /\ counted \in [Records -> Seq(Buckets)]
    BY <1>0, <1>3 DEF Dispatch, SenderType, CallType
  <2>1. CASE DispatchFits(b)
    BY <1>0, <2>0, <2>1 DEF DispatchFits, SenderType, SenderStates, Batches, timerVars
  <2>2. CASE DispatchSplit(b)
    <3>1. todo' \in SUBSET Batches
      BY <1>0, <2>2, HalvedTyped DEF DispatchSplit, SenderType
    <3> QED
      BY <1>0, <2>0, <2>2, <3>1 DEF DispatchSplit, SenderType, timerVars
  <2>3. CASE DispatchOversize(b)
    <3>1. SenderType'
      BY <1>0, <2>0, <2>3, ContinueTyped DEF DispatchOversize
    <3> QED
      BY <2>0, <2>3, <3>1, TallyType DEF DispatchOversize, Buckets
  <2>4. CASE DispatchSplitFails(b)
    <3>1. SenderType'
      BY <1>0, <2>0, <2>4, ContinueTyped DEF DispatchSplitFails
    <3> QED
      BY <2>0, <2>4, <3>1, TallyType DEF DispatchSplitFails, Buckets
  <2> QED
    BY <2>1, <2>2, <2>3, <2>4
<1>4. CASE HandOffAbandon
  <2>1. todo \in SUBSET Batches /\ counted \in [Records -> Seq(Buckets)]
    BY <1>0 DEF SenderType, CallType
  <2>2. SenderType'
    BY <1>0, <1>4, <2>1, ContinueTyped DEF HandOffAbandon
  <2> QED
    BY <1>4, <2>1, <2>2, TallyType DEF HandOffAbandon, Abandoned, Buckets
<1> QED
  BY <1>3, <1>4

\* Replying to the satisfied waiters keeps the pool's part of the state typed.
LEMMA SignalTyped ==
    ASSUME PoolType, NEW c, NEW isClosed \in BOOLEAN, NEW e \in BOOLEAN,
           Signal(c, isClosed, e)
    PROVE  /\ waiters' \subseteq [flush : Flushes, target : Nat]
           /\ reply' \in [Flushes -> Seq({"nil", "err"})]
           /\ perr' \in BOOLEAN
<1> DEFINE ready == {x \in waiters : Satisfied(c, x.target) \/ isClosed}
<1>1. waiters' \subseteq waiters
  BY DEF Signal, Kept
<1>2. CASE ready = {} /\ perr' = e /\ UNCHANGED reply
  BY <1>1, <1>2 DEF PoolType
<1>3. CASE \E first \in ready :
             /\ \A x \in ready : first.target <= x.target
             /\ reply' = [f \in Flushes |->
                           IF \E x \in ready : x.flush = f
                           THEN Append(reply[f], IF e /\ f = first.flush THEN "err" ELSE "nil")
                           ELSE reply[f]]
             /\ perr' = FALSE
  <2>1. PICK first \in ready :
             reply' = [f \in Flushes |->
                           IF \E x \in ready : x.flush = f
                           THEN Append(reply[f], IF e /\ f = first.flush THEN "err" ELSE "nil")
                           ELSE reply[f]]
    BY <1>3
  <2>2. \A f \in Flushes : reply[f] \in Seq({"nil", "err"})
    BY DEF PoolType
  <2>3. \A f \in Flushes : \A m \in {"nil", "err"} :
          Append(reply[f], m) \in Seq({"nil", "err"})
    BY <2>2
  <2> HIDE DEF ready
  <2>4. reply' \in [Flushes -> Seq({"nil", "err"})]
    BY <2>1, <2>2, <2>3
  <2> QED
    BY <1>1, <1>3, <2>4 DEF PoolType
<1> QED
  BY <1>2, <1>3 DEF Signal

\* The send on the job channel, await and the deferred calls of run: the job
\* channel stays within its capacity.
LEMMA PoolStepTyped ==
    ASSUME TypeOK, UNCHANGED OtherThanSender,
           \/ HandOffSend \/ RecordDispatch \/ Await
           \/ SenderStop \/ SenderJoined \/ SenderExit \/ \E f \in Flushes : SelectFlush(f)
    PROVE  TypeOK'
<1>0. /\ CallType /\ SenderType /\ ChanType /\ WorkerType /\ PoolType /\ FlushType
      /\ call' = call /\ enqueued' = enqueued
  BY DEF TypeOK, OtherThanSender
<1>1. ASSUME HandOffSend PROVE TypeOK'
  <2>1. hand \in Batches /\ jobs \in Seq(Batches) /\ Cardinality(Workers) \in Nat
    BY <1>0, <1>1, WorkersFinite DEF SenderType, HandOffSend, Batches, WorkerType
  <2>2. jobs' \in Seq(Batches) /\ Len(jobs') = Len(jobs) + 1
    BY <1>1, <2>1, AppendProperties DEF HandOffSend
  <2>3. Len(jobs) \in Nat
    BY <2>1, LenProperties
  <2>4. WorkerType'
    BY <1>0, <1>1, <2>1, <2>2, <2>3 DEF WorkerType, HandOffSend, OtherThanSender
  <2>5. SenderType'
    BY <1>0, <1>1 DEF SenderType, HandOffSend, SenderStates, timerVars
  <2>6. (CallType /\ ChanType /\ PoolType /\ FlushType)'
    BY <1>0, <1>1 DEF HandOffSend, OtherThanSender, CallType, ChanType, PoolType,
                      FlushType, closeVars
  <2> QED
    BY <2>4, <2>5, <2>6 DEF TypeOK
<1>2. ASSUME RecordDispatch PROVE TypeOK'
  <2>1. todo \in SUBSET Batches
    BY <1>0 DEF SenderType
  <2>2. SenderType'
    BY <1>0, <1>2, <2>1, ContinueTyped DEF RecordDispatch
  <2>3. (CallType /\ ChanType /\ WorkerType /\ PoolType /\ FlushType)'
    BY <1>0, <1>2 DEF RecordDispatch, CountDispatch, OtherThanSender, CallType, ChanType,
                      WorkerType, PoolType, FlushType, closeVars
  <2> QED
    BY <2>2, <2>3 DEF TypeOK
<1>3. ASSUME Await PROVE TypeOK'
  <2>1. sctx \in Flushes
    BY <1>0, <1>3 DEF Await, SenderType
  <2>2. PoolType'
    <3>1. CASE Reply(sctx, perr) /\ perr' = FALSE /\ UNCHANGED waiters
      <4>1. reply[sctx] \in Seq({"nil", "err"})
        BY <1>0, <2>1 DEF PoolType
      <4>2. Append(reply[sctx], IF perr THEN "err" ELSE "nil") \in Seq({"nil", "err"})
        BY <4>1
      <4> QED
        BY <1>0, <1>3, <2>1, <3>1, <4>2 DEF PoolType, Reply, Await, OtherThanSender
    <3>2. CASE /\ waiters' = waiters \cup {[flush |-> sctx, target |-> dispatched]}
               /\ UNCHANGED <<perr, reply>>
      BY <1>0, <1>3, <2>1, <3>2 DEF PoolType, Await, OtherThanSender
    <3> QED
      BY <1>3, <3>1, <3>2 DEF Await
  <2>3. SenderType'
    BY <1>0, <1>3 DEF Await, SenderType, SenderStates, Contexts, timerVars
  <2>4. (CallType /\ ChanType /\ WorkerType /\ FlushType)'
    BY <1>0, <1>3 DEF Await, OtherThanSender, CallType, ChanType, WorkerType, FlushType,
                      closeVars
  <2> QED
    BY <2>2, <2>3, <2>4 DEF TypeOK
<1>4. ASSUME SenderStop PROVE TypeOK'
  BY <1>0, <1>4 DEF SenderStop, TypeOK, OtherThanSender, CallType, ChanType, SenderType,
                    SenderStates, WorkerType, PoolType, FlushType, batchVars, closeVars
<1>5. ASSUME SenderJoined PROVE TypeOK'
  <2>1. PoolType'
    <3>1. TRUE \in BOOLEAN /\ perr \in BOOLEAN
      BY <1>0 DEF PoolType
    <3>2. /\ waiters' \subseteq [flush : Flushes, target : Nat]
          /\ reply' \in [Flushes -> Seq({"nil", "err"})]
          /\ perr' \in BOOLEAN
      BY <1>0, <1>5, <3>1, SignalTyped DEF SenderJoined
    <3> QED
      BY <1>0, <1>5, <3>2 DEF PoolType, SenderJoined, OtherThanSender
  <2>2. (CallType /\ ChanType /\ SenderType /\ WorkerType /\ FlushType)'
    BY <1>0, <1>5 DEF SenderJoined, OtherThanSender, CallType, ChanType, SenderType,
                      SenderStates, WorkerType, FlushType, batchVars, timerVars, closeVars
  <2> QED
    BY <2>1, <2>2 DEF TypeOK
<1>6. ASSUME SenderExit PROVE TypeOK'
  BY <1>0, <1>6 DEF SenderExit, TypeOK, OtherThanSender, CallType, ChanType, SenderType,
                    SenderStates, WorkerType, PoolType, FlushType, batchVars, timerVars,
                    closeVars
<1>7. ASSUME NEW f \in Flushes, SelectFlush(f) PROVE TypeOK'
  BY <1>0, <1>7 DEF SelectFlush, TypeOK, OtherThanSender, OtherThanBatch, CallType, ChanType,
                    SenderType, SenderStates, Contexts, WorkerType, PoolType, FlushType,
                    timerVars, closeVars
<1> QED
  BY <1>1, <1>2, <1>3, <1>4, <1>5, <1>6, <1>7

\* Any step of the sender goroutine.
LEMMA SenderTyped ==
    ASSUME TypeOK, Sender
    PROVE  TypeOK'
BY BatchTyped, DispatchTyped, PoolStepTyped DEF Sender

\* Filing one piece under a counter of Stats.
LEMMA ResolveTyped ==
    ASSUME TypeOK, NEW w \in Workers, NEW b \in work[w], NEW bucket \in Buckets,
           Resolve(w, b, bucket), UNCHANGED <<callVars, chanVars, senderVars, flushVars, closeVars>>
    PROVE  TypeOK'
<1>1. counted' \in [Records -> Seq(Buckets)]
  BY TallyType DEF Resolve, TypeOK, CallType
<1>2. WorkerType'
  BY DEF Resolve, TypeOK, WorkerType
<1> QED
  BY <1>1, <1>2 DEF Resolve, TypeOK, CallType, ChanType, SenderType, PoolType, FlushType,
     callVars, chanVars, senderVars, batchVars, timerVars, poolVars, flushVars, closeVars

\* Any outcome of one piece at a worker (transport.go, upload, splitAndSend).
LEMMA UploadTyped ==
    ASSUME TypeOK, NEW w \in Workers, Upload(w)
    PROVE  TypeOK'
<1>0. UNCHANGED <<callVars, chanVars, senderVars, flushVars, closeVars>>
  BY DEF Upload
<1>1. {"sent", "rejected", "oversize", "closed"} \subseteq Buckets
  BY DEF Buckets
<1>2. ASSUME UploadSplit(w) PROVE TypeOK'
  <2>1. PICK b \in work[w] : /\ Cardinality(b) > 1
                             /\ \E h \in Halves(b) : work' = [work EXCEPT ![w] = Halved(@, b, h)]
    BY <1>2 DEF UploadSplit
  <2>2. PICK h \in Halves(b) : work' = [work EXCEPT ![w] = Halved(@, b, h)]
    BY <2>1
  <2>3. work[w] \in SUBSET Batches
    BY DEF TypeOK, WorkerType
  <2>4. Halved(work[w], b, h) \in SUBSET Batches
    BY <2>1, <2>3, HalvedTyped
  <2>5. WorkerType'
    BY <1>2, <2>2, <2>4 DEF UploadSplit, TypeOK, WorkerType
  <2> QED
    BY <1>0, <1>2, <2>5 DEF UploadSplit, TypeOK, CallType, ChanType, SenderType, PoolType,
       FlushType, callVars, chanVars, senderVars, batchVars, timerVars, poolVars, flushVars,
       closeVars
<1>3. ASSUME NEW b \in work[w], NEW bucket \in Buckets, Resolve(w, b, bucket) PROVE TypeOK'
  BY <1>0, <1>3, ResolveTyped
<1> QED
  BY <1>1, <1>2, <1>3 DEF Upload, UploadSent, UploadRejected, UploadOversize,
     UploadSplitFails, UploadCancelled

\* Any step of an upload worker, complete included.
LEMMA WorkerTyped ==
    ASSUME TypeOK, NEW w \in Workers, Worker(w)
    PROVE  TypeOK'
<1> USE DEF callVars, chanVars, senderVars, batchVars, timerVars, poolVars, flushVars,
            closeVars
<1>1. ASSUME WorkerReceive(w), UNCHANGED <<callVars, chanVars, senderVars, flushVars, closeVars>>
      PROVE  TypeOK'
  <2>1. jobs \in Seq(Batches) /\ jobs # <<>> /\ Len(jobs) <= Cardinality(Workers)
    BY <1>1 DEF WorkerReceive, TypeOK, WorkerType
  <2>2. Head(jobs) \in Batches /\ Tail(jobs) \in Seq(Batches) /\ Len(Tail(jobs)) = Len(jobs) - 1
    BY <2>1, HeadTailProperties
  <2>3. Len(Tail(jobs)) <= Cardinality(Workers)
    BY <2>1, <2>2, LenProperties, WorkersFinite
  <2>4. WorkerType'
    BY <1>1, <2>2, <2>3 DEF WorkerReceive, TypeOK, WorkerType
  <2> QED
    BY <1>1, <2>4 DEF WorkerReceive, TypeOK, CallType, ChanType, SenderType, PoolType, FlushType
<1>2. ASSUME WorkerExit(w), UNCHANGED <<callVars, chanVars, senderVars, flushVars, closeVars>>
      PROVE  TypeOK'
  BY <1>2 DEF WorkerExit, TypeOK, CallType, ChanType, SenderType, WorkerType, PoolType, FlushType
<1>3. ASSUME UploadComplete(w), UNCHANGED <<callVars, chanVars, senderVars, flushVars, closeVars>>
      PROVE  TypeOK'
  <2>1. FirstError(perr, werr[w]) \in BOOLEAN /\ poolClosed \in BOOLEAN /\ werr[w] \in BOOLEAN
    BY DEF FirstError, TypeOK, WorkerType, PoolType
  <2>2. /\ waiters' \subseteq [flush : Flushes, target : Nat]
        /\ reply' \in [Flushes -> Seq({"nil", "err"})]
        /\ perr' \in BOOLEAN
    BY <1>3, <2>1, SignalTyped DEF UploadComplete, TypeOK
  <2>3. PoolType'
    BY <1>3, <2>1, <2>2 DEF UploadComplete, TypeOK, PoolType
  <2>4. WorkerType'
    BY <1>3 DEF UploadComplete, TypeOK, WorkerType
  <2> QED
    BY <1>3, <2>3, <2>4 DEF UploadComplete, TypeOK, CallType, ChanType, SenderType, FlushType
<1> QED
  BY <1>1, <1>2, <1>3, UploadTyped DEF Worker

\* Any step of a Flush or Close call on its caller's goroutine.
LEMMA FlushCloseTyped ==
    ASSUME TypeOK, UNCHANGED OtherThanFlush,
           \/ \E f \in Flushes : \/ FlushSenderGone(f) \/ FlushReplied(f) \/ FlushCtxDone(f)
                                 \/ Expire(f) \/ FlushCall(f)
           \/ CloseBegin \/ CloseShutdown \/ CloseStopped \/ CloseTimeout \/ CloseAborted
           \/ CloseLeftover
    PROVE  TypeOK'
<1>0. (SenderType /\ WorkerType /\ PoolType)' /\ UNCHANGED callVars
  BY DEF OtherThanFlush, TypeOK, SenderType, WorkerType, PoolType, senderVars, batchVars,
         timerVars, workerVars, poolVars
<1>1. SUFFICES (ChanType /\ FlushType)' /\ counted' \in [Records -> Seq(Buckets)]
  BY <1>0 DEF TypeOK, CallType, callVars
<1> USE DEF TypeOK, CallType, ChanType, FlushType, Returned, chanVars, flushVars, closeVars
<1>2. ASSUME NEW f \in Flushes, FlushReplied(f)
      PROVE  (ChanType /\ FlushType)' /\ counted' \in [Records -> Seq(Buckets)]
  <2>1. Head(reply[f]) \in {"nil", "err"}
    <3>1. reply[f] \in Seq({"nil", "err"}) /\ reply[f] # <<>>
      BY <1>2 DEF FlushReplied, PoolType
    <3> QED
      BY <3>1, HeadTailProperties
  <2> QED
    BY <1>2, <2>1 DEF FlushReplied, FlushReturn
<1>3. ASSUME NEW f \in Flushes, FlushSenderGone(f) \/ FlushCtxDone(f)
      PROVE  (ChanType /\ FlushType)' /\ counted' \in [Records -> Seq(Buckets)]
  BY <1>3 DEF FlushSenderGone, FlushCtxDone, FlushReturn
<1>4. ASSUME NEW f \in Flushes, Expire(f) \/ FlushCall(f)
      PROVE  (ChanType /\ FlushType)' /\ counted' \in [Records -> Seq(Buckets)]
  BY <1>4 DEF Expire, FlushCall
<1>5. ASSUME CloseBegin
      PROVE  (ChanType /\ FlushType)' /\ counted' \in [Records -> Seq(Buckets)]
  BY <1>5 DEF CloseBegin, CloseStates, Flushes
<1>6. ASSUME CloseShutdown \/ CloseStopped \/ CloseTimeout \/ CloseAborted
      PROVE  (ChanType /\ FlushType)' /\ counted' \in [Records -> Seq(Buckets)]
  BY <1>6 DEF CloseShutdown, CloseStopped, CloseTimeout, CloseAborted, CloseStates, WorkCancelled
<1>7. ASSUME CloseLeftover
      PROVE  (ChanType /\ FlushType)' /\ counted' \in [Records -> Seq(Buckets)]
  <2>1. counted' \in [Records -> Seq(Buckets)]
    BY <1>7, TallyType DEF CloseLeftover, Buckets
  <2> QED
    BY <1>7, <2>1 DEF CloseLeftover, CloseStates
<1> QED
  BY <1>2, <1>3, <1>4, <1>5, <1>6, <1>7

\* Every step of the client keeps every variable in its domain.
LEMMA StepTyped == TypeOK /\ [Next]_vars => TypeOK'
<1> SUFFICES ASSUME TypeOK, [Next]_vars PROVE TypeOK'
  OBVIOUS
<1>1. ASSUME TimerFires PROVE TypeOK'
  BY <1>1 DEF TimerFires, TypeOK, CallType, ChanType, SenderType, WorkerType, PoolType,
     FlushType, callVars, chanVars, batchVars, workerVars, poolVars, flushVars, closeVars
<1>2. ASSUME NEW f \in Flushes, FlushStep(f) \/ (Expire(f) /\ UNCHANGED OtherThanFlush)
      PROVE  TypeOK'
  BY <1>2, FlushCloseTyped DEF FlushStep
<1>3. ASSUME Call \/ CloseStep PROVE TypeOK'
  <2>1. Callers \subseteq Flushes
    BY DEF Flushes
  <2> QED
    BY <1>3, <2>1, FlushCloseTyped DEF Call, CloseStep
<1>4. ASSUME UNCHANGED vars PROVE TypeOK'
  BY <1>4 DEF vars, TypeOK, CallType, ChanType, SenderType, WorkerType, PoolType, FlushType,
     callVars, chanVars, senderVars, batchVars, timerVars, workerVars, poolVars, flushVars,
     closeVars
<1> QED
  BY <1>1, <1>2, <1>3, <1>4, EnqueueTyped, SenderTyped, WorkerTyped DEF Next, Terminated

\* A client fresh from NewClient is well typed.
LEMMA InitTyped == Init => TypeOK
<1> SUFFICES ASSUME Init PROVE TypeOK
  OBVIOUS
<1>1. QueueSize \in Nat /\ QueueSize >= 0 /\ Cardinality(Workers) \in Nat /\ Cardinality(Workers) >= 0
  BY ClientAssumption, WorkersFinite
<1>2. CallType
  <2>1. \A S : <<>> \in Seq(S) /\ Len(<<>>) = 0
    OBVIOUS
  <2> QED
    BY <1>1, <2>1 DEF Init, Fresh, CallType, CallStates
<1>3. ChanType
  BY DEF Init, Fresh, ChanType
<1>4. SenderType
  <2>1. /\ spc = "select" /\ sctx = Background /\ resume = "select"
        /\ buf = {} /\ todo = {} /\ hand = {} /\ armed = FALSE /\ timer = "off"
    BY DEF Init, Fresh
  <2> QED
    BY <2>1 DEF SenderType, SenderStates, Contexts
<1>6. WorkerType
  <2>1. /\ jobs = <<>> /\ jobsClosed = FALSE
        /\ wpc = [w \in Workers |-> "idle"]
        /\ work = [w \in Workers |-> {}]
        /\ werr = [w \in Workers |-> FALSE]
    BY DEF Init, Fresh
  <2>2. jobs \in Seq(Batches) /\ Len(jobs) = 0
    BY <2>1
  <2>3. /\ wpc \in [Workers -> {"idle", "upload", "exited"}]
        /\ work \in [Workers -> SUBSET Batches]
        /\ werr \in [Workers -> BOOLEAN]
    BY <2>1
  <2>4. Len(jobs) <= Cardinality(Workers)
    BY <1>1, <2>2
  <2> QED
    BY <2>1, <2>2, <2>3, <2>4 DEF WorkerType
<1>5. PoolType
  <2>1. reply = [f \in Flushes |-> <<>>]
    BY DEF Init, Fresh
  <2>2. reply \in [Flushes -> Seq({"nil", "err"})]
    BY <2>1
  <2> QED
    BY <2>2 DEF Init, Fresh, PoolType
<1>7. FlushType
  <2>1. /\ fpc = [f \in Flushes |-> "idle"]
        /\ expired = [f \in Flushes |-> FALSE]
        /\ result = [f \in Flushes |-> "none"]
        /\ before = [f \in Flushes |-> {}]
        /\ cpc = "idle" /\ racing = {}
    BY DEF Init, Fresh
  <2> QED
    BY <2>1 DEF FlushType, CloseStates
<1> QED
  BY <1>2, <1>3, <1>4, <1>5, <1>6, <1>7 DEF TypeOK

\* Every reachable state of the pipeline is well typed, for any number of
\* records, workers, Flush calls and any queue and batch size.
THEOREM TypeCorrect == Spec => []TypeOK
BY InitTyped, StepTyped, PTL DEF Spec

-----------------------------------------------------------------------------
(* Conservation.                                                           *)

\* Filing records that no counter holds yet leaves every record with at most
\* one terminal count, and no record outside S with another.
LEMMA TallyOnce ==
    ASSUME CallType, CountedOnce, NEW S, NEW b \in Buckets,
           \A r \in Records : r \in S => counted[r] = <<>>,
           counted' = Tally(S, b)
    PROVE  /\ CountedOnce'
           /\ \A r \in Records : r \in S => counted'[r] # <<>>
           /\ \A r \in Records : r \notin S => counted'[r] = counted[r]
<1>1. /\ \A r \in Records : r \notin S => counted'[r] = counted[r]
      /\ \A r \in Records : r \in S => counted'[r] = Append(<<>>, b)
  BY TallyType DEF CallType
<1>2. Append(<<>>, b) # <<>> /\ Len(Append(<<>>, b)) = 1
  <2>1. <<>> \in Seq(Buckets) /\ Len(<<>>) = 0
    OBVIOUS
  <2> QED
    BY <2>1, AppendProperties
<1>3. \A r \in Records : r \in S => counted'[r] # <<>> /\ Len(counted'[r]) <= 1
  <2> DEFINE one == Append(<<>>, b)
  <2>1. one # <<>> /\ Len(one) <= 1
    BY <1>2
  <2>2. \A r \in Records : r \in S => counted'[r] = one
    BY <1>1
  <2> HIDE DEF one
  <2> QED
    BY <2>1, <2>2
<1>4. \A r \in Records : r \notin S => Len(counted'[r]) <= 1
  BY <1>1 DEF CountedOnce
<1> QED
  BY <1>1, <1>3, <1>4 DEF CountedOnce

\* Every part of the pipeline holds records.
LEMMA PartsAreRecords ==
    ASSUME TypeOK
    PROVE  /\ InCalls \subseteq Records /\ InQueue \subseteq Records
           /\ buf \subseteq Records /\ InTodo \subseteq Records /\ hand \subseteq Records
           /\ InJobs \subseteq Records /\ InWork \subseteq Records
<1>1. InQueue \subseteq Records
  BY DEF TypeOK, CallType, InQueue
<1> QED
  BY <1>1 DEF TypeOK, SenderType, InCalls, InTodo, InJobs, InWork

-----------------------------------------------------------------------------
(* Enqueue                                                                 *)

\* A record enters the queue, or is counted as it is turned away, once.
LEMMA EnqueueOwns ==
    ASSUME TypeOK, Ownership, NEW r \in Records, Enqueue(r)
    PROVE  Ownership'
<1>0. /\ UNCHANGED <<chanVars, senderVars, workerVars, poolVars, flushVars, closeVars>>
      /\ UNCHANGED <<buf, todo, hand, jobs, work, spc, senderDone, cpc, wpc>>
  BY DEF Enqueue, chanVars, senderVars, batchVars, workerVars, closeVars
<1>1. /\ UNCHANGED <<InTodo, InJobs, InWork, InSender>>
      /\ Phases'
  BY <1>0 DEF Ownership, Phases, InTodo, InJobs, InWork, InSender
<1>2. CallType /\ Apart /\ Distinct /\ Uncounted /\ CountedOnce /\ NothingLost
  BY DEF TypeOK, Ownership
<1>3. /\ call[r] \in {"idle", "admitted", "offering"}
      /\ r \in InCalls /\ counted[r] = <<>>
      /\ call \in [Records -> CallStates]
  BY <1>2 DEF Enqueue, EnqueueEntry, EnqueueClosed, EnqueueBurst, EnqueuePrecheck,
     EnqueueEncodeFails, EnqueueOversize, EnqueueEncode, EnqueueSend, InCalls, Uncounted, CallType
\* The call goes on, or fails and leaves the record with its caller.
<1>4. CASE /\ \E c \in {"admitted", "offering", "failed"} : call' = [call EXCEPT ![r] = c]
           /\ UNCHANGED <<queue, counted>>
           /\ enqueued' = enqueued \/ (enqueued' = enqueued \cup {r} /\ call'[r] = "offering")
           /\ call[r] # "offering"
  <2>1. InCalls' = InCalls /\ InQueue' = InQueue
    BY <1>3, <1>4 DEF InCalls, InQueue
  <2>2. Apart' /\ Distinct' /\ Uncounted' /\ CountedOnce'
    BY <1>0, <1>1, <1>2, <1>4, <2>1 DEF Apart, Distinct, Uncounted, CountedOnce, InSender
  <2>3. \A x \in Records : x # r => call'[x] = call[x]
    BY <1>3, <1>4
  <2>4. NothingLost'
    BY <1>0, <1>1, <1>2, <1>4, <2>1, <2>3 DEF NothingLost, CallType
  <2> QED
    BY <1>1, <2>2, <2>4 DEF Ownership
\* The record is counted as it is turned away.
<1>5. CASE /\ \E c \in {"refused", "returned"} : call' = [call EXCEPT ![r] = c]
           /\ UNCHANGED queue
           /\ enqueued' \in {enqueued, enqueued \cup {r}}
           /\ \E b \in Buckets : counted' = Tally({r}, b)
  <2>1. InCalls' = InCalls \ {r} /\ InQueue' = InQueue
    BY <1>3, <1>5 DEF InCalls, InQueue
  <2>2. /\ CountedOnce'
        /\ \A x \in Records : x # r => counted'[x] = counted[x] /\ call'[x] = call[x]
        /\ counted'[r] # <<>>
    <3>0. \A x \in Records : x # r => call'[x] = call[x]
      BY <1>3, <1>5
    <3>1. PICK b \in Buckets : counted' = Tally({r}, b)
      BY <1>5
    <3>2. \A x \in Records : x \in {r} => counted[x] = <<>>
      BY <1>3
    <3>3. /\ CountedOnce'
          /\ \A x \in Records : x \in {r} => counted'[x] # <<>>
          /\ \A x \in Records : x \notin {r} => counted'[x] = counted[x]
      BY <1>2, <3>1, <3>2, TallyOnce
    <3> QED
      BY <3>0, <3>3
  <2>3. /\ r \notin InQueue /\ r \notin InSender /\ r \notin InJobs /\ r \notin InWork
    BY <1>2, <1>3 DEF Apart
  <2>4. Apart' /\ Distinct'
    BY <1>0, <1>1, <1>2, <1>5, <2>1 DEF Apart, Distinct
  <2>5. Uncounted'
    BY <1>0, <1>1, <1>2, <2>1, <2>2, <2>3, PartsAreRecords DEF Uncounted, InSender
  <2>6. NothingLost'
    BY <1>0, <1>1, <1>2, <1>3, <1>5, <2>1, <2>2, <2>3 DEF NothingLost, CallType
  <2> QED
    BY <1>1, <2>2, <2>4, <2>5, <2>6 DEF Ownership
\* The record enters the queue.
<1>6. CASE /\ call' = [call EXCEPT ![r] = "returned"]
           /\ queue' = Append(queue, r)
           /\ UNCHANGED <<counted, enqueued>>
  <2>1. queue \in Seq(Records)
    BY <1>2 DEF CallType
  <2>2. /\ DOMAIN queue' = 1 .. (Len(queue) + 1) /\ DOMAIN queue = 1 .. Len(queue)
        /\ Len(queue) \in Nat
        /\ \A i \in 1 .. Len(queue) : queue'[i] = queue[i]
        /\ queue'[Len(queue) + 1] = r
    BY <1>6, <2>1, AppendProperties, LenProperties
  <2>3. InCalls' = InCalls \ {r}
    BY <1>3, <1>6 DEF InCalls
  <2>4. InQueue' = InQueue \cup {r}
    BY <2>2 DEF InQueue
  <2>5. r \notin InQueue /\ r \notin InSender /\ r \notin InJobs /\ r \notin InWork
    BY <1>2, <1>3 DEF Apart
  <2>6. \A i \in DOMAIN queue : queue[i] # r
    BY <2>5 DEF InQueue
  <2>7. Distinct'
    BY <1>0, <1>2, <2>2, <2>6 DEF Distinct
  <2>8. Apart'
    BY <1>0, <1>1, <1>2, <2>3, <2>4, <2>5 DEF Apart, InSender
  <2>9. Uncounted' /\ CountedOnce'
    BY <1>0, <1>1, <1>2, <1>3, <1>6, <2>3, <2>4 DEF Uncounted, CountedOnce, InSender
  <2>10. NothingLost'
    BY <1>0, <1>1, <1>2, <1>3, <1>6, <2>4 DEF NothingLost, CallType
  <2> QED
    BY <1>1, <2>7, <2>8, <2>9, <2>10 DEF Ownership
<1>7. {"closed", "burst", "queueFull", "oversize"} \subseteq Buckets
  BY DEF Buckets
<1>8. \/ EnqueueEntry(r) \/ EnqueueEncode(r)
      \/ EnqueueClosed(r) \/ EnqueueBurst(r) \/ EnqueuePrecheck(r) \/ EnqueueOversize(r)
      \/ EnqueueEncodeFails(r) \/ EnqueueSend(r)
  BY DEF Enqueue
<1>9. CASE EnqueueEntry(r) \/ EnqueueEncode(r) \/ EnqueueEncodeFails(r)
  BY <1>3, <1>4, <1>9 DEF EnqueueEntry, EnqueueEncode, EnqueueEncodeFails
<1>10. CASE EnqueueClosed(r) \/ EnqueueBurst(r) \/ EnqueuePrecheck(r) \/ EnqueueOversize(r)
  BY <1>3, <1>5, <1>7, <1>10 DEF EnqueueClosed, EnqueueBurst, EnqueuePrecheck, EnqueueOversize,
     EnqueueShed
<1>11. CASE EnqueueSend(r)
  <2>1. CASE queue' = Append(queue, r) /\ UNCHANGED counted
    BY <1>6, <1>11, <2>1 DEF EnqueueSend
  <2>2. CASE counted' = Tally({r}, "queueFull") /\ UNCHANGED queue
    BY <1>5, <1>7, <1>11, <2>2 DEF EnqueueSend
  <2> QED
    BY <1>11, <2>1, <2>2 DEF EnqueueSend
<1> QED
  BY <1>8, <1>9, <1>10, <1>11

-----------------------------------------------------------------------------
(* The sender                                                              *)

\* A sender that has not exited has Close still waiting for it.
LEMMA NotClosedYet ==
    ASSUME Phases, spc # "exited"
    PROVE  cpc # "closed" /\ cpc # "counting" /\ ~senderDone
BY DEF Phases

\* Receiving takes one record out of the queue, and only that one.
LEMMA QueueTail ==
    ASSUME TypeOK, Distinct, queue # <<>>, queue' = Tail(queue)
    PROVE  /\ \A i, j \in DOMAIN queue' : queue'[i] = queue'[j] => i = j
           /\ InQueue = InQueue' \cup {Head(queue)}
           /\ Head(queue) \notin InQueue'
<1>1. queue \in Seq(Records) /\ Len(queue) \in Nat /\ Len(queue) > 0
  BY EmptySeq, LenProperties DEF TypeOK, CallType
<1>2. /\ Tail(queue) \in Seq(Records) /\ Len(Tail(queue)) = Len(queue) - 1
      /\ \A i \in 1 .. Len(queue) - 1 : Tail(queue)[i] = queue[i + 1]
      /\ Head(queue) = queue[1]
  BY <1>1
<1>3. DOMAIN queue' = 1 .. (Len(queue) - 1) /\ DOMAIN queue = 1 .. Len(queue)
  BY <1>1, <1>2
<1>4. \A i \in DOMAIN queue' : i + 1 \in DOMAIN queue /\ queue'[i] = queue[i + 1] /\ i + 1 # 1
  BY <1>1, <1>2, <1>3
<1>5. \A i \in DOMAIN queue : i = 1 \/ (i - 1 \in DOMAIN queue' /\ queue'[i - 1] = queue[i])
  BY <1>1, <1>2, <1>3
<1>6. 1 \in DOMAIN queue
  BY <1>1, <1>3
<1>7. \A i, j \in DOMAIN queue' : queue'[i] = queue'[j] => i = j
  BY <1>3, <1>4 DEF Distinct
<1>8. Head(queue) \notin InQueue'
  BY <1>2, <1>4, <1>6 DEF Distinct, InQueue
<1>9. InQueue \subseteq InQueue' \cup {Head(queue)}
  <2>1. SUFFICES ASSUME NEW i \in DOMAIN queue
                 PROVE  queue[i] \in InQueue' \cup {Head(queue)}
    BY DEF InQueue
  <2>2. CASE i = 1
    BY <1>2, <2>2
  <2>3. CASE i # 1
    BY <1>5, <2>3 DEF InQueue
  <2> QED
    BY <2>2, <2>3
<1>10. InQueue' \cup {Head(queue)} \subseteq InQueue
  <2>1. \A i \in DOMAIN queue' : queue'[i] \in InQueue
    BY <1>4 DEF InQueue
  <2>2. Head(queue) \in InQueue
    BY <1>2, <1>6 DEF InQueue
  <2> QED
    BY <2>1, <2>2 DEF InQueue
<1> QED
  BY <1>7, <1>8, <1>9, <1>10

\* A record moves from the queue to the batch being built: nobody else had it.
LEMMA AccumulateOwns ==
    ASSUME TypeOK, Ownership, NEW b \in SUBSET Records, Accumulate(b),
           spc \in {"select", "drain"},
           UNCHANGED <<call, enqueued, jobs, work, wpc, senderDone, cpc>>,
           InQueue' \subseteq InQueue, b \cup InQueue' = buf \cup InQueue, b \cap InQueue' = {},
           \A i, j \in DOMAIN queue' : queue'[i] = queue'[j] => i = j
    PROVE  Ownership'
<1>1. Apart /\ Distinct /\ Uncounted /\ Phases /\ CountedOnce /\ NothingLost
  BY DEF Ownership
<1>2. /\ buf' = b /\ UNCHANGED <<spc, todo, hand, counted, InCalls, InTodo, InJobs, InWork>>
  BY DEF Accumulate, InCalls, InTodo, InJobs, InWork
<1>3. cpc # "closed"
  BY <1>1, NotClosedYet
<1>4. Apart'
  BY <1>1, <1>2 DEF Apart, InSender
<1>5. Distinct'
  BY <1>1, <1>2 DEF Distinct
<1>6. Uncounted' /\ CountedOnce'
  BY <1>1, <1>2, <1>3 DEF Uncounted, CountedOnce, InSender
<1>7. Phases'
  BY <1>1, <1>2 DEF Phases
<1>8. NothingLost'
  BY <1>1, <1>2 DEF NothingLost, InSender
<1> QED
  BY <1>4, <1>5, <1>6, <1>7, <1>8 DEF Ownership

\* A flush takes the batch over as one piece, or counts all of it.
LEMMA FlushOwns ==
    ASSUME TypeOK, Ownership, NEW ctx, NEW b \in SUBSET Records,
           NEW next \in {"select", "drain", "await", "stop"}, Flush(ctx, b, next),
           spc \in {"select", "drain"},
           UNCHANGED <<call, enqueued, jobs, work, wpc, senderDone, cpc>>,
           InQueue' \subseteq InQueue, b \cup InQueue' = buf \cup InQueue, b \cap InQueue' = {},
           \A i, j \in DOMAIN queue' : queue'[i] = queue'[j] => i = j
    PROVE  Ownership'
<1>1. /\ Apart /\ Distinct /\ Uncounted /\ Phases /\ CountedOnce /\ NothingLost /\ CallType
      /\ ~senderDone /\ cpc # "closed" /\ cpc # "counting"
  BY NotClosedYet DEF Ownership, TypeOK
<1>2. /\ todo = {} /\ hand = {} /\ hand' = {} /\ buf' = {}
      /\ InTodo = {} /\ UNCHANGED <<InCalls, InJobs, InWork>>
  BY <1>1 DEF Flush, Phases, InCalls, InJobs, InWork, InTodo
<1>3. \A r \in b : counted[r] = <<>>
  BY <1>1 DEF Uncounted, InSender
<1>4. /\ b \cap InCalls = {} /\ b \cap InJobs = {} /\ b \cap InWork = {}
  BY <1>1 DEF Apart, InSender
<1>5. CASE todo' = todo /\ counted' = counted /\ b = {} /\ spc' = next
  <2>1. InTodo' = {}
    BY <1>2, <1>5 DEF InTodo
  <2>2. Apart' /\ Distinct' /\ Phases'
    BY <1>1, <1>2, <1>5, <2>1 DEF Apart, Distinct, Phases, InSender
  <2>3. Uncounted' /\ CountedOnce' /\ NothingLost'
    BY <1>1, <1>2, <1>5, <2>1 DEF Uncounted, CountedOnce, NothingLost, InSender
  <2> QED
    BY <2>2, <2>3 DEF Ownership
<1>6. CASE todo' = todo /\ counted' = Tally(b, "rejected") /\ spc' = next
  <2>1. InTodo' = {}
    BY <1>2, <1>6 DEF InTodo
  <2>2. Apart' /\ Distinct' /\ Phases'
    BY <1>1, <1>2, <1>6, <2>1 DEF Apart, Distinct, Phases, InSender
  <2>3. "rejected" \in Buckets
    BY DEF Buckets
  <2>4. /\ CountedOnce'
        /\ \A r \in Records : r \in b => counted'[r] # <<>>
        /\ \A r \in Records : r \notin b => counted'[r] = counted[r]
    BY <1>1, <1>3, <1>6, <2>3, TallyOnce
  <2>5. Uncounted'
    BY <1>1, <1>2, <1>4, <2>1, <2>4, PartsAreRecords DEF Uncounted, InSender
  <2>6. NothingLost'
    BY <1>1, <1>2, <2>1, <2>4 DEF NothingLost, InSender, CallType
  <2> QED
    BY <2>2, <2>4, <2>5, <2>6 DEF Ownership
<1>7. CASE todo' = {b} /\ counted' = counted /\ spc' = "dispatch"
  <2>1. InTodo' = b
    BY <1>7 DEF InTodo
  <2>2. Apart' /\ Distinct' /\ Phases'
    BY <1>1, <1>2, <1>4, <1>7, <2>1 DEF Apart, Distinct, Phases, InSender
  <2>3. Uncounted' /\ CountedOnce' /\ NothingLost'
    BY <1>1, <1>2, <1>3, <1>7, <2>1 DEF Uncounted, CountedOnce, NothingLost, InSender
  <2> QED
    BY <2>2, <2>3 DEF Ownership
<1> QED
  BY <1>5, <1>6, <1>7 DEF Flush

\* The sender's run loop and drain: a record is in the queue, in the batch, or
\* in the piece flushed (sender.go, run, drain, flush).
LEMMA BatchOwns ==
    ASSUME TypeOK, Ownership, UNCHANGED OtherThanSender,
           SelectReceive \/ SelectTimer \/ SelectShutdown \/ DrainReceive \/ DrainFinish
           \/ \E f \in Flushes : SelectFlush(f)
    PROVE  Ownership'
<1>0. /\ UNCHANGED <<call, enqueued, wpc, work, cpc>> /\ Distinct
      /\ buf \in SUBSET Records
  BY DEF OtherThanSender, closeVars, Ownership, TypeOK, SenderType
<1> DEFINE b == buf \cup {Head(queue)}
<1>1. ASSUME queue # <<>>, queue' = Tail(queue)
      PROVE  /\ b \in SUBSET Records
             /\ InQueue' \subseteq InQueue /\ b \cup InQueue' = buf \cup InQueue
             /\ b \cap InQueue' = {}
             /\ \A i, j \in DOMAIN queue' : queue'[i] = queue'[j] => i = j
  <2>1. buf \cap InQueue = {}
    BY DEF Ownership, Apart, InSender
  <2> QED
    BY <1>0, <1>1, <2>1, QueueTail, ReceiveTyped
<1>2. ASSUME queue' = queue
      PROVE  /\ InQueue' = InQueue /\ buf \cap InQueue' = {}
             /\ \A i, j \in DOMAIN queue' : queue'[i] = queue'[j] => i = j
  BY <1>0, <1>2 DEF InQueue, Ownership, Apart, InSender, Distinct
<1>3. CASE SelectReceive \/ DrainReceive
  <2>1. /\ spc \in {"select", "drain"} /\ queue # <<>> /\ queue' = Tail(queue)
        /\ UNCHANGED <<jobs, senderDone>>
        /\ Accumulate(b) \/ Flush(Background, b, "select") \/ Flush(sctx, b, "drain")
    BY <1>3 DEF SelectReceive, DrainReceive, OtherThanBatch
  <2> HIDE DEF b
  <2>2. CASE Accumulate(b)
    BY <1>0, <1>1, <2>1, <2>2, AccumulateOwns
  <2>3. CASE Flush(Background, b, "select")
    BY <1>0, <1>1, <2>1, <2>3, FlushOwns
  <2>4. CASE Flush(sctx, b, "drain")
    BY <1>0, <1>1, <2>1, <2>4, FlushOwns
  <2> QED
    BY <2>1, <2>2, <2>3, <2>4
<1>4. CASE SelectTimer \/ DrainFinish
  <2> DEFINE next == IF sctx = Background THEN "stop" ELSE "await"
  <2>1. /\ spc \in {"select", "drain"} /\ queue' = queue /\ UNCHANGED <<jobs, senderDone>>
        /\ Flush(Background, buf, "select") \/ Flush(sctx, buf, next)
        /\ next \in {"select", "drain", "await", "stop"}
    BY <1>4 DEF SelectTimer, DrainFinish, OtherThanBatch
  <2> HIDE DEF next
  <2>2. CASE Flush(Background, buf, "select")
    BY <1>0, <1>2, <2>1, <2>2, FlushOwns
  <2>3. CASE Flush(sctx, buf, next)
    BY <1>0, <1>2, <2>1, <2>3, FlushOwns
  <2> QED
    BY <2>1, <2>2, <2>3
<1>5. CASE SelectShutdown \/ \E f \in Flushes : SelectFlush(f)
  <2>1. /\ UNCHANGED <<queue, counted, buf, todo, hand, jobs, senderDone>>
        /\ spc = "select" /\ spc' = "drain"
    BY <1>5 DEF SelectShutdown, SelectFlush, OtherThanBatch
  <2>2. UNCHANGED <<InCalls, InQueue, InTodo, InJobs, InWork, InSender>>
    BY <1>0, <2>1 DEF InCalls, InQueue, InTodo, InJobs, InWork, InSender
  <2> QED
    BY <1>0, <2>1, <2>2 DEF Ownership, Apart, Distinct, Uncounted, Phases, CountedOnce, NothingLost
<1> QED
  BY <1>3, <1>4, <1>5

-----------------------------------------------------------------------------
(* dispatch, handOff and the pool bookkeeping                              *)

\* A step that moves no record and counts none keeps the conservation law.
LEMMA NothingMoves ==
    ASSUME Ownership, Phases', cpc = "closed" => cpc' = "closed",
           UNCHANGED <<call, enqueued, counted, queue, buf, todo, hand, jobs, work>>
    PROVE  Ownership'
<1>1. UNCHANGED <<InCalls, InQueue, InTodo, InJobs, InWork, InSender>>
  BY DEF InCalls, InQueue, InTodo, InJobs, InWork, InSender
<1>2. Apart' /\ Distinct'
  BY <1>1 DEF Ownership, Apart, Distinct
<1>3. Uncounted'
  <2>1. \A r \in (InCalls \cup InSender \cup InJobs \cup InWork)' : counted'[r] = <<>>
    BY <1>1 DEF Ownership, Uncounted
  <2>2. cpc' # "closed" => \A r \in InQueue' : counted'[r] = <<>>
    BY <1>1 DEF Ownership, Uncounted
  <2> QED
    BY <2>1, <2>2 DEF Uncounted
<1>4. CountedOnce' /\ NothingLost'
  BY <1>1 DEF Ownership, CountedOnce, NothingLost
<1> QED
  BY <1>2, <1>3, <1>4 DEF Ownership

\* Halving one of several disjoint pieces: the same records, still disjoint.
LEMMA HalvedPieces ==
    ASSUME NEW P, NEW b \in P, NEW h \in Halves(b),
           \A x, y \in P : x = y \/ x \cap y = {}
    PROVE  /\ \A r : (\E q \in Halved(P, b, h) : r \in q) <=> (\E p \in P : r \in p)
           /\ \A x, y \in Halved(P, b, h) : x = y \/ x \cap y = {}
           /\ \A q \in Halved(P, b, h) : \E p \in P : q \subseteq p
<1>1. h \subseteq b
  BY DEF Halves
<1> DEFINE Q == Halved(P, b, h)
<1>2. /\ h \in Q /\ b \ h \in Q
      /\ \A p \in P : p = b \/ p \in Q
      /\ \A q \in Q : q = h \/ q = b \ h \/ (q \in P /\ q # b)
  BY DEF Halved
<1> HIDE DEF Q
<1>3. \A q \in Q : \E p \in P : q \subseteq p
  BY <1>1, <1>2
<1>4. \A r : (\E q \in Q : r \in q) => (\E p \in P : r \in p)
  BY <1>1, <1>2
<1>5. \A r : (\E p \in P : r \in p) => (\E q \in Q : r \in q)
  <2>1. SUFFICES ASSUME NEW r, NEW p \in P, r \in p
                 PROVE  \E q \in Q : r \in q
    OBVIOUS
  <2>2. CASE p = b
    <3>1. r \in h \/ r \in b \ h
      BY <2>1, <2>2
    <3> QED
      BY <1>2, <3>1
  <2> QED
    BY <1>2, <2>1, <2>2
<1>6. \A x, y \in Q : x = y \/ x \cap y = {}
  <2>1. SUFFICES ASSUME NEW x \in Q, NEW y \in Q, x # y
                 PROVE  x \cap y = {}
    OBVIOUS
  <2>2. \A p \in P : p # b => p \cap h = {} /\ p \cap (b \ h) = {}
    BY <1>1
  <2> QED
    BY <1>2, <2>1, <2>2
<1> QED
  BY <1>3, <1>4, <1>5, <1>6 DEF Q

\* Counting one part of the pipeline as it is given up: P are the records that
\* leave it, and nothing else moves.
LEMMA GivenUp ==
    ASSUME TypeOK, Ownership, Phases', NEW P \in SUBSET Records,
           NEW bucket \in Buckets, counted' = Tally(P, bucket),
           UNCHANGED <<call, enqueued, queue, cpc, InCalls, InQueue>>,
           P \cap (InCalls \cup InQueue) = {},
           \A r \in P : counted[r] = <<>>,
           Apart', Distinct',
           P \cap (InSender' \cup InJobs' \cup InWork') = {},
           InSender' \cup InJobs' \cup InWork' \subseteq InSender \cup InJobs \cup InWork,
           InSender \cup InJobs \cup InWork \subseteq P \cup InSender' \cup InJobs' \cup InWork'
    PROVE  Ownership'
<1>1. Uncounted /\ CountedOnce /\ NothingLost /\ CallType
  BY DEF Ownership, TypeOK
<1>2. /\ CountedOnce'
      /\ \A r \in Records : r \in P => counted'[r] # <<>>
      /\ \A r \in Records : r \notin P => counted'[r] = counted[r]
  BY <1>1, TallyOnce
<1> DEFINE held == InSender \cup InJobs \cup InWork
           kept == InSender' \cup InJobs' \cup InWork'
<1>3. held \subseteq Records /\ InCalls \subseteq Records /\ InQueue \subseteq Records
  BY PartsAreRecords DEF InSender
<1>4. \A r \in InCalls \cup held : counted[r] = <<>>
  BY <1>1 DEF Uncounted
<1>5. \A r \in InCalls' \cup kept : counted'[r] = <<>>
  BY <1>2, <1>3, <1>4
<1>6. cpc' # "closed" => \A r \in InQueue' : counted'[r] = <<>>
  BY <1>1, <1>2, <1>3 DEF Uncounted
<1>7. Uncounted'
  BY <1>5, <1>6 DEF Uncounted
<1>8. NothingLost'
  <2>1. \A r \in enqueued : \/ counted[r] # <<>> \/ call[r] = "offering"
                            \/ r \in InQueue \/ r \in held
    BY <1>1 DEF NothingLost
  <2>2. SUFFICES ASSUME NEW r \in enqueued
                 PROVE  \/ counted'[r] # <<>> \/ call[r] = "offering"
                        \/ r \in InQueue \/ r \in kept
    BY DEF NothingLost
  <2>3. r \in Records
    BY <1>1 DEF CallType
  <2> QED
    BY <1>2, <2>1, <2>3
<1> QED
  BY <1>2, <1>7, <1>8 DEF Ownership

\* dispatch and handOff: a piece is halved, counted, or moved on to the pool.
LEMMA DispatchOwns ==
    ASSUME TypeOK, Ownership, UNCHANGED OtherThanSender, Dispatch \/ HandOffAbandon
    PROVE  Ownership'
<1>0. /\ UNCHANGED <<call, enqueued, wpc, work, cpc, queue, jobs, senderDone>>
      /\ UNCHANGED <<InCalls, InQueue, InJobs, InWork>>
      /\ spc \in {"dispatch", "handOff"}
      /\ buf' = buf
  BY DEF OtherThanSender, closeVars, Dispatch, HandOffAbandon, OtherThanBatch, InCalls, InQueue,
     InJobs, InWork, DispatchFits, DispatchSplit, DispatchOversize, DispatchSplitFails, Continue
<1>1. /\ Apart /\ Distinct /\ Uncounted /\ Phases /\ CountedOnce /\ NothingLost
      /\ SenderType /\ ~senderDone /\ cpc # "closed" /\ cpc # "counting"
  BY <1>0, NotClosedYet DEF Ownership, TypeOK
\* A piece leaves todo for the hand-off.
<1>2. ASSUME NEW b \in todo, spc = "dispatch"
      PROVE  /\ b \subseteq InTodo /\ b \in SUBSET Records
             /\ \A c \in todo \ {b} : c \cap b = {}
             /\ hand = {}
  BY <1>1, <1>2 DEF SenderType, Batches, InTodo, Distinct, Phases
<1>3. ASSUME NEW b \in todo, spc = "dispatch", todo' = todo \ {b}
      PROVE  /\ InTodo = InTodo' \cup b /\ InTodo' \cap b = {}
             /\ \A x, y \in todo' : x = y \/ x \cap y = {}
  BY <1>1, <1>2, <1>3 DEF InTodo, Distinct
<1>4. ASSUME NEW b \in todo, spc = "dispatch", DispatchFits(b)
      PROVE  Ownership'
  <2>1. todo' = todo \ {b} /\ hand' = b /\ counted' = counted /\ spc' = "handOff"
    BY <1>4 DEF DispatchFits
  <2>2. InSender' = InSender
    BY <1>0, <1>2, <1>3, <1>4, <2>1 DEF InSender
  <2>3. Apart' /\ Distinct'
    BY <1>0, <1>1, <1>2, <1>3, <1>4, <2>1, <2>2 DEF Apart, Distinct
  <2>4. Uncounted' /\ CountedOnce' /\ NothingLost'
    BY <1>0, <1>1, <2>1, <2>2 DEF Uncounted, CountedOnce, NothingLost
  <2>5. Phases'
    BY <1>0, <1>1, <2>1 DEF Phases
  <2> QED
    BY <2>3, <2>4, <2>5 DEF Ownership
<1>5. ASSUME NEW b \in todo, spc = "dispatch", DispatchSplit(b)
      PROVE  Ownership'
  <2>1. PICK h \in Halves(b) : todo' = Halved(todo, b, h)
    BY <1>5 DEF DispatchSplit
  <2>2. hand' = hand /\ counted' = counted /\ spc' = spc
    BY <1>5 DEF DispatchSplit
  <2>3. /\ \A r : (\E q \in todo' : r \in q) <=> (\E p \in todo : r \in p)
        /\ \A x, y \in todo' : x = y \/ x \cap y = {}
    BY <1>1, <2>1, HalvedPieces DEF Distinct
  <2>4. InTodo' = InTodo
    BY <2>3 DEF InTodo
  <2>5. InSender' = InSender
    BY <1>0, <2>2, <2>4 DEF InSender
  <2>6. Apart' /\ Distinct' /\ Phases'
    BY <1>0, <1>1, <1>5, <2>2, <2>3, <2>4, <2>5 DEF Apart, Distinct, Phases
  <2>7. Uncounted' /\ CountedOnce' /\ NothingLost'
    BY <1>0, <1>1, <2>2, <2>5 DEF Uncounted, CountedOnce, NothingLost
  <2> QED
    BY <2>6, <2>7 DEF Ownership
\* A piece is counted instead of dispatched.
<1>6. ASSUME NEW b \in todo, spc = "dispatch", NEW bucket \in Buckets,
             counted' = Tally(b, bucket), Continue(todo \ {b}), hand' = hand
      PROVE  Ownership'
  <2>1. /\ todo' = todo \ {b}
        /\ \/ spc' = "dispatch"
           \/ todo' = {} /\ spc' # "exited"
    BY <1>1, <1>6 DEF Continue, SenderType
  <2>2. Phases'
    BY <1>0, <1>1, <1>2, <1>6, <2>1 DEF Phases
  <2>3. /\ InSender = InSender' \cup b
        /\ b \cap (InSender' \cup InJobs' \cup InWork') = {}
        /\ b \cap (InCalls \cup InQueue) = {}
    BY <1>0, <1>1, <1>2, <1>3, <1>6, <2>1 DEF InSender, Apart
  <2>4. Apart' /\ Distinct'
    BY <1>0, <1>1, <1>3, <1>6, <2>1, <2>3 DEF Apart, Distinct
  <2>5. \A r \in b : counted[r] = <<>>
    BY <1>1, <2>3 DEF Uncounted
  <2> QED
    BY <1>0, <1>2, <1>6, <2>2, <2>3, <2>4, <2>5, GivenUp
<1>7. CASE Dispatch
  <2>1. PICK b \in todo : \/ DispatchFits(b) \/ DispatchSplit(b)
                          \/ DispatchOversize(b) \/ DispatchSplitFails(b)
    BY <1>7 DEF Dispatch
  <2>2. spc = "dispatch" /\ "oversize" \in Buckets /\ "rejected" \in Buckets
    BY <1>7 DEF Dispatch, Buckets
  <2>3. CASE DispatchOversize(b)
    BY <1>6, <2>2, <2>3 DEF DispatchOversize
  <2>4. CASE DispatchSplitFails(b)
    BY <1>6, <2>2, <2>4 DEF DispatchSplitFails
  <2> QED
    BY <1>4, <1>5, <2>1, <2>2, <2>3, <2>4
<1>8. CASE HandOffAbandon
  <2>1. /\ spc = "handOff" /\ hand' = {} /\ Continue(todo)
        /\ counted' = Tally(hand, IF done THEN "closed" ELSE "backlog")
    BY <1>8 DEF HandOffAbandon, Abandoned
  <2>2. (IF done THEN "closed" ELSE "backlog") \in Buckets
    BY DEF Buckets
  <2>3. /\ todo' = todo
        /\ \/ spc' = "dispatch"
           \/ todo' = {} /\ spc' # "exited"
    BY <1>1, <2>1 DEF Continue, SenderType
  <2>4. Phases' /\ InTodo' = InTodo
    BY <1>0, <1>1, <2>1, <2>3 DEF Phases, InTodo
  <2>5. /\ InSender = InSender' \cup hand
        /\ hand \cap (InSender' \cup InJobs' \cup InWork') = {}
        /\ hand \cap (InCalls \cup InQueue) = {}
    BY <1>0, <1>1, <2>1, <2>4 DEF InSender, Apart
  <2>6. Apart' /\ Distinct'
    BY <1>0, <1>1, <2>1, <2>3, <2>4, <2>5 DEF Apart, Distinct
  <2>7. /\ \A r \in hand : counted[r] = <<>>
        /\ hand \in SUBSET Records
    BY <1>1, <2>5 DEF Uncounted, SenderType
  <2> QED
    BY <1>0, <2>1, <2>2, <2>4, <2>5, <2>6, <2>7, GivenUp
<1> QED
  BY <1>7, <1>8

\* The hand-off proper: the piece joins the end of the job channel.
LEMMA HandOffOwns ==
    ASSUME TypeOK, Ownership, UNCHANGED OtherThanSender, HandOffSend
    PROVE  Ownership'
<1>0. /\ UNCHANGED <<call, enqueued, wpc, work, cpc, queue, senderDone, buf, todo, counted>>
      /\ UNCHANGED <<InCalls, InQueue, InTodo, InWork>>
      /\ spc = "handOff" /\ spc' = "record" /\ hand' = {} /\ jobs' = Append(jobs, hand)
  BY DEF OtherThanSender, closeVars, HandOffSend, InCalls, InQueue, InTodo, InWork
<1>1. /\ Apart /\ Distinct /\ Uncounted /\ Phases /\ CountedOnce /\ NothingLost
      /\ hand \in Batches /\ jobs \in Seq(Batches) /\ hand \subseteq Records
  BY <1>0 DEF Ownership, TypeOK, SenderType, WorkerType, Batches
<1>2. /\ DOMAIN jobs' = 1 .. (Len(jobs) + 1) /\ DOMAIN jobs = 1 .. Len(jobs)
      /\ Len(jobs) \in Nat
      /\ \A i \in 1 .. Len(jobs) : jobs'[i] = jobs[i]
      /\ jobs'[Len(jobs) + 1] = hand
  BY <1>0, <1>1, AppendProperties, LenProperties
<1>3. InJobs' = InJobs \cup hand
  BY <1>1, <1>2 DEF InJobs
<1>4. \A i \in DOMAIN jobs : jobs[i] \cap hand = {}
  <2>1. SUFFICES ASSUME NEW i \in DOMAIN jobs, NEW r \in hand, r \in jobs[i]
                 PROVE  FALSE
    OBVIOUS
  <2>2. r \in InJobs
    BY <1>1, <2>1 DEF InJobs
  <2> QED
    BY <1>1, <2>2 DEF Apart
<1>5. Distinct'
  BY <1>0, <1>1, <1>2, <1>4 DEF Distinct
<1>6. Apart'
  BY <1>0, <1>1, <1>3 DEF Apart, InSender
<1>7. Uncounted' /\ CountedOnce' /\ NothingLost'
  BY <1>0, <1>1, <1>3 DEF Uncounted, CountedOnce, NothingLost, InSender
<1>8. Phases'
  BY <1>0, <1>1 DEF Phases
<1> QED
  BY <1>5, <1>6, <1>7, <1>8 DEF Ownership

\* The sender's bookkeeping with the pool moves no record.
LEMMA PoolStepOwns ==
    ASSUME TypeOK, Ownership, UNCHANGED OtherThanSender,
           RecordDispatch \/ Await \/ SenderStop \/ SenderJoined \/ SenderExit
    PROVE  Ownership'
<1>1. /\ UNCHANGED <<call, enqueued, counted, queue, buf, todo, hand, jobs, work, wpc, cpc>>
      /\ Phases /\ SenderType
  BY DEF OtherThanSender, closeVars, RecordDispatch, Continue, Await, SenderStop, SenderJoined,
     SenderExit, batchVars, Ownership, TypeOK
<1>2. CASE RecordDispatch
  <2>1. /\ spc = "record" /\ senderDone' = senderDone
        /\ spc' = "dispatch" \/ (todo = {} /\ spc' = resume)
    BY <1>2 DEF RecordDispatch, Continue
  <2>2. Phases'
    BY <1>1, <2>1 DEF Phases, SenderType
  <2> QED
    BY <1>1, <2>2, NothingMoves
<1>3. CASE Await \/ SenderStop \/ SenderJoined \/ SenderExit
  <2>1. /\ spc \in {"await", "stop", "joining", "exiting"}
        /\ spc' = "exited" \/ senderDone' = senderDone
    BY <1>3 DEF Await, SenderStop, SenderJoined, SenderExit
  <2>2. Phases'
    <3>1. CASE SenderExit
      BY <1>1, <3>1 DEF Phases, SenderExit
    <3>2. CASE Await \/ SenderStop \/ SenderJoined
      <4>1. senderDone' = senderDone /\ spc' # "exited"
        BY <3>2 DEF Await, SenderStop, SenderJoined
      <4> QED
        BY <1>1, <2>1, <4>1 DEF Phases
    <3> QED
      BY <1>3, <3>1, <3>2
  <2> QED
    BY <1>1, <2>2, NothingMoves
<1> QED
  BY <1>2, <1>3

-----------------------------------------------------------------------------
(* The upload workers                                                      *)

\* A worker takes one batch out of the job channel, and only that one.
LEMMA JobsTail ==
    ASSUME TypeOK, Distinct, jobs # <<>>, jobs' = Tail(jobs)
    PROVE  /\ \A i, j \in DOMAIN jobs' : i = j \/ jobs'[i] \cap jobs'[j] = {}
           /\ InJobs = InJobs' \cup Head(jobs)
           /\ Head(jobs) \cap InJobs' = {}
           /\ Head(jobs) \in Batches
<1>1. jobs \in Seq(Batches) /\ Len(jobs) \in Nat /\ Len(jobs) > 0
  BY EmptySeq, LenProperties DEF TypeOK, WorkerType
<1>2. /\ Tail(jobs) \in Seq(Batches) /\ Len(Tail(jobs)) = Len(jobs) - 1
      /\ \A i \in 1 .. Len(jobs) - 1 : Tail(jobs)[i] = jobs[i + 1]
      /\ Head(jobs) = jobs[1]
  BY <1>1
<1>3. DOMAIN jobs' = 1 .. (Len(jobs) - 1) /\ DOMAIN jobs = 1 .. Len(jobs)
  BY <1>1, <1>2
<1>4. \A i \in DOMAIN jobs' : i + 1 \in DOMAIN jobs /\ jobs'[i] = jobs[i + 1] /\ i + 1 # 1
  BY <1>1, <1>2, <1>3
<1>5. \A i \in DOMAIN jobs : i = 1 \/ (i - 1 \in DOMAIN jobs' /\ jobs'[i - 1] = jobs[i])
  BY <1>1, <1>2, <1>3
<1>6. 1 \in DOMAIN jobs
  BY <1>1, <1>3
<1>7. Head(jobs) \in Batches /\ Head(jobs) \subseteq Records
  BY <1>1, <1>2 DEF Batches
<1>8. \A i, j \in DOMAIN jobs' : i = j \/ jobs'[i] \cap jobs'[j] = {}
  <2>1. SUFFICES ASSUME NEW i \in DOMAIN jobs', NEW j \in DOMAIN jobs', i # j
                 PROVE  jobs'[i] \cap jobs'[j] = {}
    OBVIOUS
  <2>2. i + 1 # j + 1
    BY <1>3, <2>1
  <2> QED
    BY <1>4, <2>2 DEF Distinct
<1>9. Head(jobs) \cap InJobs' = {}
  <2>1. \A i \in DOMAIN jobs' : jobs'[i] \cap Head(jobs) = {}
    BY <1>2, <1>4, <1>6 DEF Distinct
  <2> QED
    BY <2>1 DEF InJobs
<1>10. InJobs \subseteq InJobs' \cup Head(jobs)
  <2>1. SUFFICES ASSUME NEW r \in Records, NEW i \in DOMAIN jobs, r \in jobs[i]
                 PROVE  r \in InJobs' \cup Head(jobs)
    BY DEF InJobs
  <2>2. CASE i = 1
    BY <1>2, <2>1, <2>2
  <2>3. CASE i # 1
    BY <1>5, <2>1, <2>3 DEF InJobs
  <2> QED
    BY <2>2, <2>3
<1>11. InJobs' \cup Head(jobs) \subseteq InJobs
  <2>1. InJobs' \subseteq InJobs
    BY <1>4 DEF InJobs
  <2>2. Head(jobs) \subseteq InJobs
    BY <1>2, <1>6, <1>7 DEF InJobs
  <2> QED
    BY <2>1, <2>2
<1> QED
  BY <1>7, <1>8, <1>9, <1>10, <1>11

\* The batch a worker receives is the worker's alone (transport.go, worker).
LEMMA ReceiveOwns ==
    ASSUME TypeOK, Ownership, NEW w \in Workers, WorkerReceive(w),
           UNCHANGED <<callVars, chanVars, senderVars, flushVars, closeVars>>
    PROVE  Ownership'
<1>0. /\ UNCHANGED <<call, enqueued, queue, senderDone, buf, todo, hand, counted, spc, cpc>>
      /\ UNCHANGED <<InCalls, InQueue, InTodo, InSender>>
      /\ wpc[w] = "idle" /\ jobs # <<>> /\ jobs' = Tail(jobs)
      /\ work' = [work EXCEPT ![w] = {Head(jobs)}]
      /\ wpc' = [wpc EXCEPT ![w] = "upload"]
  BY DEF WorkerReceive, callVars, chanVars, senderVars, batchVars, closeVars, InCalls, InQueue,
     InTodo, InSender
<1>1. /\ Apart /\ Distinct /\ Uncounted /\ Phases /\ CountedOnce /\ NothingLost
      /\ work \in [Workers -> SUBSET Batches]
      /\ wpc \in [Workers -> {"idle", "upload", "exited"}]
  BY DEF Ownership, TypeOK, WorkerType
<1> DEFINE b == Head(jobs)
<1>2. /\ \A i, j \in DOMAIN jobs' : i = j \/ jobs'[i] \cap jobs'[j] = {}
      /\ InJobs = InJobs' \cup b /\ b \cap InJobs' = {}
      /\ b \in Batches
  BY <1>0, <1>1, JobsTail
<1>3. work[w] = {} /\ b \subseteq Records
  BY <1>0, <1>1, <1>2 DEF Phases, Batches
<1> HIDE DEF b
<1>4. /\ \A v \in Workers : work'[v] = IF v = w THEN {b} ELSE work[v]
      /\ \A v \in Workers : wpc'[v] = IF v = w THEN "upload" ELSE wpc[v]
  BY <1>0, <1>1 DEF b
<1>5. InWork' = InWork \cup b
  BY <1>3, <1>4 DEF InWork
<1>6. b \cap InWork = {}
  BY <1>1, <1>2 DEF Apart
<1>7. \A v \in Workers : \A a \in work[v] : a \cap b = {}
  BY <1>3, <1>6 DEF InWork
<1>8. \A u, v \in Workers : \A a \in work'[u], c \in work'[v] : (u = v /\ a = c) \/ a \cap c = {}
  BY <1>1, <1>4, <1>7 DEF Distinct
<1>9. Distinct'
  BY <1>0, <1>1, <1>2, <1>8 DEF Distinct
<1>10. Apart'
  BY <1>0, <1>1, <1>2, <1>5 DEF Apart
<1>11. InJobs' \cup InWork' = InJobs \cup InWork
  BY <1>2, <1>5
<1>12. Uncounted' /\ CountedOnce' /\ NothingLost'
  BY <1>0, <1>1, <1>11 DEF Uncounted, CountedOnce, NothingLost
<1>13. Phases'
  BY <1>0, <1>1, <1>4 DEF Phases
<1> QED
  BY <1>9, <1>10, <1>12, <1>13 DEF Ownership

\* A worker counts a piece it is finished with, or halves it.
LEMMA UploadOwns ==
    ASSUME TypeOK, Ownership, NEW w \in Workers, Upload(w)
    PROVE  Ownership'
<1>0. /\ UNCHANGED <<call, enqueued, queue, senderDone, buf, todo, hand, spc, cpc, jobs, wpc>>
      /\ UNCHANGED <<InCalls, InQueue, InTodo, InJobs, InSender>>
  BY DEF Upload, UploadSent, UploadRejected, UploadOversize, UploadSplit, UploadSplitFails,
     UploadCancelled, Resolve, callVars, chanVars, senderVars, batchVars, closeVars, InCalls,
     InQueue, InTodo, InJobs, InSender
<1>1. /\ Apart /\ Distinct /\ Uncounted /\ Phases /\ CountedOnce /\ NothingLost
      /\ work \in [Workers -> SUBSET Batches]
  BY DEF Ownership, TypeOK, WorkerType
<1>2. ASSUME NEW b \in work[w], NEW bucket \in Buckets, Resolve(w, b, bucket)
      PROVE  Ownership'
  <2>1. /\ counted' = Tally(b, bucket)
        /\ \A v \in Workers : work'[v] = IF v = w THEN work[v] \ {b} ELSE work[v]
    BY <1>1, <1>2 DEF Resolve
  <2>2. b \in SUBSET Records /\ b \subseteq InWork
    BY <1>1, <1>2 DEF Batches, InWork
  <2>3. \A v \in Workers : \A a \in work'[v] : a \in work[v] /\ a \cap b = {}
    <3>1. SUFFICES ASSUME NEW v \in Workers, NEW a \in work'[v]
                   PROVE  a \in work[v] /\ a \cap b = {}
      OBVIOUS
    <3>2. a \in work[v] /\ ~(v = w /\ a = b)
      BY <2>1
    <3>3. (v = w /\ a = b) \/ a \cap b = {}
      BY <1>1, <1>2, <3>2 DEF Distinct
    <3> QED
      BY <3>2, <3>3
  <2>4. InWork = InWork' \cup b
    <3>1. InWork' \subseteq InWork
      BY <2>3 DEF InWork
    <3>2. ASSUME NEW r \in Records, NEW v \in Workers, NEW a \in work[v], r \in a
          PROVE  r \in InWork' \cup b
      <4>1. CASE v = w /\ a = b
        BY <3>2, <4>1
      <4>2. CASE ~(v = w /\ a = b)
        <5>1. a \in work'[v]
          BY <2>1, <4>2
        <5> QED
          BY <3>2, <5>1 DEF InWork
      <4> QED
        BY <4>1, <4>2
    <3> QED
      BY <2>2, <3>1, <3>2 DEF InWork
  <2>5. InWork' \cap b = {}
    BY <2>3 DEF InWork
  <2>6. b \cap (InSender' \cup InJobs' \cup InWork') = {} /\ b \cap (InCalls \cup InQueue) = {}
    BY <1>0, <1>1, <2>2, <2>5 DEF Apart, InSender
  <2>7. Apart'
    BY <1>0, <1>1, <2>4 DEF Apart
  <2>8. Distinct'
    BY <1>0, <1>1, <2>3 DEF Distinct
  <2>9. Phases'
    BY <1>0, <1>1, <2>1 DEF Phases
  <2>10. \A r \in b : counted[r] = <<>>
    BY <1>1, <2>2 DEF Uncounted
  <2> QED
    BY <1>0, <2>1, <2>2, <2>4, <2>6, <2>7, <2>8, <2>9, <2>10, GivenUp
<1>3. CASE UploadSplit(w)
  <2>1. PICK b \in work[w] : \E h \in Halves(b) : work' = [work EXCEPT ![w] = Halved(@, b, h)]
    BY <1>3 DEF UploadSplit
  <2>2. PICK h \in Halves(b) : work' = [work EXCEPT ![w] = Halved(@, b, h)]
    BY <2>1
  <2>3. counted' = counted
    BY <1>3 DEF UploadSplit
  <2>4. \A v \in Workers : work'[v] = IF v = w THEN Halved(work[w], b, h) ELSE work[v]
    BY <1>1, <2>2
  <2>5. /\ \A r : (\E q \in Halved(work[w], b, h) : r \in q) <=> (\E p \in work[w] : r \in p)
        /\ \A x, y \in Halved(work[w], b, h) : x = y \/ x \cap y = {}
        /\ \A q \in Halved(work[w], b, h) : \E p \in work[w] : q \subseteq p
    <3>1. \A x, y \in work[w] : x = y \/ x \cap y = {}
      BY <1>1 DEF Distinct
    <3> QED
      BY <3>1, HalvedPieces
  <2>6. InWork' = InWork
    BY <2>4, <2>5 DEF InWork
  <2>7. \A v \in Workers : v # w =>
          \A a \in work[v], q \in Halved(work[w], b, h) : a \cap q = {}
    <3>1. SUFFICES ASSUME NEW v \in Workers, v # w, NEW a \in work[v],
                          NEW q \in Halved(work[w], b, h)
                   PROVE  a \cap q = {}
      OBVIOUS
    <3>2. PICK p \in work[w] : q \subseteq p
      BY <2>5
    <3>3. a \cap p = {}
      BY <1>1, <3>1 DEF Distinct
    <3> QED
      BY <3>2, <3>3
  <2>8. \A u, v \in Workers : \A a \in work'[u], c \in work'[v] :
          (u = v /\ a = c) \/ a \cap c = {}
    BY <1>1, <2>4, <2>5, <2>7 DEF Distinct
  <2>9. Distinct' /\ Apart'
    BY <1>0, <1>1, <2>6, <2>8 DEF Distinct, Apart
  <2>10. wpc[w] = "upload"
    BY <1>1, <2>1 DEF Phases
  <2>11. Phases'
    BY <1>0, <1>1, <2>4, <2>10 DEF Phases
  <2>12. Uncounted' /\ CountedOnce' /\ NothingLost'
    BY <1>0, <1>1, <2>3, <2>6 DEF Uncounted, CountedOnce, NothingLost
  <2> QED
    BY <2>9, <2>11, <2>12 DEF Ownership
<1>4. {"sent", "rejected", "oversize", "closed"} \subseteq Buckets
  BY DEF Buckets
<1> QED
  BY <1>2, <1>3, <1>4 DEF Upload, UploadSent, UploadRejected, UploadOversize, UploadSplitFails,
     UploadCancelled

\* Any step of an upload worker.
LEMMA WorkerOwns ==
    ASSUME TypeOK, Ownership, NEW w \in Workers, Worker(w)
    PROVE  Ownership'
<1>1. CASE Upload(w)
  BY <1>1, UploadOwns
<1>2. CASE /\ WorkerReceive(w)
           /\ UNCHANGED <<callVars, chanVars, senderVars, flushVars, closeVars>>
  BY <1>2, ReceiveOwns
<1>3. CASE /\ WorkerExit(w) \/ UploadComplete(w)
           /\ UNCHANGED <<callVars, chanVars, senderVars, flushVars, closeVars>>
  <2>1. /\ UNCHANGED <<call, enqueued, counted, queue, buf, todo, hand, jobs, work>>
        /\ UNCHANGED <<spc, senderDone, cpc>>
        /\ work[w] = {}
        /\ \E c \in {"idle", "exited"} : wpc' = [wpc EXCEPT ![w] = c]
    BY <1>3 DEF WorkerExit, UploadComplete, callVars, chanVars, senderVars, batchVars, closeVars,
       Ownership, Phases
  <2>2. Phases'
    BY <2>1 DEF Ownership, Phases, TypeOK, WorkerType
  <2> QED
    BY <2>1, <2>2, NothingMoves
<1> QED
  BY <1>1, <1>2, <1>3 DEF Worker

-----------------------------------------------------------------------------
(* Flush and Close                                                         *)

\* Close counts what is left in the queue, behind a sender that has exited.
LEMMA LeftoverOwns ==
    ASSUME TypeOK, Ownership, CloseLeftover, UNCHANGED OtherThanFlush
    PROVE  Ownership'
<1>0. /\ UNCHANGED <<call, enqueued, queue, senderDone, buf, todo, hand, jobs, work, spc, wpc>>
      /\ UNCHANGED <<InCalls, InQueue, InTodo, InJobs, InWork, InSender>>
      /\ cpc = "counting" /\ cpc' = "closed" /\ counted' = Tally(InQueue, "closed")
  BY DEF CloseLeftover, Leftover, OtherThanFlush, callVars, senderVars, batchVars, workerVars,
     chanVars, InCalls, InQueue, InTodo, InJobs, InWork, InSender
<1>1. /\ Apart /\ Distinct /\ Uncounted /\ Phases /\ CountedOnce /\ NothingLost
      /\ CallType
  BY DEF Ownership, TypeOK
<1>2. /\ \A r \in InQueue : counted[r] = <<>>
      /\ "closed" \in Buckets
  BY <1>0, <1>1 DEF Uncounted, Buckets
<1>3. /\ CountedOnce'
      /\ \A r \in Records : r \in InQueue => counted'[r] # <<>>
      /\ \A r \in Records : r \notin InQueue => counted'[r] = counted[r]
  BY <1>0, <1>1, <1>2, TallyOnce
<1>4. Apart' /\ Distinct'
  BY <1>0, <1>1 DEF Apart, Distinct
<1>5. Phases'
  BY <1>0, <1>1 DEF Phases
<1>6. Uncounted'
  <2>1. \A r \in InCalls \cup InSender \cup InJobs \cup InWork : r \in Records /\ r \notin InQueue
    BY <1>1, PartsAreRecords DEF Apart, InSender
  <2> QED
    BY <1>0, <1>1, <1>3, <2>1 DEF Uncounted
<1>7. NothingLost'
  <2>1. \A r \in enqueued : r \in Records
    BY <1>1 DEF CallType
  <2> QED
    BY <1>0, <1>1, <1>3, <2>1 DEF NothingLost
<1> QED
  BY <1>3, <1>4, <1>5, <1>6, <1>7 DEF Ownership

\* No other step of a Flush or Close call touches a record.
LEMMA FlushCloseOwns ==
    ASSUME TypeOK, Ownership, UNCHANGED OtherThanFlush,
           \/ \E f \in Flushes : \/ FlushSenderGone(f) \/ FlushReplied(f)
                                  \/ FlushCtxDone(f) \/ Expire(f) \/ FlushCall(f)
           \/ CloseBegin \/ CloseShutdown \/ CloseStopped \/ CloseTimeout \/ CloseAborted
    PROVE  Ownership'
<1>1. /\ UNCHANGED <<call, enqueued, queue, buf, todo, hand, jobs, work, spc, wpc>>
      /\ Phases
  BY DEF OtherThanFlush, callVars, senderVars, batchVars, workerVars, Ownership
<1>2. /\ UNCHANGED <<counted, senderDone>>
      /\ \/ cpc' = cpc
         \/ cpc # "closed" /\ cpc' \in {"flushing", "waiting", "aborting"}
         \/ cpc # "closed" /\ cpc' = "counting" /\ senderDone
  <2>1. CASE \E f \in Flushes : \/ FlushSenderGone(f) \/ FlushReplied(f)
                                \/ FlushCtxDone(f) \/ Expire(f) \/ FlushCall(f)
    BY <2>1 DEF FlushSenderGone, FlushReplied, FlushCtxDone, FlushReturn, Expire, FlushCall,
       chanVars, closeVars
  <2>2. CASE CloseBegin \/ CloseShutdown \/ CloseStopped \/ CloseTimeout \/ CloseAborted
    BY <2>2 DEF CloseBegin, CloseShutdown, CloseStopped, CloseTimeout, CloseAborted, SenderGone,
       chanVars
  <2> QED
    BY <2>1, <2>2
<1>3. Phases'
  BY <1>1, <1>2 DEF Phases
<1> QED
  BY <1>1, <1>2, <1>3, NothingMoves

-----------------------------------------------------------------------------
(* The specification                                                       *)

\* Every step of the client keeps the conservation law.
LEMMA StepOwns ==
    ASSUME TypeOK, Ownership, [Next]_vars
    PROVE  Ownership'
<1>1. ASSUME NEW r \in Records, Enqueue(r) PROVE Ownership'
  BY <1>1, EnqueueOwns
<1>2. CASE Sender
  BY <1>2, BatchOwns, DispatchOwns, HandOffOwns, PoolStepOwns DEF Sender
<1>3. CASE TimerFires \/ UNCHANGED vars
  <2>1. /\ UNCHANGED <<call, enqueued, counted, queue, buf, todo, hand, jobs, work>>
        /\ UNCHANGED <<spc, senderDone, cpc, wpc>>
    BY <1>3 DEF TimerFires, vars, callVars, chanVars, senderVars, batchVars, workerVars, closeVars
  <2>2. Phases'
    BY <2>1 DEF Ownership, Phases
  <2> QED
    BY <2>1, <2>2, NothingMoves
<1>4. ASSUME NEW w \in Workers, Worker(w) PROVE Ownership'
  BY <1>4, WorkerOwns
<1>5. CASE \/ \E f \in Flushes : FlushStep(f) \/ (Expire(f) /\ UNCHANGED OtherThanFlush)
           \/ Call
  BY <1>5, FlushCloseOwns DEF FlushStep, Call, Flushes
<1>6. CASE CloseStep
  BY <1>6, FlushCloseOwns, LeftoverOwns DEF CloseStep
<1>7. CASE Terminated
  BY <1>3, <1>7 DEF Terminated
<1> QED
  BY <1>1, <1>2, <1>3, <1>4, <1>5, <1>6, <1>7 DEF Next

\* A client fresh from NewClient holds and counts nothing.
LEMMA InitOwns ==
    ASSUME Init
    PROVE  Ownership
<1>1. /\ counted = [r \in Records |-> <<>>]
      /\ queue = <<>> /\ buf = {} /\ todo = {} /\ hand = {} /\ jobs = <<>>
      /\ work = [w \in Workers |-> {}] /\ enqueued = {}
      /\ spc = "select" /\ senderDone = FALSE /\ cpc = "idle"
  BY DEF Init, Fresh
<1>2. /\ \A r \in Records : counted[r] = <<>>
      /\ DOMAIN queue = {} /\ DOMAIN jobs = {}
      /\ \A w \in Workers : work[w] = {}
      /\ Len(<<>>) = 0
  BY <1>1
<1>3. /\ InQueue = {} /\ InTodo = {} /\ InJobs = {} /\ InWork = {} /\ InSender = {}
  BY <1>1, <1>2 DEF InQueue, InTodo, InJobs, InWork, InSender
<1>4. Apart /\ Distinct
  BY <1>1, <1>2, <1>3 DEF Apart, Distinct
<1>5. Uncounted /\ Phases
  BY <1>1, <1>2, <1>3 DEF Uncounted, Phases, InCalls
<1>6. CountedOnce /\ NothingLost
  BY <1>1, <1>2 DEF CountedOnce, NothingLost
<1> QED
  BY <1>4, <1>5, <1>6 DEF Ownership

\* Every record has one owner and at most one terminal count, in every state of
\* every client, however many callers, workers, records and faults.
THEOREM Conservation == Spec => []Ownership
<1>1. Init => Ownership
  BY InitOwns
<1>2. TypeOK /\ Ownership /\ [Next]_vars => Ownership'
  BY StepOwns
<1> QED
  BY <1>1, <1>2, TypeCorrect, PTL DEF Spec

\* Stats never counts a record twice (client.go, Stats).
THEOREM NeverCountedTwice == Spec => []CountedOnce
<1>1. Ownership => CountedOnce
  BY DEF Ownership
<1> QED
  BY <1>1, Conservation, PTL

\* A record offered and not counted is still in the pipeline (client.go, Stats).
THEOREM NeverLost == Spec => []NothingLost
<1>1. Ownership => NothingLost
  BY DEF Ownership
<1> QED
  BY <1>1, Conservation, PTL

-----------------------------------------------------------------------------
(* Refinement: every step of Client either leaves the ledger alone or is    *)
(* one of its four actions.                                                *)

\* A record is offered when its Enqueue has counted it, and only then.
Offered == \A r \in Records :
             r \in enqueued <=> call[r] \in {"offering", "returned", "refused"}

\* The sender's last steps come after its workers have exited (wg.Wait).
Joined == spc \in {"exiting", "exited"} => \A w \in Workers : wpc[w] = "exited"

\* What the refinement rests on.
Accounted == TypeOK /\ Ownership /\ Offered /\ Joined

\* Whatever the client holds has been offered.
LEMMA HeldIsOffered ==
    ASSUME Accounted
    PROVE  InQueue \cup InSender \cup InJobs \cup InWork \subseteq enqueued
<1>1. \A r \in InQueue \cup InSender \cup InJobs \cup InWork : r \in Records /\ r \notin InCalls
  BY PartsAreRecords DEF Accounted, Ownership, Apart, InSender
<1>2. \A r \in Records : r \notin InCalls => call[r] \in {"returned", "refused"}
  BY DEF Accounted, TypeOK, CallType, CallStates, InCalls
<1> QED
  BY <1>1, <1>2 DEF Accounted, Offered

\* Once Close has returned, nothing is left to deliver (client.go, Close).
LEMMA ClosedIsStill ==
    ASSUME Accounted, cpc = "closed"
    PROVE  spc = "exited" /\ InWork = {}
<1>1. spc = "exited"
  BY DEF Accounted, Ownership, Phases
<1>2. \A w \in Workers : work[w] = {}
  BY <1>1 DEF Accounted, Ownership, Phases, Joined
<1> QED
  BY <1>1, <1>2 DEF InWork

-----------------------------------------------------------------------------
(* Accounted is an invariant.                                              *)

\* Only Enqueue counts a record as offered, at the step that decides its call.
LEMMA OfferedStep ==
    ASSUME Accounted, [Next]_vars
    PROVE  Offered'
<1>1. /\ Offered /\ call \in [Records -> CallStates] /\ enqueued \subseteq Records
  BY DEF Accounted, TypeOK, CallType
<1>2. ASSUME NEW r \in Records, Enqueue(r) PROVE Offered'
  <2>1. \/ /\ \E c \in {"admitted", "failed"} : call' = [call EXCEPT ![r] = c]
           /\ enqueued' = enqueued /\ call[r] \in {"idle", "admitted"}
        \/ /\ \E c \in {"offering", "returned", "refused"} : call' = [call EXCEPT ![r] = c]
           /\ enqueued' = enqueued \cup {r}
        \/ /\ call' = [call EXCEPT ![r] = "returned"]
           /\ enqueued' = enqueued /\ call[r] = "offering"
    BY <1>2 DEF Enqueue, EnqueueEntry, EnqueueClosed, EnqueueBurst, EnqueuePrecheck,
       EnqueueEncodeFails, EnqueueOversize, EnqueueEncode, EnqueueSend, EnqueueShed
  <2> QED
    BY <1>1, <2>1 DEF Offered
<1>3. CASE UNCHANGED <<call, enqueued>>
  BY <1>1, <1>3 DEF Offered
<1>4. (\A r \in Records : ~Enqueue(r)) => UNCHANGED <<call, enqueued>>
  <2>1. \/ Sender \/ TimerFires \/ (\E w \in Workers : Worker(w)) \/ CloseStep \/ Call
        \/ (\E f \in Flushes : FlushStep(f) \/ (Expire(f) /\ UNCHANGED OtherThanFlush))
        \/ Terminated \/ UNCHANGED vars \/ (\E r \in Records : Enqueue(r))
    BY DEF Next
  <2> QED
    BY <2>1 DEF Sender, OtherThanSender, TimerFires, Worker, Upload, CloseStep, Call, FlushStep,
       OtherThanFlush, Terminated, vars, callVars
<1> QED
  BY <1>2, <1>3, <1>4

\* No worker comes back, and the sender passes wg.Wait only behind all of them.
LEMMA JoinedStep ==
    ASSUME Accounted, [Next]_vars
    PROVE  Joined'
<1>1. Joined /\ wpc \in [Workers -> {"idle", "upload", "exited"}]
  BY DEF Accounted, TypeOK, WorkerType
<1>2. ASSUME NEW w \in Workers, Worker(w) PROVE Joined'
  <2>1. spc' = spc
    BY <1>2 DEF Worker, Upload, senderVars
  <2>2. wpc' = wpc \/ wpc[w] # "exited"
    <3>1. CASE WorkerReceive(w) \/ WorkerExit(w) \/ UploadComplete(w)
      BY <3>1 DEF WorkerReceive, WorkerExit, UploadComplete
    <3>2. CASE Upload(w)
      BY <3>2 DEF Upload, UploadSent, UploadRejected, UploadOversize, UploadSplit,
         UploadSplitFails, UploadCancelled, Resolve
    <3> QED
      BY <1>2, <3>1, <3>2 DEF Worker
  <2> QED
    BY <1>1, <2>1, <2>2 DEF Joined
<1>3. CASE Sender
  <2>1. wpc' = wpc
    BY <1>3 DEF Sender, OtherThanSender
  <2>2. CASE SenderJoined \/ SenderExit
    BY <1>1, <2>1, <2>2 DEF SenderJoined, SenderExit, Joined
  <2>3. CASE ~(SenderJoined \/ SenderExit)
    <3>1. spc' \notin {"exiting", "exited"}
      <4>1. SenderType
        BY DEF Accounted, TypeOK
      <4>2. CASE SelectReceive \/ SelectTimer \/ DrainReceive \/ DrainFinish
        BY <4>2 DEF SelectReceive, SelectTimer, DrainReceive, DrainFinish, Accumulate, Flush
      <4>3. CASE SelectShutdown \/ (\E f \in Flushes : SelectFlush(f)) \/ HandOffSend \/ Await
                 \/ SenderStop
        BY <4>3 DEF SelectShutdown, SelectFlush, HandOffSend, Await, SenderStop
      <4>4. CASE Dispatch \/ RecordDispatch \/ HandOffAbandon
        BY <4>1, <4>4 DEF Dispatch, DispatchFits, DispatchSplit, DispatchOversize,
           DispatchSplitFails, RecordDispatch, HandOffAbandon, Continue, SenderType
      <4> QED
        BY <1>3, <2>3, <4>2, <4>3, <4>4 DEF Sender
    <3> QED
      BY <3>1 DEF Joined
  <2> QED
    BY <2>2, <2>3
<1>4. CASE UNCHANGED <<spc, wpc>>
  BY <1>1, <1>4 DEF Joined
<1>5. CASE \/ \E r \in Records : Enqueue(r)
           \/ TimerFires \/ CloseStep \/ Call \/ Terminated \/ UNCHANGED vars
           \/ \E f \in Flushes : FlushStep(f) \/ (Expire(f) /\ UNCHANGED OtherThanFlush)
  <2>1. UNCHANGED <<spc, wpc>>
    BY <1>5 DEF Enqueue, TimerFires, CloseStep, Call, FlushStep, OtherThanFlush, Terminated, vars,
       senderVars, workerVars
  <2> QED
    BY <1>4, <2>1
<1> QED
  BY <1>2, <1>3, <1>5 DEF Next

\* What the refinement rests on holds in every reachable state.
LEMMA AccountedInvariant == Spec => []Accounted
<1>1. Init => Offered /\ Joined
  <2>1. ASSUME Init PROVE enqueued = {} /\ spc = "select" /\ \A r \in Records : call[r] = "idle"
    BY <2>1 DEF Init, Fresh
  <2> QED
    BY <2>1 DEF Offered, Joined
<1>2. TypeOK /\ Ownership /\ Offered /\ Joined /\ [Next]_vars => (Offered /\ Joined)'
  BY OfferedStep, JoinedStep DEF Accounted
<1>3. Spec => [](TypeOK /\ Ownership)
  BY TypeCorrect, Conservation, PTL
<1> QED
  BY <1>1, <1>2, <1>3, PTL DEF Spec, Accounted

-----------------------------------------------------------------------------
(* The refinement.                                                         *)

\* Filing uncounted records of the pipeline is a step of the ledger, unless it
\* delivers after Close.
LEMMA FilingSettles ==
    ASSUME TypeOK, NEW S \in SUBSET enqueued, S # {}, NEW b \in Buckets,
           counted' = Tally(S, b), \A r \in S : counted[r] = <<>>,
           cpc = "closed" => b \notin {"sent", "rejected", "backlog"},
           cpc' = cpc, enqueued' = enqueued
    PROVE  Promise!Next
<1>1. S \in SUBSET Records
  BY DEF TypeOK, CallType
<1>2. Promise!Settle(S, b)
  BY DEF Promise!Settle, Promise!Delivery, Tally
<1> QED
  BY <1>1, <1>2 DEF Promise!Next

\* Enqueue takes a record or turns it away; its late drop settles it.
LEMMA EnqueueKeepsPromise ==
    ASSUME Accounted, NEW r \in Records, Enqueue(r)
    PROVE  Promise!Next \/ UNCHANGED <<enqueued, counted, cpc>>
<1>1. /\ counted \in [Records -> Seq(Buckets)] /\ cpc' = cpc /\ TypeOK
      /\ call[r] \in {"idle", "admitted"} => r \notin enqueued
      /\ call[r] = "offering" => r \in enqueued /\ counted[r] = <<>>
  BY DEF Enqueue, closeVars, Accounted, TypeOK, CallType, Offered, Ownership, Uncounted, InCalls
<1>2. ASSUME NEW b \in Buckets, r \notin enqueued, enqueued' = enqueued \cup {r},
             counted' = Tally({r}, b)
      PROVE  Promise!Next
  <2>1. counted' = [counted EXCEPT ![r] = Append(@, b)]
    BY <1>1, <1>2 DEF Tally
  <2>2. Promise!Refuse(r, b)
    BY <1>1, <1>2, <2>1 DEF Promise!Refuse
  <2> QED
    BY <1>2, <2>2 DEF Promise!Next
<1>3. {"closed", "burst", "queueFull", "oversize"} \subseteq Buckets
  BY DEF Buckets
<1>4. CASE EnqueueClosed(r) \/ EnqueueBurst(r) \/ EnqueuePrecheck(r) \/ EnqueueOversize(r)
  BY <1>1, <1>2, <1>3, <1>4 DEF EnqueueClosed, EnqueueBurst, EnqueuePrecheck, EnqueueOversize,
     EnqueueShed
<1>5. CASE EnqueueEncode(r)
  <2>1. Promise!Accept(r)
    BY <1>1, <1>5 DEF EnqueueEncode, Promise!Accept
  <2> QED
    BY <2>1 DEF Promise!Next
<1>6. CASE EnqueueSend(r) /\ counted' # counted
  <2>1. /\ counted' = Tally({r}, "queueFull") /\ enqueued' = enqueued
        /\ call[r] = "offering"
    BY <1>6 DEF EnqueueSend
  <2>2. {r} \in SUBSET enqueued /\ {r} # {} /\ \A x \in {r} : counted[x] = <<>>
    BY <1>1, <2>1
  <2>3. "queueFull" \in Buckets /\ "queueFull" \notin {"sent", "rejected", "backlog"}
    BY <1>3
  <2> QED
    BY <1>1, <2>1, <2>2, <2>3, FilingSettles
<1>7. CASE EnqueueEntry(r) \/ EnqueueEncodeFails(r) \/ (EnqueueSend(r) /\ counted' = counted)
  BY <1>1, <1>7 DEF EnqueueEntry, EnqueueEncodeFails, EnqueueSend
<1> QED
  BY <1>4, <1>5, <1>6, <1>7 DEF Enqueue

\* The sender counts what it cannot pack, what is too large and what it gives
\* up on: records offered, and not counted before.
LEMMA SenderKeepsPromise ==
    ASSUME Accounted, Sender
    PROVE  Promise!Next \/ UNCHANGED <<enqueued, counted, cpc>>
<1>1. /\ enqueued' = enqueued /\ cpc' = cpc /\ TypeOK /\ SenderType
      /\ cpc # "closed"
  <2>1. spc # "exited"
    BY DEF Sender, SelectReceive, SelectTimer, SelectShutdown, SelectFlush, DrainReceive,
       DrainFinish, Dispatch, HandOffSend, RecordDispatch, HandOffAbandon, Await, SenderStop,
       SenderJoined, SenderExit
  <2> QED
    BY <2>1, NotClosedYet
       DEF Sender, OtherThanSender, closeVars, Accounted, Ownership, TypeOK
<1>2. /\ InQueue \cup InSender \subseteq enqueued
      /\ \A r \in InQueue \cup InSender : counted[r] = <<>>
      /\ {"rejected", "oversize", "closed", "backlog"} \subseteq Buckets
  BY <1>1, HeldIsOffered DEF Accounted, Ownership, Uncounted, Buckets
<1>3. ASSUME NEW S, S \subseteq InQueue \cup InSender, S # {},
             NEW b \in {"rejected", "oversize", "closed", "backlog"}, counted' = Tally(S, b)
      PROVE  Promise!Next
  BY <1>1, <1>2, <1>3, FilingSettles
<1>4. ASSUME NEW ctx, NEW b, b \subseteq InQueue \cup InSender, NEW next, Flush(ctx, b, next)
      PROVE  Promise!Next \/ counted' = counted
  BY <1>3, <1>4 DEF Flush
<1>5. CASE SelectReceive \/ DrainReceive
  <2> DEFINE b == buf \cup {Head(queue)}
  <2>1. queue # <<>> /\ queue' = Tail(queue)
    BY <1>5 DEF SelectReceive, DrainReceive
  <2>2. Head(queue) \in InQueue
    BY <1>1, <2>1, QueueTail DEF Accounted, Ownership
  <2>3. b \subseteq InQueue \cup InSender
    BY <2>2 DEF InSender
  <2>4. Accumulate(b) \/ Flush(Background, b, "select") \/ Flush(sctx, b, "drain")
    BY <1>5 DEF SelectReceive, DrainReceive
  <2> HIDE DEF b
  <2> QED
    BY <1>1, <1>4, <2>3, <2>4 DEF Accumulate
<1>6. CASE SelectTimer \/ DrainFinish
  <2>1. buf \subseteq InQueue \cup InSender
    BY DEF InSender
  <2> QED
    BY <1>1, <1>4, <1>6, <2>1 DEF SelectTimer, DrainFinish
<1>7. CASE Dispatch
  <2>1. PICK b \in todo : \/ DispatchFits(b) \/ DispatchSplit(b)
                          \/ DispatchOversize(b) \/ DispatchSplitFails(b)
    BY <1>7 DEF Dispatch
  <2>2. b \subseteq InQueue \cup InSender /\ b # {}
    BY <1>1 DEF InSender, InTodo, SenderType, Batches
  <2> QED
    BY <1>1, <1>3, <2>1, <2>2
       DEF DispatchFits, DispatchSplit, DispatchOversize, DispatchSplitFails
<1>8. CASE HandOffAbandon
  <2>1. hand \subseteq InQueue \cup InSender /\ hand # {}
    BY <1>1, <1>8 DEF InSender, SenderType, HandOffAbandon
  <2>2. \E b \in {"closed", "backlog"} : counted' = Tally(hand, b)
    BY <1>8 DEF HandOffAbandon, Abandoned
  <2> QED
    BY <1>3, <2>1, <2>2
<1>9. CASE \/ SelectShutdown \/ (\E f \in Flushes : SelectFlush(f)) \/ HandOffSend
           \/ RecordDispatch \/ Await \/ SenderStop \/ SenderJoined \/ SenderExit
  BY <1>1, <1>9 DEF SelectShutdown, SelectFlush, HandOffSend, RecordDispatch, Await, SenderStop,
     SenderJoined, SenderExit
<1> QED
  BY <1>5, <1>6, <1>7, <1>8, <1>9 DEF Sender

\* A worker counts each piece of its batch once, and none after Close.
LEMMA WorkerKeepsPromise ==
    ASSUME Accounted, NEW w \in Workers, Worker(w)
    PROVE  Promise!Next \/ UNCHANGED <<enqueued, counted, cpc>>
<1>1. /\ enqueued' = enqueued /\ cpc' = cpc /\ TypeOK /\ WorkerType
      /\ InWork \subseteq enqueued
      /\ \A r \in InWork : counted[r] = <<>>
  BY HeldIsOffered DEF Worker, Upload, callVars, closeVars, Accounted, TypeOK, Ownership, Uncounted
<1>2. ASSUME NEW b \in work[w], NEW bucket \in Buckets, Resolve(w, b, bucket)
      PROVE  Promise!Next
  <2>1. b \subseteq InWork /\ b # {}
    BY <1>1 DEF InWork, WorkerType, Batches
  <2>2. cpc # "closed"
    BY <2>1, ClosedIsStill
  <2> QED
    BY <1>1, <1>2, <2>1, <2>2, FilingSettles DEF Resolve
<1>3. {"sent", "rejected", "oversize", "closed"} \subseteq Buckets
  BY DEF Buckets
<1>4. CASE Upload(w)
  <2>1. CASE UploadSplit(w)
    BY <1>1, <2>1 DEF UploadSplit
  <2> QED
    BY <1>2, <1>3, <1>4, <2>1 DEF Upload, UploadSent, UploadRejected, UploadOversize,
       UploadSplitFails, UploadCancelled
<1>5. CASE WorkerReceive(w) \/ WorkerExit(w) \/ UploadComplete(w)
  BY <1>1, <1>5 DEF WorkerReceive, WorkerExit, UploadComplete
<1> QED
  BY <1>4, <1>5 DEF Worker

\* Close returns once, counting what is left in the queue in the same step.
LEMMA CloseKeepsPromise ==
    ASSUME Accounted, UNCHANGED OtherThanFlush,
           \/ \E f \in Flushes : \/ FlushSenderGone(f) \/ FlushReplied(f)
                                  \/ FlushCtxDone(f) \/ Expire(f) \/ FlushCall(f)
           \/ CloseBegin \/ CloseShutdown \/ CloseStopped \/ CloseTimeout \/ CloseAborted
           \/ CloseLeftover
    PROVE  Promise!Next \/ UNCHANGED <<enqueued, counted, cpc = "closed">>
<1>1. enqueued' = enqueued
  BY DEF OtherThanFlush, callVars
<1>2. CASE CloseLeftover
  <2>1. /\ InQueue \in SUBSET Records /\ InQueue \subseteq enqueued
        /\ \A r \in InQueue : counted[r] = <<>>
    BY <1>2, HeldIsOffered, PartsAreRecords DEF CloseLeftover, Accounted, Ownership, Uncounted
  <2>2. counted' = Tally(InQueue, "closed") /\ cpc = "counting" /\ cpc' = "closed"
    BY <1>2 DEF CloseLeftover, Leftover, InQueue
  <2>3. Promise!Close(InQueue)
    BY <1>1, <2>1, <2>2 DEF Promise!Close, Tally
  <2> QED
    BY <2>1, <2>3 DEF Promise!Next
<1>3. CASE CloseBegin \/ CloseShutdown \/ CloseStopped \/ CloseTimeout \/ CloseAborted
  BY <1>1, <1>3 DEF CloseBegin, CloseShutdown, CloseStopped, CloseTimeout, CloseAborted
<1>4. CASE \E f \in Flushes : \/ FlushSenderGone(f) \/ FlushReplied(f)
                              \/ FlushCtxDone(f) \/ Expire(f) \/ FlushCall(f)
  BY <1>1, <1>4 DEF FlushSenderGone, FlushReplied, FlushCtxDone, FlushReturn, Expire, FlushCall,
     closeVars
<1> QED
  BY <1>2, <1>3, <1>4

\* A step of the client is a step of the ledger, or does not touch it.
LEMMA StepKeepsPromise ==
    ASSUME Accounted, [Next]_vars
    PROVE  [Promise!Next]_(Promise!ledgerVars)
<1>1. SUFFICES Promise!Next \/ UNCHANGED <<enqueued, counted, cpc = "closed">>
  BY DEF Promise!ledgerVars
<1>2. UNCHANGED <<enqueued, counted, cpc>> => UNCHANGED <<enqueued, counted, cpc = "closed">>
  OBVIOUS
<1>3. CASE \E r \in Records : Enqueue(r)
  BY <1>2, <1>3, EnqueueKeepsPromise
<1>4. CASE Sender
  BY <1>2, <1>4, SenderKeepsPromise
<1>5. CASE \E w \in Workers : Worker(w)
  BY <1>2, <1>5, WorkerKeepsPromise
<1>6. CASE TimerFires \/ Terminated \/ UNCHANGED vars
  BY <1>2, <1>6 DEF TimerFires, Terminated, vars, callVars, closeVars
<1>7. CASE \/ \E f \in Flushes : FlushStep(f) \/ (Expire(f) /\ UNCHANGED OtherThanFlush)
           \/ Call \/ CloseStep
  BY <1>7, CloseKeepsPromise DEF FlushStep, Call, CloseStep, Flushes
<1> QED
  BY <1>3, <1>4, <1>5, <1>6, <1>7 DEF Next

\* The client keeps the ledger's promise: whatever its callers, the server and
\* the clock do, every record is offered once, counted at most once, under one
\* reason, for good, and nothing is delivered once Close has returned.
THEOREM PromiseKept == Spec => LedgerSpec
<1>1. Init => Promise!Init
  <2>1. ASSUME Init
        PROVE  enqueued = {} /\ counted = [r \in Records |-> <<>>] /\ cpc = "idle"
    BY <2>1 DEF Init, Fresh
  <2> QED
    BY <2>1 DEF Promise!Init
<1>2. Accounted /\ [Next]_vars => [Promise!Next]_(Promise!ledgerVars)
  BY StepKeepsPromise
<1> QED
  BY <1>1, <1>2, AccountedInvariant, PTL DEF Spec, LedgerSpec, Promise!Spec
=============================================================================
