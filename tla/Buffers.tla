------------------------------ MODULE Buffers ------------------------------
(***************************************************************************)
(* The bytes of a record on their way to the wire, and the buffers that    *)
(* hold them (client.go, sender.go, transport.go): a record is encoded     *)
(* into a pooled buffer, copied into the sender's batch, copied again into *)
(* a pooled set of raw bytes and record boundaries, framed into a body,    *)
(* and perhaps split, each half aliasing the raw bytes of its parent.      *)
(*                                                                         *)
(* A record is a number k, encoded as a separator and k bytes. A cell is a *)
(* heap object: a record buffer, a set of batch buffers, or what a batch   *)
(* allocates for itself. Cells are collected when nothing refers to them.  *)
(***************************************************************************)
EXTENDS Integers, FiniteSets, SequencesExt

CONSTANTS
    Records,    \* the records enqueued, each a positive number
    Workers,    \* the upload goroutines
    Cells,      \* the heap, an interval of numbers
    QueueSize,  \* WithMaxQueueSize
    BatchSize,  \* WithBatchSize
    HardMax,    \* hardMaxBytes, the longest body that is sent
    MaxWriting  \* bounds the bodies net/http still reads after do has returned

ASSUME BuffersAssumption ==
    /\ Records \subseteq Nat \ {0}
    /\ Cells \subseteq Nat \ {0}
    /\ QueueSize \in Nat \ {0} /\ BatchSize \in Nat \ {0} /\ HardMax \in Nat

VARIABLES
    identity,    \* FrameIsIdentity of the encoder: NDJSON, or a JSON array
    bytes,       \* [Cells -> Seq(Byte)]: a record's encoding, raw, or a body
    ends,        \* [Cells -> Seq(Nat)]: record boundaries
    recordBufs,  \* [Cells -> how often it is in the pool of record buffers]
    batchBufs,   \* [Cells -> how often it is in the pool of batch buffers]
    call,        \* [Records -> where its Enqueue is]
    held,        \* [Records -> the cell its Enqueue holds, or Nil]
    queue,       \* of [cell, record]
    received,    \* what the sender took from the queue and has not copied, if any
    buf, bounds, \* the batch being accumulated
    todo,        \* batches the sender still has to dispatch, the next one first
    jobs,        \* the job channel
    job,         \* [Workers -> the batch it received, if any]
    stack,       \* [Workers -> batches it still has to upload, the next one first]
    writing,     \* bodies net/http still reads after do has returned
    carried      \* history: the records in buf, in order

poolVars == <<recordBufs, batchBufs>>
callVars == <<call, held>>
senderVars == <<received, buf, bounds, todo, carried>>
workerVars == <<job, stack, writing>>
vars == <<identity, bytes, ends, poolVars, callVars, queue, senderVars, jobs, workerVars>>

Nil == 0
Comma == 0
Open == -1
Close == -2
Byte == Records \cup {Comma, Open, Close}

-----------------------------------------------------------------------------
(* Encoding, framing and slices.                                           *)

\* AppendRecord of one record, and the concatenation of several.
Encoding(r) == <<Comma>> \o [i \in 1..r |-> r]
Encodings(recs) == FlattenSeq([i \in DOMAIN recs |-> Encoding(recs[i])])

\* Frame of a run of records: the array's bracket replaces the first separator.
Frame(s) == IF identity THEN s ELSE [s EXCEPT ![1] = Open] \o <<Close>>

\* A range of a cell, and what it reads as: nothing, once the cell is shorter.
Slice(c, lo, hi) == [cell |-> c, lo |-> lo, hi |-> hi]
In(heap, s) == IF s.hi <= Len(heap[s.cell]) THEN SubSeq(heap[s.cell], s.lo + 1, s.hi) ELSE <<>>

Raw(b) == In(bytes, b.raw)
Ends(b) == In(ends, b.ends)
Body(b) == bytes[b.own]

-----------------------------------------------------------------------------
(* Cells: allocation, collection and the pools.                            *)

Batches == ToSet(todo) \cup ToSet(jobs) \cup
           UNION {ToSet(job[w]) \cup ToSet(stack[w]) : w \in Workers}

Referenced ==
    {held[r] : r \in Records} \cup {q.cell : q \in ToSet(queue \o received)}
    \cup {x.own : x \in writing}
    \cup UNION {{b.raw.cell, b.ends.cell, b.own, b.bufs} : b \in Batches}

Pooled(c) == recordBufs[c] + batchBufs[c] > 0
Unused == {c \in Cells : c \notin Referenced /\ ~Pooled(c)}

\* What the allocator hands out of the cells S.
Fresh(S) == {c \in S : \A d \in S : c <= d}

\* The heap after a step that leaves bytes and ends as m and e.
Heap(m, e) ==
    /\ bytes' = [c \in Cells |-> IF c \in Referenced' THEN m[c] ELSE <<>>]
    /\ ends' = [c \in Cells |-> IF c \in Referenced' THEN e[c] ELSE <<>>]

\* Get takes any pooled buffer, or misses; Put keeps the buffer, unless its
\* capacity is over the cap or the pool is emptied by the collector.
Get(pool, c) == IF pool[c] > 0 THEN [pool EXCEPT ![c] = @ - 1] ELSE pool
Gettable(pool) == {c \in Cells : pool[c] > 0} \cup Fresh(Unused)
Puts(pool, c) == {pool, [pool EXCEPT ![c] = @ + 1]}

Init ==
    /\ identity \in BOOLEAN
    /\ bytes = [c \in Cells |-> <<>>] /\ ends = [c \in Cells |-> <<>>]
    /\ recordBufs = [c \in Cells |-> 0] /\ batchBufs = [c \in Cells |-> 0]
    /\ call = [r \in Records |-> "idle"] /\ held = [r \in Records |-> Nil]
    /\ queue = <<>> /\ received = <<>>
    /\ buf = <<>> /\ bounds = <<>> /\ todo = <<>> /\ carried = <<>>
    /\ jobs = <<>>
    /\ job = [w \in Workers |-> <<>>] /\ stack = [w \in Workers |-> <<>>]
    /\ writing = {}

-----------------------------------------------------------------------------
(* Enqueue.                                                                *)

\* A buffer is taken and the record encoded into it. An encoder's error and a
\* record too large for a request leave the buffer with the caller, too.
Encode(r) ==
    /\ call[r] = "idle"
    /\ \E c \in Gettable(recordBufs) :
          /\ recordBufs' = Get(recordBufs, c)
          /\ held' = [held EXCEPT ![r] = c]
          /\ \E outcome \in {"encoded", "refused"} : call' = [call EXCEPT ![r] = outcome]
          /\ UNCHANGED <<identity, batchBufs, queue, senderVars, jobs, workerVars>>
          /\ Heap([bytes EXCEPT ![c] = Encoding(r)], ends)

\* The pools a caller's buffer c may leave behind.
PutAlways(sent, c) == Puts(recordBufs, c)
PutUnlessSent(sent, c) == IF sent THEN {recordBufs} ELSE Puts(recordBufs, c)

\* The send, and the paths on which the record does not reach the queue.
Offer(r) ==
    /\ call[r] \in {"encoded", "refused"}
    /\ LET sent == call[r] = "encoded" /\ Len(queue) < QueueSize IN
       /\ queue' = IF sent THEN Append(queue, [cell |-> held[r], record |-> r]) ELSE queue
       /\ recordBufs' \in PutUnlessSent(sent, held[r])
    /\ call' = [call EXCEPT ![r] = "returned"]
    /\ held' = [held EXCEPT ![r] = Nil]
    /\ UNCHANGED <<identity, batchBufs, senderVars, jobs, workerVars>>
    /\ Heap(bytes, ends)

-----------------------------------------------------------------------------
(* The sender: appendRecord, flush and pack.                               *)

Receive ==
    /\ todo = <<>> /\ received = <<>> /\ queue # <<>> /\ Len(bounds) < BatchSize
    /\ received' = <<Head(queue)>> /\ queue' = Tail(queue)
    /\ UNCHANGED <<identity, bytes, ends, poolVars, callVars, buf, bounds, todo, carried,
                   jobs, workerVars>>

\* The record is copied into the batch, and its buffer goes back to the pool.
AppendRecord ==
    /\ received # <<>>
    /\ LET q == received[1]
           longer == buf \o bytes[q.cell] IN
       /\ buf' = longer /\ bounds' = Append(bounds, Len(longer))
       /\ carried' = Append(carried, q.record)
       /\ recordBufs' \in Puts(recordBufs, q.cell)
    /\ received' = <<>>
    /\ UNCHANGED <<identity, batchBufs, callVars, queue, todo, jobs, workerVars>>
    /\ Heap(bytes, ends)

\* pack: the bytes m once a run of records, raw, has been framed on the packer's
\* scratch and copied into the cell own.
Packed(m, own, raw) == [m EXCEPT ![own] = Frame(In(m, raw))]

\* flush: the batch takes a pooled set of buffers for its copies. A failing
\* compression gives the set back and the records are dropped.
Flush ==
    /\ todo = <<>> /\ received = <<>> /\ bounds # <<>>
    /\ \E c \in Gettable(batchBufs) : \E own \in Fresh(Unused \ {c}) :
          LET copied == [bytes EXCEPT ![c] = buf]
              b == [raw |-> Slice(c, 0, Len(buf)), ends |-> Slice(c, 0, Len(bounds)),
                    own |-> own, bufs |-> c, records |-> carried] IN
          \/ /\ batchBufs' \in Puts(Get(batchBufs, c), c)
             /\ UNCHANGED <<identity, recordBufs, callVars, queue, received, todo, jobs, workerVars>>
             /\ Heap(bytes, ends)
          \/ /\ batchBufs' = Get(batchBufs, c)
             /\ todo' = <<b>>
             /\ UNCHANGED <<identity, recordBufs, callVars, queue, received, jobs, workerVars>>
             /\ Heap(Packed(copied, own, b.raw), [ends EXCEPT ![c] = bounds])
    /\ buf' = <<>> /\ bounds' = <<>> /\ carried' = <<>>

\* releaseBatch: the set goes back to its pool, if the batch has one.
ReleasedWithBody(b) ==
    IF b.bufs = Nil THEN {batchBufs} ELSE Puts([batchBufs EXCEPT ![b.own] = @ + 1], b.bufs)
Released(b) == IF b.bufs = Nil THEN {batchBufs} ELSE Puts(batchBufs, b.bufs)

-----------------------------------------------------------------------------
(* split, by the sender and by a worker.                                   *)

\* The boundaries of the records from i on, on a slice that starts at cut.
Rebased(es, i, cut) == [k \in 1 .. Len(es) - i + 1 |-> es[i + k - 1] - cut]

\* The buffer set a half of b may release.
Inherited(b) == b.bufs
NoneOfItsOwn(b) == Nil

\* The left and the right half of b, allocated in l and r. Both alias its raw; the
\* right half has boundaries of its own.
Halves(b, l, r) ==
    LET n == Len(b.records)
        mid == n \div 2
        cut == Ends(b)[mid] IN
    <<[raw |-> Slice(b.raw.cell, b.raw.lo, b.raw.lo + cut),
       ends |-> Slice(b.ends.cell, b.ends.lo, b.ends.lo + mid),
       own |-> l, bufs |-> NoneOfItsOwn(b), records |-> SubSeq(b.records, 1, mid)],
      [raw |-> Slice(b.raw.cell, b.raw.lo + cut, b.raw.hi),
       ends |-> Slice(r, 0, n - mid),
       own |-> r, bufs |-> NoneOfItsOwn(b), records |-> SubSeq(b.records, mid + 1, n)]>>

\* The heap once both halves of b are packed.
HalvesPacked(b, l, r) ==
    LET left == Halves(b, l, r)[1]
        right == Halves(b, l, r)[2] IN
    Heap(Packed(Packed(bytes, l, left.raw), r, right.raw),
         [ends EXCEPT ![r] =
             Rebased(Ends(b), Len(left.records) + 1, left.raw.hi - left.raw.lo)])

\* What is left to do of a run of batches, when its first one is split.
SplitFirst(run, l, r) == Halves(Head(run), l, r) \o Tail(run)

-----------------------------------------------------------------------------
(* dispatch and handOff.                                                   *)

\* The batch's last use by the sender: it is a lone record over the limit, its
\* split failed, or the hand-off was abandoned.
DispatchDrops ==
    /\ todo # <<>>
    /\ batchBufs' \in Released(Head(todo))
    /\ todo' = Tail(todo)
    /\ UNCHANGED <<identity, recordBufs, callVars, queue, received, buf, bounds, carried,
                   jobs, workerVars>>
    /\ Heap(bytes, ends)

\* A parent split by the sender is not released: its halves outlive the call.
ReleasedAtOnce(b) == Released(b)
NotReleased(b) == {batchBufs}

DispatchSplit ==
    /\ todo # <<>> /\ Len(Body(Head(todo))) > HardMax /\ Len(Head(todo).records) > 1
    /\ batchBufs' \in NotReleased(Head(todo))
    /\ UNCHANGED <<identity, recordBufs, callVars, queue, received, buf, bounds, carried,
                   jobs, workerVars>>
    /\ \E l \in Fresh(Unused) : \E r \in Fresh(Unused \ {l}) :
          /\ todo' = SplitFirst(todo, l, r)
          /\ HalvesPacked(Head(todo), l, r)

HandOff ==
    /\ todo # <<>> /\ Len(Body(Head(todo))) <= HardMax
    /\ Len(jobs) < Cardinality(Workers)
    /\ jobs' = Append(jobs, Head(todo))
    /\ todo' = Tail(todo)
    /\ UNCHANGED <<identity, bytes, ends, poolVars, callVars, queue, received, buf, bounds,
                   carried, workerVars>>

-----------------------------------------------------------------------------
(* A worker: upload, splitAndSend, and the release that follows them.      *)

WorkerReceive(w) ==
    /\ job[w] = <<>> /\ jobs # <<>>
    /\ job' = [job EXCEPT ![w] = <<Head(jobs)>>]
    /\ stack' = [stack EXCEPT ![w] = <<Head(jobs)>>]
    /\ jobs' = Tail(jobs)
    /\ UNCHANGED <<identity, bytes, ends, poolVars, callVars, queue, senderVars, writing>>

\* What net/http may still be reading once do has returned for batch b.
StillWriting(b) ==
    {writing} \cup (IF Cardinality(writing) < MaxWriting
                    THEN {writing \cup {[own |-> b.own, records |-> b.records]}} ELSE {})

\* An attempt that is retried, or ends the batch.
Attempt(w) ==
    /\ stack[w] # <<>>
    /\ writing' \in StillWriting(Head(stack[w]))
    /\ \/ UNCHANGED stack
       \/ stack' = [stack EXCEPT ![w] = Tail(@)]
    /\ UNCHANGED <<identity, poolVars, callVars, queue, senderVars, jobs, job>>
    /\ Heap(bytes, ends)

\* A 413 for more than one record.
AttemptSplits(w) ==
    /\ stack[w] # <<>> /\ Len(Head(stack[w]).records) > 1
    /\ writing' \in StillWriting(Head(stack[w]))
    /\ UNCHANGED <<identity, poolVars, callVars, queue, senderVars, jobs, job>>
    /\ \E l \in Fresh(Unused) : \E r \in Fresh(Unused \ {l}) :
          /\ stack' = [stack EXCEPT ![w] = SplitFirst(@, l, r)]
          /\ HalvesPacked(Head(stack[w]), l, r)

\* upload has returned: the batch, and every half of it, is resolved.
WorkerReleases(w) ==
    /\ job[w] # <<>> /\ stack[w] = <<>>
    /\ batchBufs' \in Released(job[w][1])
    /\ job' = [job EXCEPT ![w] = <<>>]
    /\ UNCHANGED <<identity, recordBufs, callVars, queue, senderVars, jobs, stack, writing>>
    /\ Heap(bytes, ends)

\* net/http is done with a body.
WriteEnds ==
    /\ \E x \in writing : writing' = writing \ {x}
    /\ UNCHANGED <<identity, poolVars, callVars, queue, senderVars, jobs, job, stack>>
    /\ Heap(bytes, ends)

-----------------------------------------------------------------------------
Next ==
    \/ \E r \in Records : Encode(r) \/ Offer(r)
    \/ Receive \/ AppendRecord \/ Flush
    \/ DispatchDrops \/ DispatchSplit \/ HandOff
    \/ \E w \in Workers : WorkerReceive(w) \/ Attempt(w) \/ AttemptSplits(w) \/ WorkerReleases(w)
    \/ WriteEnds

\* Every record has been offered and nothing of it is left.
Resolved ==
    /\ \A r \in Records : call[r] = "returned"
    /\ queue = <<>> /\ received = <<>> /\ bounds = <<>> /\ Batches = {} /\ writing = {}

Spec == Init /\ [][Next \/ (Resolved /\ UNCHANGED vars)]_vars

-----------------------------------------------------------------------------
(* Properties.                                                             *)

\* The offsets at which the records of a run end.
EndsOf(recs) == [i \in DOMAIN recs |-> Len(Encodings(SubSeq(recs, 1, i)))]

\* A record is still what its caller encoded when the sender copies it: no other
\* Enqueue has been handed its buffer (putRecordBuf, Enqueue, run).
QueuedIntact ==
    \A q \in ToSet(queue \o received) : bytes[q.cell] = Encoding(q.record)

\* Whatever its ancestors' buffers went through, an unresolved batch still reads
\* its own records, each at its own bounds, so that a 413 can split it again
\* (split, releaseBatch).
RawIntact ==
    \A b \in Batches : Raw(b) = Encodings(b.records) /\ Ends(b) = EndsOf(b.records)

\* What goes on the wire is the framing of whole records, also while net/http
\* goes on reading it after do has returned (pack, do).
BodyIntact ==
    /\ \A b \in Batches : Body(b) = Frame(Encodings(b.records))
    /\ \A x \in writing : bytes[x.own] = Frame(Encodings(x.records))

\* A buffer is in one pool, once, and only when nothing reads or writes it
\* (putRecordBuf, putBatchBufs and releaseBatch on every path).
OneOwner ==
    \A c \in Cells :
        /\ recordBufs[c] + batchBufs[c] <= 1
        /\ Pooled(c) => c \notin Referenced

=============================================================================
