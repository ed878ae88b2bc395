------------------------------- MODULE Ledger -------------------------------
(***************************************************************************)
(* What the client promises about every record handed to Enqueue, with no  *)
(* queue, batch, worker or retry in sight: a record is offered once, it is *)
(* counted at most once, under one reason, and that count is final; once   *)
(* Close has returned nothing is delivered, rejected or abandoned any more *)
(* and the only records still moving are those of Enqueue calls that were  *)
(* running when Close was called (client.go, Stats and Close).             *)
(* Client.tla implements this module.                                      *)
(***************************************************************************)
EXTENDS Sequences

CONSTANTS
    Records,    \* the records offered to Enqueue, one per call
    Buckets     \* the terminal counters of Stats: Sent and one per drop reason

VARIABLES
    enqueued,   \* the records counted in Stats.Enqueued
    counted,    \* counted[r]: the terminal counters r was added to, in order
    closed      \* Close has returned

ledgerVars == <<enqueued, counted, closed>>

\* Counters that only grow while the client's goroutines run.
Delivery == {"sent", "rejected", "backlog"}

Init ==
    /\ enqueued = {}
    /\ counted = [r \in Records |-> <<>>]
    /\ closed = FALSE

\* The record is taken: from here on it is the client's to account for.
Accept(r) ==
    /\ r \notin enqueued
    /\ enqueued' = enqueued \cup {r}
    /\ UNCHANGED <<counted, closed>>

\* The record is refused at the door: offered and dropped in one step.
Refuse(r, b) ==
    /\ r \notin enqueued
    /\ enqueued' = enqueued \cup {r}
    /\ counted' = [counted EXCEPT ![r] = Append(@, b)]
    /\ UNCHANGED closed

\* Records taken earlier and counted nowhere yet get their one reason.
Settle(S, b) ==
    /\ S # {} /\ S \subseteq enqueued
    /\ \A r \in S : counted[r] = <<>>
    /\ closed => b \notin Delivery
    /\ counted' = [r \in Records |-> IF r \in S THEN Append(counted[r], b)
                                                ELSE counted[r]]
    /\ UNCHANGED <<enqueued, closed>>

\* Close returns; what is left in the queue is counted in the same step.
Close(S) ==
    /\ ~closed /\ closed' = TRUE
    /\ S \subseteq enqueued
    /\ \A r \in S : counted[r] = <<>>
    /\ counted' = [r \in Records |-> IF r \in S THEN Append(counted[r], "closed")
                                                ELSE counted[r]]
    /\ UNCHANGED enqueued

Next ==
    \/ \E r \in Records : Accept(r)
    \/ \E r \in Records, b \in Buckets : Refuse(r, b)
    \/ \E S \in SUBSET Records, b \in Buckets : Settle(S, b)
    \/ \E S \in SUBSET Records : Close(S)

Spec == Init /\ [][Next]_ledgerVars
=============================================================================
