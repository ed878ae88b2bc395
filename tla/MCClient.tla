------------------------------ MODULE MCClient ------------------------------
(***************************************************************************)
(* Instances of Client for TLC.                                            *)
(***************************************************************************)
EXTENDS Client, SequencesExt

\* Enqueue calls, Flush calls and workers are interchangeable. Sound for the
\* safety runs only.
Symmetry == Permutations(Records) \cup Permutations(Workers) \cup Permutations(Callers)

\* A client whose queue was filled but for one record before its sender first
\* ran: a reachable state, and the shortest way to a sender parked at the
\* hand-off. Which record came first makes no difference.
Late == CHOOSE r \in Records : TRUE

BackloggedInit ==
    /\ Fresh
    /\ enqueued = Records \ {Late}
    /\ queue = SetToSeq(enqueued)
    /\ call = [r \in Records |-> IF r = Late THEN "idle" ELSE "returned"]

BackloggedSpec == BackloggedInit /\ [][Next]_vars
=============================================================================
