-------------------------------- MODULE Gate --------------------------------
(***************************************************************************)
(* What burst protection promises of concurrent calls (limiter.go, the     *)
(* comments on limiter and allow): each is decided as if it were alone     *)
(* with the arrival time, at one instant between its clock reading and its *)
(* return, in exact arithmetic that stops at the end of the clock.         *)
(***************************************************************************)
EXTENDS Integers

CONSTANTS Calls, MaxRecords, Window, MaxTime, Horizon

VARIABLES
    clock,
    tat,       \* the theoretical arrival time
    verdict,   \* [Calls -> "none", "deciding", "admitted", "refused"]
    reading    \* [Calls -> the clock as the call read it]

vars == <<clock, tat, verdict, reading>>

Spacing == Window \div MaxRecords

Init ==
    /\ clock = 0 /\ tat = 0
    /\ verdict = [c \in Calls |-> "none"]
    /\ reading = [c \in Calls |-> 0]

Arrive(c) ==
    /\ verdict[c] = "none"
    /\ verdict' = [verdict EXCEPT ![c] = "deciding"]
    /\ reading' = [reading EXCEPT ![c] = clock]
    /\ UNCHANGED <<clock, tat>>

\* When the record would be due at the earliest, and whether it, and the spacing
\* behind it, still end within a window of the reading.
Due(c) == IF tat >= reading[c] THEN tat ELSE reading[c]
HasRoom(c) == Due(c) + Spacing <= reading[c] + Window

Admit(c) ==
    /\ verdict[c] = "deciding" /\ HasRoom(c)
    /\ verdict' = [verdict EXCEPT ![c] = "admitted"]
    /\ tat' = IF Due(c) + Spacing > MaxTime THEN MaxTime ELSE Due(c) + Spacing
    /\ UNCHANGED <<clock, reading>>

Refuse(c) ==
    /\ verdict[c] = "deciding" /\ ~HasRoom(c)
    /\ verdict' = [verdict EXCEPT ![c] = "refused"]
    /\ UNCHANGED <<clock, tat, reading>>

Tick == clock < Horizon /\ clock' = clock + 1 /\ UNCHANGED <<tat, verdict, reading>>

Next == Tick \/ \E c \in Calls : Arrive(c) \/ Admit(c) \/ Refuse(c)

Spec == Init /\ [][Next]_vars
=============================================================================
