---------------------------- MODULE SourceCache ----------------------------
(***************************************************************************)
(* The cache of call sites behind WithAddSource (attr.go): two generations *)
(* of entries and a count, read and changed by every goroutine that logs,  *)
(* with no lock but the one that serialises rotations.                     *)
(*                                                                         *)
(* A generation is a sync.Map on the heap: `content` gives the call sites  *)
(* in it, `hot` and `cold` are pointers, and a goroutine keeps a pointer   *)
(* it loaded for as long as it uses it. An atomic operation is a step.     *)
(***************************************************************************)
EXTENDS Integers, FiniteSets

CONSTANTS
    Sites,       \* the program counters looked up; each of them symbolizes
    Goroutines,  \* the goroutines that log
    Maps,        \* the addresses of generations; one is reused once collected
    Nil,         \* the nil pointer
    Nobody,      \* holds the mutex when it is free
    Max          \* sourceCache.max, the discoveries in a generation

ASSUME SourceCacheAssumption ==
    /\ Nil \notin Maps \cup Sites
    /\ Nobody \notin Goroutines
    /\ Max \in Nat \ {0}

VARIABLES
    hot, cold,   \* the generation being filled, and the previous one
    content,     \* [Maps -> SUBSET Sites]
    n,           \* discoveries counted since the last rotation
    rotating,    \* the goroutine holding the mutex
    at,          \* [Goroutines -> where its lookup is]: a phase, the site, the
                 \* generation it loaded last, and the one it promotes from
    \* history, for the properties only
    met,         \* [Sites -> discoveries counted since its last use, up to Max]
    crossed,     \* the sites whose uses do not count until the next rotation
    slipped      \* a discovery in hot was counted before the count was reset

history == <<met, crossed, slipped>>
vars == <<hot, cold, content, n, rotating, at, history>>

Phases == {"idle", "readHot", "loadCold", "readCold", "promote", "carry", "drop", "resolve",
           "store", "count", "rotate", "publishCold", "publishHot", "resetCount"}
Idle == [phase |-> "idle", site |-> Nil, map |-> Nil, from |-> Nil]

\* What can still be found: the entries of both generations.
Live == content[hot] \cup IF cold = Nil THEN {} ELSE content[cold]

Init ==
    /\ hot \in Maps /\ cold = Nil
    /\ content = [m \in Maps |-> {}]
    /\ n = 0 /\ rotating = Nobody
    /\ at = [g \in Goroutines |-> Idle]
    /\ met = [s \in Sites |-> Max]
    /\ crossed = {} /\ slipped = FALSE

\* The generations something points to. The others have been collected.
Referenced == {hot, cold} \cup {at[g].map : g \in Goroutines} \cup {at[g].from : g \in Goroutines}
Heap(c) == content' = [m \in Maps |-> IF m \in Referenced' THEN c[m] ELSE {}]

Goto(g, p) == at' = [at EXCEPT ![g].phase = p]
GotoWith(g, p, m) == at' = [at EXCEPT ![g].phase = p, ![g].map = m]

\* The lookup returns and its pointers die. With the discoveries met as in m,
\* its site counts as used, but for the sites in crossed.
ReturnHaving(g, m) ==
    /\ at' = [at EXCEPT ![g] = Idle]
    /\ met' = IF at[g].site \in crossed THEN m ELSE [m EXCEPT ![at[g].site] = 0]
Return(g) == ReturnHaving(g, met)

-----------------------------------------------------------------------------
(* lookup: the hot generation, then the cold one, then symbolization.      *)

\* hot.Load() of a lookup of s. A rotation under way overlaps it.
Lookup(g, s) ==
    /\ at[g].phase = "idle"
    /\ at' = [at EXCEPT ![g] = [phase |-> "readHot", site |-> s, map |-> hot, from |-> Nil]]
    /\ IF rotating = Nobody
       THEN UNCHANGED history
       ELSE /\ crossed' = crossed \cup {s} /\ met' = [met EXCEPT ![s] = Max]
            /\ UNCHANGED slipped
    /\ UNCHANGED <<hot, cold, content, n, rotating>>

ReadHot(g) ==
    /\ at[g].phase = "readHot"
    /\ IF at[g].site \in content[at[g].map]
       THEN Return(g)
       ELSE Goto(g, "loadCold") /\ UNCHANGED met
    /\ UNCHANGED <<hot, cold, n, rotating, crossed, slipped>>
    /\ Heap(content)

LoadCold(g) ==
    /\ at[g].phase = "loadCold"
    /\ GotoWith(g, IF cold = Nil THEN "resolve" ELSE "readCold", cold)
    /\ UNCHANGED <<hot, cold, n, rotating, history>>
    /\ Heap(content)

ReadCold(g) ==
    /\ at[g].phase = "readCold"
    /\ IF at[g].site \in content[at[g].map]
       THEN at' = [at EXCEPT ![g].phase = "promote", ![g].from = at[g].map]
       ELSE Goto(g, "resolve")
    /\ UNCHANGED <<hot, cold, content, n, rotating, history>>

\* runtime.CallersFrames, and the load of hot that remember begins with. A
\* program counter that does not symbolize ends its lookup here, uncached.
Resolve(g) ==
    /\ at[g].phase = "resolve"
    /\ GotoWith(g, "store", hot)
    /\ UNCHANGED <<hot, cold, n, rotating, history>>
    /\ Heap(content)

-----------------------------------------------------------------------------
(* promote.                                                                *)

PromoteLoadHot(g) ==
    /\ at[g].phase = "promote"
    /\ GotoWith(g, "carry", hot)
    /\ UNCHANGED <<hot, cold, content, n, rotating, history>>

Carry(g) ==
    /\ at[g].phase = "carry"
    /\ content' = [content EXCEPT ![at[g].map] = @ \cup {at[g].site}]
    /\ Goto(g, "drop")
    /\ UNCHANGED <<hot, cold, n, rotating, history>>

\* What is left in the generation an entry was promoted from.
PromotedKept(S, s) == S
WithoutPromoted(S, s) == S \ {s}

Drop(g) ==
    /\ at[g].phase = "drop"
    /\ Return(g)
    /\ UNCHANGED <<hot, cold, n, rotating, crossed, slipped>>
    /\ Heap([content EXCEPT ![at[g].from] = WithoutPromoted(@, at[g].site)])

-----------------------------------------------------------------------------
(* remember and rotate.                                                    *)

Store(g) ==
    /\ at[g].phase = "store"
    /\ IF at[g].site \in content[at[g].map]
       THEN Return(g)
       ELSE Goto(g, "count") /\ UNCHANGED met
    /\ UNCHANGED <<hot, cold, n, rotating, crossed, slipped>>
    /\ Heap([content EXCEPT ![at[g].map] = @ \cup {at[g].site}])

\* The count that retires a generation.
FullEarly(k) == k + 1 >= Max
Full(k) == k >= Max

\* n.Add(1), and the decision on what it returned.
Count(g) ==
    /\ at[g].phase = "count"
    /\ n' = n + 1
    /\ LET after == [s \in Sites |-> IF met[s] < Max THEN met[s] + 1 ELSE Max] IN
       IF Full(n + 1)
       THEN Goto(g, "rotate") /\ met' = after
       ELSE ReturnHaving(g, after)
    /\ slipped' = (slipped \/ /\ at[g].map = hot
                              /\ \E h \in Goroutines : at[h].phase = "resetCount")
    /\ UNCHANGED <<hot, cold, rotating, crossed>>
    /\ Heap(content)

\* Whether a goroutine that filled generation m still has to retire it.
RetiredAnyway(m) == TRUE
StillFilling(m) == m = hot

\* The mutex is taken, and hot, which only its holder changes, is checked.
RotateLock(g) ==
    /\ at[g].phase = "rotate" /\ rotating = Nobody
    /\ IF StillFilling(at[g].map)
       THEN Goto(g, "publishCold") /\ rotating' = g /\ UNCHANGED met
       ELSE Return(g) /\ UNCHANGED rotating
    /\ UNCHANGED <<hot, cold, n, crossed, slipped>>
    /\ Heap(content)

\* The sites whose last use the rotation may forget: those with a lookup that
\* it overlaps, or all of them if it comes too early.
Exempt ==
    IF slipped THEN Sites
    ELSE {at[h].site : h \in {k \in Goroutines : at[k].phase # "idle"}}

PublishCold(g) ==
    /\ at[g].phase = "publishCold"
    /\ cold' = at[g].map
    /\ crossed' = Exempt
    /\ met' = [s \in Sites |-> IF s \in Exempt THEN Max ELSE met[s]]
    /\ slipped' = FALSE
    /\ Goto(g, "publishHot")
    /\ UNCHANGED <<hot, n, rotating>>
    /\ Heap(content)

PublishHot(g) ==
    /\ at[g].phase = "publishHot"
    /\ hot' \in Maps \ Referenced
    /\ Goto(g, "resetCount")
    /\ UNCHANGED <<cold, content, n, rotating, history>>

\* n.Store(0), and the mutex is released.
ResetCount(g) ==
    /\ at[g].phase = "resetCount"
    /\ n' = 0
    /\ rotating' = Nobody
    /\ Return(g)
    /\ UNCHANGED <<hot, cold, crossed, slipped>>
    /\ Heap(content)

-----------------------------------------------------------------------------
Next == \E g \in Goroutines :
    \/ \E s \in Sites : Lookup(g, s)
    \/ ReadHot(g) \/ LoadCold(g) \/ ReadCold(g) \/ Resolve(g)
    \/ PromoteLoadHot(g) \/ Carry(g) \/ Drop(g)
    \/ Store(g) \/ Count(g) \/ RotateLock(g)
    \/ PublishCold(g) \/ PublishHot(g) \/ ResetCount(g)

Spec == Init /\ [][Next]_vars

-----------------------------------------------------------------------------
(* Properties.                                                             *)

\* The cache, the lookups in it and the history have the declared types.
TypeOK ==
    /\ hot \in Maps /\ cold \in Maps \cup {Nil}
    /\ content \in [Maps -> SUBSET Sites]
    /\ n \in Nat /\ rotating \in Goroutines \cup {Nobody}
    /\ at \in [Goroutines -> [phase : Phases, site : Sites \cup {Nil},
                              map : Maps \cup {Nil}, from : Maps \cup {Nil}]]
    /\ met \in [Sites -> 0..Max] /\ crossed \subseteq Sites /\ slipped \in BOOLEAN

\* "A call site used at least once in the time it takes the process to meet
\* max new ones is never evicted" (sourceCache): what holds of it under every
\* interleaving. A lookup that a rotation overlaps may lose its own site, and a
\* discovery counted between a rotation's new generation and its reset of the
\* count retires that generation at once, whatever it holds (Exempt).
NeverEvicted == \A s \in Sites : met[s] < Max => s \in Live

\* Only what is being promoted is in both generations (promote deletes it from
\* cold), but for the sites of lookups the latest rotation overlapped.
HeldOnce ==
    cold \notin {Nil, hot} =>
        \A s \in (content[hot] \cap content[cold]) \ crossed :
            \E g \in Goroutines : at[g].phase = "drop" /\ at[g].site = s

\* A generation is retired through cold, whole, before it is dropped: hot is
\* replaced only once it is cold, and cold only by hot (rotate, its mutex and
\* its check that the generation is not retired already).
SecondChance ==
    [][/\ hot' # hot => cold = hot
       /\ cold' # cold => cold' = hot]_vars

\* The documented ceiling: "a full hot generation plus a full cold one".
Ceiling == Cardinality(Live) <= 2 * Max

=============================================================================
